------------------------- MODULE RotationRing_proofs -------------------------
(***************************************************************************)
(* What the pure operators of RotationRing return, for every finite set of *)
(* accounts: the lemmas that the ring in use (PoolRotation_proofs) and the *)
(* pool that chooses with it (CodexRouting_proofs) share.                  *)
(***************************************************************************)
EXTENDS RotationRing, FiniteSetTheorems, WellFoundedInduction, TLAPS

-----------------------------------------------------------------------------
(* The pure operators.                                                     *)

\* A finite list has a first among the best: the choice of smoothWeightedIndex
\* is always one of the accounts it is given, and none of them beats it.
LEMMA ForemostIsBest ==
    ASSUME NEW S, IsFiniteSet(S), S # {}, NEW score, NEW rank,
           \A a \in S : score[a] \in Int /\ rank[a] \in Int
    PROVE  /\ Foremost(S, score, rank) \in S
           /\ \A b \in S : LET best == Foremost(S, score, rank)
                           IN  \/ score[best] > score[b]
                               \/ score[best] = score[b] /\ rank[best] <= rank[b]
  <1> DEFINE Beats(b, a) == score[b] > score[a] \/ (score[b] = score[a] /\ rank[b] < rank[a])
             Better(a) == {b \in S : Beats(b, a)}
             T == {Better(a) : a \in S}
             R == StrictSubsetOrdering(S)
  <1>1. IsWellFoundedOn(R, SUBSET S)
    BY FS_StrictSubsetOrderingWellFounded, FS_FiniteSubsetsOfFinite
  <1>2. T \subseteq SUBSET S /\ T # {}
    <2>1. \A a : Better(a) \in SUBSET S
      OBVIOUS
    <2> HIDE DEF Better
    <2>2. PICK z : z \in S
      OBVIOUS
    <2>3. Better(z) \in T
      BY <2>2
    <2> QED BY <2>1, <2>3
  <1>3. PICK x \in T : \A y \in T : ~ (<<y, x>> \in R)
    <2> HIDE DEF T, R
    <2> QED BY <1>1, <1>2, WFMin
  <1>4. PICK a \in S : x = Better(a)
    OBVIOUS
  <1>5. ASSUME NEW b \in S, Beats(b, a) PROVE FALSE
    <2>1. Better(b) \subseteq Better(a)
      BY <1>5
    <2>2. b \in Better(a) /\ b \notin Better(b)
      BY <1>5
    <2>3. <<Better(b), Better(a)>> \in R
      BY <2>1, <2>2 DEF StrictSubsetOrdering
    <2> QED BY <1>3, <1>4, <2>3
  <1>6. \A b \in S : score[a] > score[b] \/ (score[a] = score[b] /\ rank[a] <= rank[b])
    BY <1>5
  <1> QED BY <1>6 DEF Foremost

\* Priorities order the accounts and never leave a request without one.  The
\* tier selectPriorityTier returns is part of the list it is given and empty
\* only with it; nobody who has headroom under the pin's ceiling is in a higher
\* tier; and while the pin has headroom, the tier is not above it.
THEOREM TierIsServed ==
    ASSUME NEW ids, IsFiniteSet(ids), NEW priority, NEW headroom, NEW pin,
           \A a \in ids : priority[a] \in Int
    PROVE  LET open == UnderCeiling(ids, priority, headroom, pin) \cap headroom
               tier == SelectPriorityTier(ids, priority, headroom, pin)
           IN  /\ tier \subseteq ids
               /\ tier = {} => ids = {}
               /\ \A a \in open, b \in tier : priority[a] <= priority[b]
               /\ pin \in ids \cap headroom =>
                     \A b \in tier : priority[b] <= priority[pin]
  <1> DEFINE open == UnderCeiling(ids, priority, headroom, pin) \cap headroom
             tier == SelectPriorityTier(ids, priority, headroom, pin)
             Top(b) == b \in open /\ \A c \in open : priority[c] <= priority[b]
  <1>1. open \subseteq ids
    BY DEF UnderCeiling
  <1>2. CASE open = {}
    <2>1. tier = ids
      BY <1>2 DEF SelectPriorityTier
    <2>2. ~(pin \in ids \cap headroom)
      BY <1>2 DEF UnderCeiling
    <2> QED BY <1>2, <2>1, <2>2
  <1>3. CASE open # {}
    <2>1. tier = {a \in ids : \E b : Top(b) /\ priority[a] = priority[b]}
      BY <1>3 DEF SelectPriorityTier
    <2>2. IsFiniteSet(open) /\ \A a \in open : priority[a] \in Int
      BY <1>1, FS_Subset
    <2> DEFINE best == Foremost(open, priority, priority)
    <2>3. Top(best)
      <3>1. best \in open /\ \A c \in open : priority[c] <= priority[best]
        <4> HIDE DEF open
        <4> QED BY <1>3, <2>2, ForemostIsBest
      <3> QED BY <3>1
    <2>4. best \in tier
      BY <1>1, <2>1, <2>3
    <2>5. \A a \in open, b \in tier : priority[a] <= priority[b]
      <3> HIDE DEF open, tier
      <3> QED BY <2>1
    <2>6. ASSUME pin \in ids \cap headroom, NEW b \in tier
          PROVE  priority[b] <= priority[pin]
      <3>1. PICK c : Top(c) /\ priority[b] = priority[c]
        BY <2>1
      <3>2. \A a \in open : priority[a] <= priority[pin]
        BY <2>6 DEF UnderCeiling
      <3> QED BY <3>1, <3>2
    <2> QED BY <2>1, <2>4, <2>5, <2>6
  <1> QED BY <1>2, <1>3

-----------------------------------------------------------------------------
(* The type of a ring over some accounts, with a limit to its runs.        *)

Weights(accounts) == UNION {[D -> Int] : D \in SUBSET accounts}

Rings(accounts, limit) ==
    [made : BOOLEAN, active : accounts \cup {NoAccount}, successes : 0..(limit - 1),
     weights : Weights(accounts)]

\* What the lemmas suppose of the constants of a module that uses the ring.
RingFor(accounts, limit) ==
    IsFiniteSet(accounts) /\ NoAccount \notin accounts /\ limit \in 1..100

\* An account is always found among those that may serve.
LEMMA PickedIsEligible ==
    ASSUME NEW accounts, NEW limit, RingFor(accounts, limit),
           NEW r \in Rings(accounts, limit), NEW ids \in SUBSET accounts, ids # {},
           NEW rank, \A a \in ids : rank[a] \in Int
    PROVE  Picked(r, ids, rank) \in ids
  <1>1. \A a \in accounts : Weight(r, a) \in Int
    BY DEF Weight, Rings, Weights
  <1>2. \A a \in ids : Scores(r, ids)[a] \in Int /\ rank[a] \in Int
    BY <1>1 DEF Scores
  <1>3. IsFiniteSet(ids)
    BY FS_Subset DEF RingFor
  <1>4. Foremost(ids, Scores(r, ids), rank) \in ids
    BY <1>2, <1>3, ForemostIsBest
  <1> QED BY <1>4 DEF Picked, Holds

\* The credits stay integers, and belong to accounts.
LEMMA ChargedType ==
    ASSUME NEW accounts, NEW limit, RingFor(accounts, limit),
           NEW r \in Rings(accounts, limit), NEW ids \in SUBSET accounts, NEW winner \in ids
    PROVE  Charged(r, ids, winner) \in Weights(accounts)
  <1>1. DOMAIN r.weights \subseteq accounts
        /\ \A a \in DOMAIN r.weights : r.weights[a] \in Int
    BY DEF Rings, Weights
  <1>2. \A a \in ids : Scores(r, ids)[a] \in Int
    BY <1>1 DEF Scores, Weight
  <1>3. Cardinality(ids) \in Nat
    BY FS_Subset, FS_CardinalityType DEF RingFor
  <1> DEFINE D == DOMAIN r.weights \cup ids
  <1>4. Charged(r, ids, winner) \in [D -> Int]
    BY <1>1, <1>2, <1>3 DEF Charged
  <1>5. D \in SUBSET accounts
    BY <1>1
  <1> QED BY <1>4, <1>5 DEF Weights

\* What a draw leaves: the ring as it was, or the winner's count from nothing.
LEMMA AfterPickType ==
    ASSUME NEW accounts, NEW limit, RingFor(accounts, limit),
           NEW r \in Rings(accounts, limit), NEW ids \in SUBSET accounts, ids # {},
           NEW rank, \A a \in ids : rank[a] \in Int
    PROVE  LET after == AfterPick(r, ids, limit, rank)
               winner == Picked(r, ids, rank)
           IN  /\ after \in Rings(accounts, limit) /\ after.made
               /\ Holds(r, ids) => /\ winner = r.active /\ after.active = r.active
                                   /\ after.successes = r.successes
               /\ ~Holds(r, ids) => /\ after.active \in {winner, NoAccount}
                                    /\ after.successes = 0
  <1> DEFINE after == AfterPick(r, ids, limit, rank)
             winner == Picked(r, ids, rank)
  <1>1. winner \in ids
    BY PickedIsEligible
  <1>2. CASE Holds(r, ids)
    BY <1>2 DEF AfterPick, Rings, Picked
  <1>3. CASE ~Holds(r, ids)
    <2>1. after = [made |-> TRUE, active |-> IF limit > 1 THEN winner ELSE NoAccount,
                   successes |-> 0, weights |-> Charged(r, ids, winner)]
      BY <1>3 DEF AfterPick
    <2>2. Charged(r, ids, winner) \in Weights(accounts)
      BY <1>1, ChargedType
    <2>3. 0 \in 0..(limit - 1)
      BY DEF RingFor
    <2>4. /\ (IF limit > 1 THEN winner ELSE NoAccount) \in accounts \cup {NoAccount}
          /\ (IF limit > 1 THEN winner ELSE NoAccount) \in {winner, NoAccount}
      BY <1>1
    <2> HIDE DEF winner
    <2>5. after \in Rings(accounts, limit) /\ after.made /\ after.successes = 0
          /\ after.active \in {winner, NoAccount}
      BY <2>1, <2>2, <2>3, <2>4 DEF Rings
    <2> QED BY <1>3, <2>5 DEF winner
  <1> QED BY <1>2, <1>3

\* Also where there is nobody to draw, the ring is made and well typed.
LEMMA AfterAnyPickType ==
    ASSUME NEW accounts, NEW limit, RingFor(accounts, limit),
           NEW r \in Rings(accounts, limit), NEW ids \in SUBSET accounts,
           NEW rank, \A a \in ids : rank[a] \in Int
    PROVE  AfterPick(r, ids, limit, rank) \in Rings(accounts, limit)
  <1>1. CASE ids = {}
    BY <1>1 DEF AfterPick, Rings
  <1> QED BY <1>1, AfterPickType

\* The count stays below the limit, or the ring is released.
LEMMA NoteSuccessType ==
    ASSUME NEW accounts, NEW limit, RingFor(accounts, limit),
           NEW r \in Rings(accounts, limit), NEW a \in accounts
    PROVE  LET after == NoteSuccess(r, a, limit)
           IN  /\ after \in Rings(accounts, limit)
               /\ r.made => \/ after.active = NoAccount
                            \/ /\ after.active = a
                               /\ after.successes =
                                    IF r.active = a THEN r.successes + 1 ELSE 1
  <1> DEFINE count == IF r.active = a THEN r.successes + 1 ELSE 1
  <1>1. count \in Nat
    BY DEF Rings
  <1>2. CASE ~r.made
    BY <1>2 DEF NoteSuccess
  <1>3. CASE r.made /\ count >= limit
    <2>1. NoteSuccess(r, a, limit) = [r EXCEPT !.active = NoAccount, !.successes = 0]
      BY <1>3 DEF NoteSuccess
    <2>2. NoteSuccess(r, a, limit) =
            [made |-> r.made, active |-> NoAccount, successes |-> 0, weights |-> r.weights]
      BY <2>1 DEF Rings
    <2>3. 0 \in 0..(limit - 1)
      BY DEF RingFor
    <2> QED BY <2>2, <2>3 DEF Rings
  <1>4. CASE r.made /\ ~(count >= limit)
    <2>1. NoteSuccess(r, a, limit) = [r EXCEPT !.active = a, !.successes = count]
      BY <1>4 DEF NoteSuccess
    <2>2. count \in 0..(limit - 1)
      BY <1>1, <1>4 DEF RingFor
    <2>3. NoteSuccess(r, a, limit) =
            [made |-> r.made, active |-> a, successes |-> count, weights |-> r.weights]
      BY <2>1 DEF Rings
    <2> HIDE DEF count
    <2>4. NoteSuccess(r, a, limit) \in Rings(accounts, limit)
      BY <2>2, <2>3 DEF Rings
    <2> QED BY <2>3, <2>4 DEF count
  <1> QED BY <1>2, <1>3, <1>4

\* A failure leaves the ring alone, or released.
LEMMA NoteFailureType ==
    ASSUME NEW accounts, NEW limit, RingFor(accounts, limit),
           NEW r \in Rings(accounts, limit), NEW a
    PROVE  LET after == NoteFailure(r, a)
           IN  /\ after \in Rings(accounts, limit)
               /\ after.active # NoAccount =>
                     after.active = r.active /\ after.successes = r.successes
  <1>1. 0 \in 0..(limit - 1)
    BY DEF RingFor
  <1> QED BY <1>1 DEF NoteFailure, Rings

\* A fresh ring, and one that a selection has seeded.
LEMMA FreshType ==
    ASSUME NEW accounts, NEW limit, RingFor(accounts, limit)
    PROVE  /\ NoRing \in Rings(accounts, limit)
           /\ \A a \in accounts : Seeded(a) \in Rings(accounts, limit)
  <1>1. 0 \in 0..(limit - 1)
    BY DEF RingFor
  <1>2. NoWeights \in Weights(accounts)
    BY DEF NoWeights, Weights
  <1> QED BY <1>1, <1>2 DEF NoRing, Seeded, Rings

\* A reconciliation keeps the count with its account, or neither.
LEMMA ReconcileType ==
    ASSUME NEW accounts, NEW limit, RingFor(accounts, limit),
           NEW r \in Rings(accounts, limit), NEW valid \in SUBSET accounts
    PROVE  /\ ReconcileRing(r, valid) \in Rings(accounts, limit)
           /\ ReconcileRing(r, valid).active # NoAccount =>
                /\ ReconcileRing(r, valid).active = r.active
                /\ ReconcileRing(r, valid).successes = r.successes
  <1>1. CASE ~r.made \/ valid = {}
    BY <1>1, FreshType DEF ReconcileRing, NoRing
  <1>2. CASE ~(~r.made \/ valid = {})
    <2> DEFINE kept == [a \in DOMAIN r.weights \cap valid |-> r.weights[a]]
               gone == r.active # NoAccount /\ r.active \notin valid
    <2>1. kept \in Weights(accounts)
      <3>1. \A a \in DOMAIN r.weights : r.weights[a] \in Int
        BY DEF Rings, Weights
      <3>2. kept \in [DOMAIN r.weights \cap valid -> Int]
        BY <3>1
      <3> QED BY <3>2 DEF Weights
    <2>2. ReconcileRing(r, valid) =
            [made |-> TRUE, active |-> IF gone THEN NoAccount ELSE r.active,
             successes |-> IF gone THEN 0 ELSE r.successes, weights |-> kept]
      BY <1>2 DEF ReconcileRing
    <2>3. 0 \in 0..(limit - 1)
      BY DEF RingFor
    <2> HIDE DEF kept
    <2> QED BY <2>1, <2>2, <2>3 DEF Rings
  <1> QED BY <1>1, <1>2

=============================================================================
