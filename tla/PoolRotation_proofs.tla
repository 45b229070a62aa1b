------------------------ MODULE PoolRotation_proofs ------------------------
(***************************************************************************)
(* What holds of a round-robin ring for every set of accounts and every    *)
(* sticky limit.                                                           *)
(*                                                                         *)
(* RunsEnd: TypeOK alone is not inductive.  The length of the run is       *)
(* bounded because it is the ring's own count (RunInStep), and the count   *)
(* is below the limit (TypeOK); the three are proved together.             *)
(*                                                                         *)
(* EvenShare: the credits show who has had a turn in the round (Round).    *)
(*                                                                         *)
(* NobodyStarves: the credits of EVERY set of accounts stay within a bound *)
(* that depends on its size (Level), and who waits collects credits.  A    *)
(* bound for single accounts is not inductive: one may only rise far       *)
(* because the winners have even more, so that it takes the bounds of the  *)
(* sets with and without the winner to see that there is room              *)
(* (RisesBelow, FallsAbove).  A winner may also have as many credits as    *)
(* another and come first in the configuration; the credits are tilted by  *)
(* that order (Tilted), so that it has more.                               *)
(***************************************************************************)
EXTENDS PoolRotation, RotationRing_proofs

-----------------------------------------------------------------------------
(* The ring in use.                                                        *)

RingType == Rings(Accounts, StickyLimit)

Names == Accounts \cup {NoAccount}

\* The assumptions of the module are what the lemmas about a ring suppose.
LEMMA RingOfThePool ==
    RingFor(Accounts, StickyLimit) /\ \A a \in Accounts : Rank[a] \in Int
  BY RotationAssumption DEF RingFor

\* The types a step needs to know, and the two facts about the run.
IInv ==
    /\ ring \in RingType
    /\ configured \subseteq Accounts
    /\ removals \in Nat
    /\ run \in [account : Names, length : Nat]
    /\ RunInStep
    /\ RunsEnd

-----------------------------------------------------------------------------
(* The invariant.                                                          *)

LEMMA InitInv == Init => IInv
  <1> SUFFICES ASSUME Init PROVE IInv
    OBVIOUS
  <1>1. 0 \in 0..(StickyLimit - 1) /\ 0 <= StickyLimit
    BY RotationAssumption
  <1>2. NoWeights \in Weights(Accounts)
    BY DEF NoWeights, Weights
  <1>3. ring \in RingType /\ ring.active = NoAccount
    BY <1>1, <1>2 DEF Init, NoRing, RingType, Rings, Weights
  <1> QED BY <1>1, <1>3 DEF Init, IInv, RunInStep, RunsEnd, Names

LEMMA StepInv == IInv /\ [Next]_vars => IInv'
  <1> SUFFICES ASSUME IInv, [Next]_vars PROVE IInv'
    OBVIOUS
  <1> USE RingOfThePool DEF IInv, RingType
  <1>1. ASSUME NEW ids \in SUBSET Accounts, Assign(ids) PROVE IInv'
    <2> DEFINE a == Picked(ring, ids, Rank)
               after == AfterPick(ring, ids, StickyLimit, Rank)
    <2>1. ids # {} /\ ring' = NoteSuccess(after, a, StickyLimit)
          /\ UNCHANGED <<configured, removals>>
      BY <1>1 DEF Assign
    <2>2. run' = IF run.account = a /\ Holds(ring, ids)
                 THEN [run EXCEPT !.length = @ + 1] ELSE [account |-> a, length |-> 1]
      BY <1>1 DEF Assign
    <2>3. a \in Accounts
      BY <2>1, PickedIsEligible
    <2>4. /\ after \in RingType /\ after.made
          /\ Holds(ring, ids) => /\ a = ring.active /\ after.active = ring.active
                                 /\ after.successes = ring.successes
          /\ ~Holds(ring, ids) => after.active \in {a, NoAccount} /\ after.successes = 0
      BY <2>1, AfterPickType
    <2> HIDE DEF a, after
    <2>5. /\ ring' \in RingType
          /\ \/ ring'.active = NoAccount
             \/ /\ ring'.active = a
                /\ ring'.successes = IF after.active = a THEN after.successes + 1 ELSE 1
      BY <2>1, <2>3, <2>4, NoteSuccessType
    <2>6. run' \in [account : Names, length : Nat] /\ run'.account = a
      BY <2>2, <2>3 DEF Names
    <2>7. a # NoAccount
      BY <2>3, RotationAssumption
    <2>8. ring.successes \in 0..(StickyLimit - 1) /\ StickyLimit \in Nat /\ 1 <= StickyLimit
      BY RotationAssumption DEF Rings
    <2>9. run'.length = IF run.account = a /\ Holds(ring, ids) THEN run.length + 1 ELSE 1
      BY <2>2
    <2>10. Holds(ring, ids) =>
             ring.successes = IF run.account = a THEN run.length ELSE 0
      BY <2>4, <2>7 DEF RunInStep
    <2>11. RunInStep'
      BY <2>4, <2>5, <2>6, <2>9, <2>10 DEF RunInStep
    <2>12. RunsEnd'
      BY <2>8, <2>9, <2>10 DEF RunsEnd
    <2> QED BY <2>1, <2>5, <2>6, <2>11, <2>12
  <1>2. ASSUME NEW ids \in SUBSET Accounts, Alternate(ids) PROVE IInv'
    <2>1. ids # {} /\ ring' = AfterPick(ring, ids, StickyLimit, Rank)
          /\ UNCHANGED <<configured, removals>>
      BY <1>2 DEF Alternate
    <2>2. run' = IF Holds(ring, ids) THEN run ELSE [account |-> NoAccount, length |-> 0]
      BY <1>2 DEF Alternate
    <2>3. ring' \in RingType
      BY <2>1, AfterPickType
    <2>4. CASE Holds(ring, ids)
      BY <2>1, <2>2, <2>3, <2>4, AfterPickType DEF RunInStep, RunsEnd
    <2>5. CASE ~Holds(ring, ids)
      <3>1. ring'.successes = 0
        BY <2>1, <2>5, AfterPickType
      <3>2. run' = [account |-> NoAccount, length |-> 0]
        BY <2>2, <2>5
      <3> QED BY <2>1, <2>3, <3>1, <3>2, RotationAssumption DEF RunInStep, RunsEnd, Names
    <2> QED BY <2>4, <2>5
  <1>3. ASSUME NEW a \in Accounts, Fail(a) PROVE IInv'
    <2>1. ring' = NoteFailure(ring, a) /\ UNCHANGED <<configured, removals, run>>
      BY <1>3 DEF Fail
    <2>3. /\ ring' \in RingType
          /\ ring'.active # NoAccount =>
               ring'.active = ring.active /\ ring'.successes = ring.successes
      BY <2>1, NoteFailureType
    <2> QED BY <2>1, <2>3 DEF RunInStep, RunsEnd
  <1>4. ASSUME NEW a \in Accounts, Select(a) PROVE IInv'
    <2>1. ring' = Seeded(a) /\ run' = [account |-> NoAccount, length |-> 0]
          /\ UNCHANGED <<configured, removals>>
      BY <1>4 DEF Select
    <2>2. 0 <= StickyLimit
      BY RotationAssumption
    <2>3. ring' \in RingType /\ ring'.active = a /\ ring'.successes = 0
      BY <2>1, FreshType DEF Seeded
    <2> QED BY <2>1, <2>2, <2>3, RotationAssumption DEF RunInStep, RunsEnd, Names
  <1>5. ASSUME NEW a \in Accounts, Remove(a) \/ Add(a) PROVE IInv'
    <2>1. ring' = ReconcileRing(ring, configured') /\ UNCHANGED run
          /\ configured' \in SUBSET Accounts /\ removals' \in Nat
      BY <1>5 DEF Remove, Add
    <2>2. /\ ring' \in RingType
          /\ ring'.active # NoAccount =>
               ring'.active = ring.active /\ ring'.successes = ring.successes
      BY <2>1, ReconcileType
    <2> QED BY <2>1, <2>2 DEF RunInStep, RunsEnd
  <1>6. CASE UNCHANGED vars
    BY <1>6 DEF vars, RunInStep, RunsEnd
  <1> QED BY <1>1, <1>2, <1>3, <1>4, <1>5, <1>6 DEF Next

LEMMA InvHolds == Spec => []IInv
  BY InitInv, StepInv, PTL DEF Spec

-----------------------------------------------------------------------------
(* The theorems.                                                           *)

\* Every reachable ring is well typed: its active account is one of the pool,
\* its count is below the limit and it has credits for accounts only, for any
\* finite set of accounts and every sticky limit from 1 to 100.
THEOREM RingTypeCorrect == Spec => []TypeOK
  <1>1. IInv => TypeOK
    BY DEF IInv, TypeOK, RingType, Rings, Weights
  <1> QED BY <1>1, InvHolds, PTL

\* The count of the ring is the run of the account it holds: no retry, failure,
\* selection, removal or re-addition makes the two part.
THEOREM CountIsTheRun == Spec => []RunInStep
  BY InvHolds, PTL DEF IInv

\* accountPoolStickyLimit is kept under every interleaving of new sessions with
\* retries, failures, selections, removals and additions: nobody is given more
\* sessions in a row on one selection of the ring.
THEOREM StickyRunsEnd == Spec => []RunsEnd
  BY InvHolds, PTL DEF IInv

-----------------------------------------------------------------------------
(* Even shares.                                                            *)

\* The credits of a round among ids in which P have had their turn:
\* smoothWeightedIndex gives everybody one credit at every draw and takes one
\* for everybody from the winner.
Credits(r, ids, P) ==
    \A a \in ids : Weight(r, a) = IF a \in P THEN Cardinality(P) - Cardinality(ids) ELSE Cardinality(P)

\* What each of ids has got, less what all have, when x has had c sessions of
\* its run.
Gets(ids, P, x, c, a) ==
    IF P = ids THEN (IF a = x THEN 0 ELSE StickyLimit - c)
    ELSE IF a = x THEN c ELSE IF a \in P THEN StickyLimit ELSE 0

\* Between two draws of a round: the ring waits for a draw, or x is in its
\* run.
Round(r, s, P) ==
    LET ids == s.among
    IN  /\ P \in SUBSET ids /\ Credits(r, ids, P)
        /\ IF r.active = NoAccount
           THEN P # ids /\ \A a \in ids : s.of[a] = IF a \in P THEN StickyLimit ELSE 0
           ELSE /\ r.active \in P /\ r.successes \in 1..(StickyLimit - 1)
                /\ \A a \in ids : s.of[a] = Gets(ids, P, r.active, r.successes, a)

\* New sessions have not drawn yet, something else has touched the ring, or
\* they are in a round among the same accounts.
EvenInv ==
    /\ share = [among |-> share.among, of |-> share.of] /\ share.of \in [Accounts -> Nat]
    /\ \/ share.among = {} /\ ring = NoRing /\ \A a \in Accounts : share.of[a] = 0
       \/ share.among = {NoAccount}
       \/ share.among \in SUBSET Accounts /\ share.among # {} /\ \E P : Round(ring, share, P)

\* A draw in a round goes to one that has not had its turn, and is charged.
LEMMA DrawAdvances ==
    ASSUME NEW r \in RingType, NEW ids \in SUBSET Accounts, NEW P \in SUBSET ids, P # ids,
           Credits(r, ids, P), r.active = NoAccount
    PROVE  LET w == Picked(r, ids, Rank)
               t == AfterPick(r, ids, StickyLimit, Rank)
           IN  /\ w \in ids \ P
               /\ t \in RingType /\ t.made /\ t.successes = 0 /\ t.active \in {w, NoAccount}
               /\ Credits(t, ids, P \cup {w})
<1> DEFINE w == Picked(r, ids, Rank)
           t == AfterPick(r, ids, StickyLimit, Rank)
           n == Cardinality(ids)
           k == Cardinality(P)
           sc == Scores(r, ids)
<1>1. IsFiniteSet(ids) /\ IsFiniteSet(P) /\ n \in Nat /\ k \in Nat /\ n > 0
  <2>1. IsFiniteSet(ids) /\ IsFiniteSet(P)
    BY RotationAssumption, FS_Subset
  <2> QED BY <2>1, FS_CardinalityType, FS_EmptySet
<1>2. \A a \in ids : sc[a] = IF a \in P THEN k - n + 1 ELSE k + 1
  BY DEF Scores, Credits
<1>3. \A a \in ids : sc[a] \in Int /\ Rank[a] \in Int
  BY <1>1, <1>2, RotationAssumption
<1>4. ~Holds(r, ids) /\ ids # {} /\ w = Foremost(ids, sc, Rank)
  BY DEF Holds, Picked
<1> HIDE DEF w, t, n, k, sc
<1>5. w \in ids /\ \A b \in ids : sc[w] > sc[b] \/ sc[w] = sc[b]
  BY <1>1, <1>3, <1>4, ForemostIsBest
<1>6. w \notin P
  <2>1. PICK b \in ids : b \notin P
    OBVIOUS
  <2> QED BY <1>1, <1>2, <1>5, <2>1
<1>7. t \in RingType /\ t.made /\ t.successes = 0 /\ t.active \in {w, NoAccount}
  BY <1>4, RingOfThePool, AfterPickType DEF RingType, t, w
<1>8. t.weights = Charged(r, ids, w)
  BY <1>4 DEF AfterPick, t, w
<1>9. Cardinality(P \cup {w}) = k + 1
  BY <1>1, <1>6, FS_AddElement DEF k
<1>10. ASSUME NEW a \in ids
       PROVE  Weight(t, a) = IF a = w THEN sc[a] - n ELSE sc[a]
  <2>1. a \in DOMAIN t.weights /\ t.weights[a] = IF a = w THEN sc[a] - n ELSE sc[a]
    BY <1>8 DEF Charged, sc, n
  <2> QED BY <2>1 DEF Weight
<1>11. \A a \in ids : Weight(t, a) = IF a \in P \cup {w} THEN (k + 1) - n ELSE k + 1
  BY <1>1, <1>2, <1>6, <1>10
<1>12. Credits(t, ids, P \cup {w})
  BY <1>9, <1>11 DEF Credits, n
<1> QED BY <1>5, <1>6, <1>7, <1>12 DEF w, t

\* What all of ids have got when x has one session more.
LeftOver(of, x, ids) ==
    LET got == [of EXCEPT ![x] = @ + 1]
        least == IF \A b \in ids : got[b] >= 1 THEN 1 ELSE 0
    IN  [b \in Accounts |-> IF b \in ids THEN got[b] - least ELSE 0]

\* A session for x is one more of its run; what all have got is taken off.
LEMMA SharedOut ==
    ASSUME NEW ids \in SUBSET Accounts, NEW P \in SUBSET ids, NEW x \in P, NEW c \in 1..StickyLimit,
           NEW old \in [Accounts -> Nat], \A a \in ids : old[a] = Gets(ids, P, x, c - 1, a)
    PROVE  LET of == LeftOver(old, x, ids)
           IN  of \in [Accounts -> Nat] /\ \A a \in ids : of[a] = Gets(ids, P, x, c, a)
<1> DEFINE got == [old EXCEPT ![x] = @ + 1]
           least == IF \A b \in ids : got[b] >= 1 THEN 1 ELSE 0
           of == [b \in Accounts |-> IF b \in ids THEN got[b] - least ELSE 0]
<1>0. StickyLimit \in Nat /\ c \in Nat /\ c <= StickyLimit /\ c - 1 \in Nat
  BY RotationAssumption
<1>1. \A a \in ids : got[a] = IF a = x THEN old[a] + 1 ELSE old[a]
  OBVIOUS
<1> HIDE DEF got
<1>2. \A a \in Accounts : of[a] = IF a \in ids THEN got[a] - least ELSE 0
  OBVIOUS
<1>3. ASSUME P = ids
      PROVE  (\A a \in ids : of[a] = Gets(ids, P, x, c, a)) /\ \A a \in Accounts : of[a] \in Nat
  <2>1. \A a \in ids : got[a] = IF a = x THEN 1 ELSE StickyLimit - c + 1
    BY <1>0, <1>1, <1>3 DEF Gets
  <2>2. least = 1
    BY <1>0, <2>1
  <2> HIDE DEF least
  <2>3. \A a \in ids : of[a] = Gets(ids, P, x, c, a)
    BY <1>0, <1>2, <1>3, <2>1, <2>2 DEF Gets
  <2>4. \A a \in Accounts : of[a] \in Nat
    BY <1>0, <1>2, <2>1, <2>2
  <2> QED BY <2>3, <2>4
<1>4. ASSUME P # ids
      PROVE  (\A a \in ids : of[a] = Gets(ids, P, x, c, a)) /\ \A a \in Accounts : of[a] \in Nat
  <2>1. \A a \in ids : got[a] = IF a = x THEN c ELSE IF a \in P THEN StickyLimit ELSE 0
    BY <1>0, <1>1, <1>4 DEF Gets
  <2>2. least = 0
    <3>1. PICK b \in ids : b \notin P
      BY <1>4
    <3>2. got[b] = 0
      BY <2>1, <3>1
    <3> QED BY <3>2
  <2> HIDE DEF least
  <2>3. \A a \in ids : of[a] = Gets(ids, P, x, c, a)
    BY <1>0, <1>2, <1>4, <2>1, <2>2 DEF Gets
  <2>4. \A a \in Accounts : of[a] \in Nat
    BY <1>0, <1>2, <2>1, <2>2
  <2> QED BY <2>3, <2>4
<1>5. of \in [Accounts -> Nat] /\ \A a \in ids : of[a] = Gets(ids, P, x, c, a)
  <2>1. (\A a \in ids : of[a] = Gets(ids, P, x, c, a)) /\ \A a \in Accounts : of[a] \in Nat
    <3> HIDE DEF of
    <3> QED BY <1>3, <1>4
  <2>2. of \in [Accounts -> Nat]
    <3> HIDE DEF least
    <3> QED BY <2>1
  <2> QED BY <2>1, <2>2
<1> QED BY <1>5, Zenon DEF got, LeftOver

\* A fresh ring has given nobody anything.
LEMMA InitEven == Init => EvenInv
BY DEF Init, EvenInv

\* Whatever else touches the ring ends the count of the shares.
LEMMA UnevenIs ==
    ASSUME share' = Uneven
    PROVE  EvenInv'
BY DEF Uneven, EvenInv

\* After the c-th session of x the run goes on, the next draw of the round
\* follows, or the next round begins.
LEMMA RoundGoesOn ==
    ASSUME NEW t \in RingType, t.made, NEW s, s.among \in SUBSET Accounts, s.among # {},
           NEW P \in SUBSET s.among, NEW x \in P, NEW c \in 1..StickyLimit,
           Credits(t, s.among, P),
           (t.active = x /\ t.successes = c - 1) \/ (t.active \in {x, NoAccount} /\ t.successes = 0 /\ c = 1),
           \A a \in s.among : s.of[a] = Gets(s.among, P, x, c, a)
    PROVE  \E Q : Round(NoteSuccess(t, x, StickyLimit), s, Q)
<1> DEFINE u == NoteSuccess(t, x, StickyLimit)
           ids == s.among
<1>0. StickyLimit \in Nat /\ c \in Nat /\ 1 <= c /\ c <= StickyLimit /\ x # NoAccount
      /\ StickyLimit >= 1
  BY RotationAssumption
<1>1. (IF t.active = x THEN t.successes + 1 ELSE 1) = c
  BY <1>0
<1>2. u = IF c >= StickyLimit THEN [t EXCEPT !.active = NoAccount, !.successes = 0]
          ELSE [t EXCEPT !.active = x, !.successes = c]
  BY <1>1 DEF NoteSuccess
<1>3. t = [made |-> t.made, active |-> t.active, successes |-> t.successes, weights |-> t.weights]
  BY DEF RingType, Rings
<1> HIDE DEF u
<1>4. u.weights = t.weights
  BY <1>2, <1>3
<1>5. \A Q : Credits(t, ids, Q) => Credits(u, ids, Q)
  BY <1>4, Zenon DEF Credits, Weight
<1>6. CASE c < StickyLimit
  <2>1. u.active = x /\ u.successes = c
    BY <1>0, <1>2, <1>3, <1>6
  <2>2. Round(u, s, P)
    BY <1>0, <1>5, <1>6, <2>1 DEF Round
  <2> QED BY <2>2 DEF u
<1>7. CASE c = StickyLimit /\ P # ids
  <2>1. u.active = NoAccount
    BY <1>0, <1>2, <1>3, <1>7
  <2>2. \A a \in ids : s.of[a] = IF a \in P THEN StickyLimit ELSE 0
    BY <1>7 DEF Gets
  <2>3. Round(u, s, P)
    BY <1>5, <1>7, <2>1, <2>2 DEF Round
  <2> QED BY <2>3 DEF u
<1>8. CASE c = StickyLimit /\ P = ids
  <2>1. u.active = NoAccount
    BY <1>0, <1>2, <1>3, <1>8
  <2>2. \A a \in ids : s.of[a] = 0
    BY <1>0, <1>8 DEF Gets
  <2>3. Cardinality({}) = 0 /\ Cardinality(ids) \in Nat
    BY RotationAssumption, FS_EmptySet, FS_Subset, FS_CardinalityType
  <2>4. Credits(t, ids, {})
    BY <1>8, <2>3 DEF Credits
  <2>5. Round(u, s, {})
    BY <1>5, <2>1, <2>2, <2>4 DEF Round
  <2> QED BY <2>5 DEF u
<1> QED BY <1>0, <1>6, <1>7, <1>8

\* Account w has been drawn among ids, for its c-th session.
Drawn(t, of, w, ids, P, c) ==
    /\ w \in P /\ t \in RingType /\ t.made /\ Credits(t, ids, P)
    /\ (t.active = w /\ t.successes = c - 1) \/ (t.active \in {w, NoAccount} /\ t.successes = 0 /\ c = 1)
    /\ \A a \in ids : of[a] = Gets(ids, P, w, c - 1, a)

\* A new session is the next of a run, or the first of the next run of a
\* round.
LEMMA AssignEven ==
    ASSUME IInv, EvenInv, NEW ids \in SUBSET Accounts, Assign(ids)
    PROVE  EvenInv'
<1> DEFINE w == Picked(ring, ids, Rank)
           t == AfterPick(ring, ids, StickyLimit, Rank)
<1>1. ids # {} /\ ring' = NoteSuccess(t, w, StickyLimit)
      /\ IF Even(ids) THEN Shared(w, ids) ELSE share' = Uneven
  BY DEF Assign
<1>2. CASE ~Even(ids)
  BY <1>1, <1>2, UnevenIs
<1>3. CASE Even(ids)
  <2>0. ring \in RingType /\ StickyLimit \in Nat /\ StickyLimit >= 1 /\ NoAccount \notin ids
    BY RotationAssumption DEF IInv
  <2>1. \E P \in SUBSET ids, c \in 1..StickyLimit : Drawn(t, share.of, w, ids, P, c)
    <3>1. ASSUME NEW P \in SUBSET ids, P # ids, Credits(ring, ids, P), ring.active = NoAccount,
                 \A a \in ids : share.of[a] = IF a \in P THEN StickyLimit ELSE 0
          PROVE  Drawn(t, share.of, w, ids, P \cup {w}, 1)
      <4>1. /\ w \in ids \ P /\ t \in RingType /\ t.made /\ t.successes = 0 /\ t.active \in {w, NoAccount}
            /\ Credits(t, ids, P \cup {w})
        BY <2>0, <3>1, DrawAdvances
      <4> HIDE DEF w, t
      <4>2. \A a \in ids : share.of[a] = Gets(ids, P \cup {w}, w, 0, a)
        BY <2>0, <3>1, <4>1 DEF Gets
      <4>3. 1 - 1 = 0
        OBVIOUS
      <4> QED BY <4>1, <4>2, <4>3 DEF Drawn
    <3>2. CASE share.among = {} /\ ring = NoRing /\ \A a \in Accounts : share.of[a] = 0
      <4>1. ring.active = NoAccount /\ \A a \in ids : Weight(ring, a) = 0
        BY <3>2 DEF NoRing, Weight, NoWeights
      <4>2. Credits(ring, ids, {})
        BY <4>1, FS_EmptySet DEF Credits
      <4>3. Drawn(t, share.of, w, ids, {} \cup {w}, 1)
        <5> HIDE DEF t, w
        <5> QED BY <1>1, <3>1, <3>2, <4>1, <4>2
      <4>4. {} \cup {w} \in SUBSET ids /\ 1 \in 1..StickyLimit
        <5>1. w \in ids \ {}
          BY <1>1, <2>0, <4>1, <4>2, DrawAdvances
        <5> HIDE DEF w
        <5> QED BY <2>0, <5>1
      <4> HIDE DEF t, w
      <4> QED BY <4>3, <4>4
    <3>3. CASE share.among \in SUBSET Accounts /\ share.among # {} /\ \E P : Round(ring, share, P)
      <4>1. share.among = ids
        BY <1>3, <3>3 DEF Even
      <4>2. PICK P : Round(ring, share, P)
        BY <3>3
      <4>3. P \in SUBSET ids /\ Credits(ring, ids, P)
        BY <4>1, <4>2 DEF Round
      <4>4. CASE ring.active = NoAccount
        <5>1. P # ids /\ \A a \in ids : share.of[a] = IF a \in P THEN StickyLimit ELSE 0
          BY <4>1, <4>2, <4>4 DEF Round
        <5>2. Drawn(t, share.of, w, ids, P \cup {w}, 1)
          <6> HIDE DEF t, w
          <6> QED BY <3>1, <4>3, <4>4, <5>1
        <5>3. P \cup {w} \in SUBSET ids /\ 1 \in 1..StickyLimit
          <6>1. w \in ids \ P
            BY <2>0, <4>3, <4>4, <5>1, DrawAdvances
          <6> HIDE DEF w
          <6> QED BY <2>0, <4>3, <6>1
        <5> HIDE DEF t, w
        <5> QED BY <5>2, <5>3
      <4>5. CASE ring.active # NoAccount
        <5> DEFINE c == ring.successes + 1
        <5>1. /\ ring.active \in P /\ ring.successes \in 1..(StickyLimit - 1)
              /\ \A a \in ids : share.of[a] = Gets(ids, P, ring.active, ring.successes, a)
          BY <4>1, <4>2, <4>5 DEF Round
        <5>2. Holds(ring, ids) /\ w = ring.active /\ t = [ring EXCEPT !.made = TRUE]
          BY <1>1, <4>3, <4>5, <5>1 DEF Holds, Picked, AfterPick
        <5>3. /\ t \in RingType /\ t.made /\ t.active = w /\ t.successes = ring.successes
              /\ t.weights = ring.weights
          BY <2>0, <5>2 DEF RingType, Rings
        <5> HIDE DEF w, t
        <5>4. Credits(t, ids, P)
          BY <4>3, <5>3, Zenon DEF Credits, Weight
        <5>5. c \in 1..StickyLimit /\ c - 1 = ring.successes
          BY <2>0, <5>1
        <5> HIDE DEF c
        <5>6. Drawn(t, share.of, w, ids, P, c)
          BY <5>1, <5>2, <5>3, <5>4, <5>5 DEF Drawn
        <5> QED BY <4>3, <5>5, <5>6
      <4> QED BY <4>4, <4>5
    <3>4. share.among # {NoAccount}
      BY <1>1, <1>3, <2>0 DEF Even
    <3> HIDE DEF w, t
    <3> QED BY <3>2, <3>3, <3>4 DEF EvenInv
  <2>2. Shared(w, ids)
    BY <1>1, <1>3
  <2> HIDE DEF w, t
  <2>3. PICK P \in SUBSET ids, c \in 1..StickyLimit : Drawn(t, share.of, w, ids, P, c)
    BY <2>1
  <2>4. share.of \in [Accounts -> Nat]
    BY DEF EvenInv
  <2>5. /\ share' = [among |-> share'.among, of |-> share'.of] /\ share'.among = ids
        /\ share'.of \in [Accounts -> Nat]
        /\ \A a \in ids : share'.of[a] = Gets(ids, P, w, c, a)
    <3> DEFINE of == LeftOver(share.of, w, ids)
    <3>1. of \in [Accounts -> Nat] /\ \A a \in ids : of[a] = Gets(ids, P, w, c, a)
      <4>1. w \in P /\ \A a \in ids : share.of[a] = Gets(ids, P, w, c - 1, a)
        BY <2>3 DEF Drawn
      <4> QED BY <2>4, <4>1, SharedOut
    <3>2. share' = [among |-> ids, of |-> of]
      BY <2>2, Zenon DEF Shared, LeftOver
    <3> HIDE DEF of
    <3> QED BY <3>1, <3>2
  <2>6. \E Q : Round(ring', share', Q)
    <3> DEFINE s == share'
    <3>1. /\ t \in RingType /\ t.made /\ w \in P /\ Credits(t, ids, P)
          /\ (t.active = w /\ t.successes = c - 1) \/ (t.active \in {w, NoAccount} /\ t.successes = 0 /\ c = 1)
      BY <2>3 DEF Drawn
    <3>2. s.among = ids /\ \A a \in ids : s.of[a] = Gets(ids, P, w, c, a)
      BY <2>5
    <3> HIDE DEF s
    <3>3. \E Q : Round(NoteSuccess(t, w, StickyLimit), s, Q)
      BY <1>1, <3>1, <3>2, RoundGoesOn
    <3> QED BY <1>1, <3>3 DEF s
  <2> QED BY <1>1, <2>5, <2>6 DEF EvenInv
<1> QED BY <1>2, <1>3

\* Every operation on the ring keeps to a round, or ends the count.
LEMMA StepEven ==
    ASSUME IInv, EvenInv, [Next]_vars
    PROVE  EvenInv'
<1>1. ASSUME NEW ids \in SUBSET Accounts, Assign(ids) PROVE EvenInv'
  BY <1>1, AssignEven
<1>2. ASSUME NEW ids \in SUBSET Accounts, Alternate(ids) PROVE EvenInv'
  BY <1>2, UnevenIs DEF Alternate
<1>3. ASSUME NEW a \in Accounts, Fail(a) \/ Select(a) \/ Remove(a) \/ Add(a) PROVE EvenInv'
  BY <1>3, UnevenIs DEF Fail, Select, Remove, Add
<1>4. CASE UNCHANGED vars
  BY <1>4 DEF vars, EvenInv, Round
<1> QED BY <1>1, <1>2, <1>3, <1>4 DEF Next

\* In a round nobody has got more than one run that another has not.
LEMMA EvenIsFair == IInv /\ EvenInv => EvenShare
<1> SUFFICES ASSUME IInv, EvenInv, NEW a \in share.among \cap Accounts, NEW b \in share.among \cap Accounts
             PROVE  share.of[a] - share.of[b] <= StickyLimit
  BY DEF EvenShare
<1>0. StickyLimit \in Nat /\ NoAccount \notin Accounts
  BY RotationAssumption
<1>1. PICK P : Round(ring, share, P)
  BY <1>0 DEF EvenInv
<1>2. \A c \in share.among : share.of[c] \in 0..StickyLimit
  BY <1>0, <1>1 DEF Round, Gets
<1> QED BY <1>0, <1>2

\* While new sessions draw from a fresh ring among the same accounts, no
\* account gets ahead of another by more than one sticky run, for every number
\* of accounts, every order of them and every sticky limit.
THEOREM SharesAreEven == Spec => []EvenShare
<1>1. Init => IInv /\ EvenInv
  BY InitInv, InitEven
<1>2. IInv /\ EvenInv /\ [Next]_vars => IInv' /\ EvenInv'
  BY StepInv, StepEven
<1> QED BY <1>1, <1>2, EvenIsFair, PTL DEF Spec

-----------------------------------------------------------------------------
(* Nobody starves.                                                         *)

\* Induction on the subsets of a finite set, one member at a time.
LEMMA SubsetsGrow ==
    ASSUME NEW S, IsFiniteSet(S), NEW G, {} \in G,
           \A s \in SUBSET S, a \in S : s \in G /\ a \notin s => s \cup {a} \in G
    PROVE  SUBSET S \subseteq G
<1> DEFINE T == (SUBSET S) \ G
           R == StrictSubsetOrdering(S)
<1> SUFFICES ASSUME T # {} PROVE FALSE
  OBVIOUS
<1>1. IsWellFoundedOn(R, SUBSET S)
  BY FS_StrictSubsetOrderingWellFounded, FS_FiniteSubsetsOfFinite
<1>2. PICK x \in T : \A y \in T : ~(<<y, x>> \in R)
  <2>1. T \subseteq SUBSET S
    OBVIOUS
  <2> HIDE DEF T, R
  <2> QED BY <1>1, <2>1, WFMin
<1>3. PICK a \in x : TRUE
  OBVIOUS
<1> DEFINE y == x \ {a}
<1>4. y \in SUBSET S /\ y \subseteq x /\ y # x /\ y \cup {a} = x /\ a \notin y /\ a \in S
  BY <1>3
<1>5. <<y, x>> \in R
  BY <1>4 DEF StrictSubsetOrdering
<1>6. y \in G
  BY <1>2, <1>4, <1>5
<1> QED BY <1>4, <1>6

\* f is what the members of every set of accounts have together.
Adds(u, f) ==
    /\ f \in [SUBSET Accounts -> Int]
    /\ f[{}] = 0
    /\ \A S \in SUBSET Accounts, a \in Accounts : a \notin S => f[S \cup {a}] = f[S] + u[a]

\* The ranks of every set of accounts have a sum.
LEMMA RanksAdd ==
    \E g : Adds(Rank, g) /\ \A S \in SUBSET Accounts : 0 <= g[S] /\ g[S] <= g[Accounts]
<1> DEFINE Sums(T, g) == /\ g \in [SUBSET T -> Int] /\ g[{}] = 0
                         /\ \A S \in SUBSET T, a \in T : a \notin S => g[S \cup {a}] = g[S] + Rank[a]
                         /\ \A S \in SUBSET T : 0 <= g[S] /\ g[S] <= g[T]
           G == {T \in SUBSET Accounts : \E g : Sums(T, g)}
<1>1. {} \in G
  <2> DEFINE g == [S \in {{}} |-> 0]
  <2>1. Sums({}, g)
    OBVIOUS
  <2> HIDE DEF Sums, g
  <2> QED BY <2>1
<1>2. ASSUME NEW T \in SUBSET Accounts, NEW x \in Accounts, T \in G, x \notin T PROVE T \cup {x} \in G
  <2>1. PICK g : Sums(T, g)
    BY <1>2
  <2> DEFINE U == T \cup {x}
             h == [S \in SUBSET U |-> IF x \in S THEN g[S \ {x}] + Rank[x] ELSE g[S]]
  <2>2. Rank[x] \in Nat
    BY RotationAssumption
  <2>3. \A S \in SUBSET U : (x \notin S => S \in SUBSET T) /\ S \ {x} \in SUBSET T
    OBVIOUS
  <2>4. \A S \in SUBSET U : h[S] = IF x \in S THEN g[S \ {x}] + Rank[x] ELSE g[S]
    OBVIOUS
  <2>5. h \in [SUBSET U -> Int]
    BY <2>1, <2>2, <2>3
  <2>6. h[{}] = 0
    BY <2>1
  <2>7. h[U] = g[T] + Rank[x]
    <3>1. U \ {x} = T /\ U \in SUBSET U /\ x \in U
      BY <1>2
    <3> QED BY <2>4, <3>1
  <2>8. ASSUME NEW S \in SUBSET U, NEW a \in U, a \notin S PROVE h[S \cup {a}] = h[S] + Rank[a]
    <3>0. S \cup {a} \in SUBSET U
      OBVIOUS
    <3>1. CASE a = x
      <4>1. S \in SUBSET T /\ (S \cup {a}) \ {x} = S /\ x \in S \cup {a} /\ x \notin S
        BY <2>8, <3>1
      <4> QED BY <2>4, <3>0, <3>1, <4>1
    <3>2. CASE a # x /\ x \in S
      <4>1. (S \cup {a}) \ {x} = (S \ {x}) \cup {a} /\ S \ {x} \in SUBSET T /\ a \in T /\ a \notin S \ {x}
            /\ x \in S \cup {a}
        BY <2>8, <3>2
      <4>2. g[(S \ {x}) \cup {a}] = g[S \ {x}] + Rank[a]
        BY <2>1, <4>1
      <4>3. g[S \ {x}] \in Int /\ Rank[a] \in Int
        BY <2>1, <4>1, RotationAssumption
      <4>4. h[S] = g[S \ {x}] + Rank[x]
        BY <2>4, <3>2
      <4>5. h[S \cup {a}] = g[(S \ {x}) \cup {a}] + Rank[x]
        BY <2>4, <3>0, <4>1
      <4> HIDE DEF h
      <4> QED BY <2>2, <4>2, <4>3, <4>4, <4>5
    <3>3. CASE a # x /\ x \notin S
      <4>1. S \in SUBSET T /\ a \in T /\ x \notin S \cup {a}
        BY <2>8, <3>3
      <4>2. g[S \cup {a}] = g[S] + Rank[a]
        BY <2>1, <2>8, <4>1
      <4>3. h[S] = g[S] /\ h[S \cup {a}] = g[S \cup {a}]
        BY <2>4, <3>0, <3>3, <4>1
      <4> HIDE DEF h
      <4> QED BY <4>2, <4>3
    <3> QED BY <3>1, <3>2, <3>3
  <2>9. ASSUME NEW S \in SUBSET U PROVE 0 <= h[S] /\ h[S] <= h[U]
    <3>1. CASE x \in S
      <4>1. g[S \ {x}] \in Int /\ 0 <= g[S \ {x}] /\ g[S \ {x}] <= g[T] /\ g[T] \in Int
        BY <2>1, <2>3
      <4>2. h[S] = g[S \ {x}] + Rank[x]
        BY <2>4, <3>1
      <4> HIDE DEF h
      <4> QED BY <2>2, <2>7, <4>1, <4>2
    <3>2. CASE x \notin S
      <4>1. g[S] \in Int /\ 0 <= g[S] /\ g[S] <= g[T] /\ g[T] \in Int
        BY <2>1, <2>3, <3>2
      <4>2. h[S] = g[S]
        BY <2>4, <3>2
      <4> HIDE DEF h
      <4> QED BY <2>2, <2>7, <4>1, <4>2
    <3> QED BY <3>1, <3>2
  <2>10. Sums(U, h)
    <3> HIDE DEF h, U
    <3> QED BY <2>5, <2>6, <2>8, <2>9
  <2> HIDE DEF Sums, h
  <2> QED BY <2>10
<1>3. SUBSET Accounts \subseteq G
  <2> HIDE DEF G
  <2> QED BY <1>1, <1>2, RotationAssumption, SubsetsGrow
<1>4. PICK g : Sums(Accounts, g)
  BY <1>3
<1> QED BY <1>4 DEF Adds

\* Members that have less than x each have together less than as many times x.
LEMMA FewerCredits ==
    ASSUME NEW u \in [Accounts -> Int], NEW f, Adds(u, f), NEW D \in SUBSET Accounts,
           NEW T \in SUBSET Accounts, T \cap D = {}, NEW x \in Int, \A b \in T : u[b] < x
    PROVE  /\ Cardinality(T) \in Nat
           /\ f[D \cup T] <= f[D] + Cardinality(T) * x
           /\ T # {} => f[D \cup T] < f[D] + Cardinality(T) * x
<1> DEFINE P(S) == /\ f[D \cup S] <= f[D] + Cardinality(S) * x
                   /\ S # {} => f[D \cup S] < f[D] + Cardinality(S) * x
           G == {S \in SUBSET T : P(S)}
<1>0. IsFiniteSet(T) /\ \A S \in SUBSET T : IsFiniteSet(S) /\ Cardinality(S) \in Nat
  BY RotationAssumption, FS_Subset, FS_CardinalityType
<1>1. {} \in G
  <2>1. D \cup {} = D /\ f[D] \in Int /\ Cardinality({}) = 0
    BY FS_EmptySet DEF Adds
  <2> QED BY <2>1
<1>2. ASSUME NEW S \in SUBSET T, NEW a \in T, S \in G, a \notin S PROVE S \cup {a} \in G
  <2> DEFINE c == Cardinality(S)
  <2>1. Cardinality(S \cup {a}) = c + 1 /\ c \in Nat
    BY <1>0, <1>2, FS_AddElement
  <2>2. D \cup (S \cup {a}) = (D \cup S) \cup {a} /\ D \cup S \in SUBSET Accounts /\ a \notin D \cup S
    BY <1>2
  <2>3. f[D \cup (S \cup {a})] = f[D \cup S] + u[a]
    BY <2>2 DEF Adds
  <2>4. u[a] \in Int /\ u[a] < x /\ f[D \cup S] \in Int /\ f[D] \in Int
    BY <2>2 DEF Adds
  <2>5. P(S)
    BY <1>2
  <2>6. (c + 1) * x = c * x + x /\ c * x \in Int
    BY <2>1
  <2>7. f[D \cup (S \cup {a})] < f[D] + (c + 1) * x
    <3> HIDE DEF c
    <3> QED BY <2>3, <2>4, <2>5, <2>6 DEF c
  <2>8. P(S \cup {a})
    <3>1. f[D \cup (S \cup {a})] \in Int /\ (c + 1) * x \in Int
      BY <2>2, <2>1 DEF Adds
    <3> HIDE DEF c
    <3> QED BY <2>1, <2>4, <2>7, <3>1
  <2> HIDE DEF P
  <2> QED BY <2>8
<1>3. SUBSET T \subseteq G
  <2> HIDE DEF G
  <2> QED BY <1>0, <1>1, <1>2, SubsetsGrow
<1>4. P(T)
  BY <1>3
<1> QED BY <1>0, <1>4

\* The number of accounts.
Size == Cardinality(Accounts)

\* What j accounts may have together, after removals that are worth s each.
Bound(K, s, j) == K * (j * (Size - j)) + s * j

\* Every set of accounts has credits within the bound of its size, on either
\* side.
Within(K, s, f) ==
    \A S \in SUBSET Accounts :
        LET top == Bound(K, s, Cardinality(S))
        IN  /\ 0 - top <= f[S] /\ f[S] <= top
            /\ S # {} /\ S # Accounts => 0 - top < f[S] /\ f[S] < top

\* The credits u of all sets of accounts are within their bounds.
Level(K, u, s) == \E f : Adds(u, f) /\ Within(K, s, f)

\* Sets of accounts are finite and have from none to all of them.
LEMMA Members ==
    /\ IsFiniteSet(Accounts) /\ Size \in Nat
    /\ \A S \in SUBSET Accounts : /\ IsFiniteSet(S) /\ Cardinality(S) \in 0..Size
                                  /\ Cardinality(S) = 0 <=> S = {}
                                  /\ Cardinality(S) = Size <=> S = Accounts
<1>1. IsFiniteSet(Accounts) /\ Size \in Nat
  BY RotationAssumption, FS_CardinalityType DEF Size
<1>2. ASSUME NEW S \in SUBSET Accounts
      PROVE  /\ IsFiniteSet(S) /\ Cardinality(S) \in 0..Size
             /\ Cardinality(S) = 0 <=> S = {}
             /\ Cardinality(S) = Size <=> S = Accounts
  <2>1. IsFiniteSet(S) /\ Cardinality(S) \in Nat
    BY <1>1, FS_Subset, FS_CardinalityType
  <2>2. Cardinality(S) <= Size /\ (Cardinality(S) = Size <=> S = Accounts)
    BY <1>1, FS_Subset DEF Size
  <2>3. Cardinality(S) = 0 <=> S = {}
    BY <2>1, FS_EmptySet
  <2> QED BY <2>1, <2>2, <2>3, <1>1
<1> QED BY <1>1, <1>2

\* The bound is an integer.
LEMMA BoundType ==
    ASSUME NEW K \in Int, NEW s \in Int, NEW j \in Int PROVE Bound(K, s, j) \in Int
BY Members DEF Bound

\* A common factor is cancelled.
LEMMA Cancel ==
    ASSUME NEW t \in Nat, NEW x \in Int, NEW y \in Int, (t + 1) * x < (t + 1) * y
    PROVE  x < y
<1>1. CASE x >= y
  <2>1. t * (x - y) >= 0
    BY <1>1
  <2>2. (t + 1) * x = t * x + x /\ (t + 1) * y = t * y + y /\ t * (x - y) = t * x - t * y
    OBVIOUS
  <2>3. t * x \in Int /\ t * y \in Int
    OBVIOUS
  <2> QED BY <1>1, <2>1, <2>2, <2>3
<1> QED BY <1>1

\* The bounds of the smaller set and of the larger one, weighed against that
\* of the set between them: a set that may rise leaves room for it.
LEMMA Upwards ==
    ASSUME NEW K \in Int, NEW s \in Int, NEW j \in Int, NEW t \in Int
    PROVE  Bound(K, s, j - t) + t * Bound(K, s, j + 1) = (t + 1) * (Bound(K, s, j) - K * t)
<1>1. Size \in Int
  BY Members
<1> DEFINE m == Size
<1> HIDE DEF m
<1>2. (K * ((j - t) * (m - (j - t))) + s * (j - t)) + t * (K * ((j + 1) * (m - (j + 1))) + s * (j + 1))
      = (t + 1) * ((K * (j * (m - j)) + s * j) - K * t)
  BY <1>1 DEF m
<1> QED BY <1>2 DEF Bound, m

\* The same for a set that may fall.
LEMMA Downwards ==
    ASSUME NEW K \in Int, NEW s \in Int, NEW j \in Int, NEW t \in Int
    PROVE  Bound(K, s, j + t) + t * Bound(K, s, j - 1) = (t + 1) * (Bound(K, s, j) - K * t)
<1>1. Size \in Int
  BY Members
<1> DEFINE m == Size
<1> HIDE DEF m
<1>2. (K * ((j + t) * (m - (j + t))) + s * (j + t)) + t * (K * ((j - 1) * (m - (j - 1))) + s * (j - 1))
      = (t + 1) * ((K * (j * (m - j)) + s * j) - K * t)
  BY <1>1 DEF m
<1> QED BY <1>2 DEF Bound, m

\* The arithmetic of both: F is between d and E, at the weights t and one.
LEMMA Weighed ==
    ASSUME NEW t \in Nat, NEW F \in Int, NEW d \in Int, NEW x \in Int, NEW D \in Int, NEW E \in Int,
           NEW B \in Int, NEW c \in Int,
           F < d + t * x, d <= D, F + x <= E, D + t * E = (t + 1) * (B - c)
    PROVE  F + c < B
<1>1. t * (F + x) <= t * E
  <2>1. t * (E - (F + x)) >= 0
    OBVIOUS
  <2>2. t * (E - (F + x)) = t * E - t * (F + x)
    OBVIOUS
  <2>3. t * E \in Int /\ t * (F + x) \in Int
    OBVIOUS
  <2> QED BY <2>1, <2>2, <2>3
<1>2. t * (F + x) = t * F + t * x /\ (t + 1) * F = F + t * F
  OBVIOUS
<1>3. t * F \in Int /\ t * x \in Int /\ t * E \in Int
  OBVIOUS
<1>4. (t + 1) * F < (t + 1) * (B - c)
  BY <1>1, <1>2, <1>3
<1>5. F < B - c
  BY <1>4, Cancel
<1> QED BY <1>5

\* A set without the winner w that may serve has room for the credits a draw
\* gives it: w has more than each of them, so were the set at its bound, the
\* set with w would be beyond its own.
LEMMA RisesBelow ==
    ASSUME NEW K \in Nat, NEW s \in Nat, NEW u \in [Accounts -> Int], NEW f, Adds(u, f), Within(K, s, f),
           NEW ids \in SUBSET Accounts, NEW w \in ids, \A b \in ids \ {w} : u[b] < u[w],
           NEW S \in SUBSET Accounts, w \notin S, S \cap ids # {}
    PROVE  f[S] + K * Cardinality(S \cap ids) < Bound(K, s, Cardinality(S))
<1> DEFINE T == S \cap ids
           D == S \ T
           j == Cardinality(S)
           t == Cardinality(T)
           x == u[w]
<1>1. T \in SUBSET Accounts /\ D \in SUBSET Accounts /\ S \cup {w} \in SUBSET Accounts
      /\ T \cap D = {} /\ D \cup T = S /\ T # {} /\ \A b \in T : u[b] < x
  OBVIOUS
<1>2. x \in Int /\ f[S] \in Int /\ f[D] \in Int /\ j \in Nat /\ t \in Nat
  BY <1>1, Members DEF Adds
<1>3. Cardinality(S \cup {w}) = j + 1 /\ Cardinality(D) = j - t
  <2>1. Cardinality(S \cup {w}) = j + 1
    BY Members, FS_AddElement
  <2>2. Cardinality(D) = j - Cardinality(S \cap T)
    BY Members, FS_Difference
  <2>3. S \cap T = T
    OBVIOUS
  <2> QED BY <2>1, <2>2, <2>3
<1> HIDE DEF T, D
<1>4. f[S] < f[D] + t * x
  <2>1. f[D \cup T] < f[D] + t * x
    <3> HIDE DEF x
    <3> QED BY <1>1, <1>2, FewerCredits
  <2> QED BY <1>1, <2>1
<1>5. f[S \cup {w}] = f[S] + x
  BY DEF Adds
<1>6. f[D] <= Bound(K, s, j - t) /\ f[S] + x <= Bound(K, s, j + 1)
  <2>1. f[D] <= Bound(K, s, Cardinality(D)) /\ f[S \cup {w}] <= Bound(K, s, Cardinality(S \cup {w}))
    BY <1>1 DEF Within
  <2> QED BY <1>3, <1>5, <2>1
<1> HIDE DEF j, t, x
<1>7. Bound(K, s, j - t) \in Int /\ Bound(K, s, j + 1) \in Int /\ Bound(K, s, j) \in Int /\ K * t \in Int
  <2>1. j - t \in Int /\ j + 1 \in Int /\ K * t \in Int /\ j \in Int /\ K \in Int /\ s \in Int
    BY <1>2
  <2>2. Bound(K, s, j - t) \in Int
    BY <2>1, BoundType
  <2>3. Bound(K, s, j + 1) \in Int /\ Bound(K, s, j) \in Int
    BY <2>1, BoundType
  <2> QED BY <2>1, <2>2, <2>3
<1>8. f[S] + K * t < Bound(K, s, j)
  <2> DEFINE low == Bound(K, s, j - t)
             high == Bound(K, s, j + 1)
             top == Bound(K, s, j)
             c == K * t
             F == f[S]
             d == f[D]
  <2>1. low + t * high = (t + 1) * (top - c)
    <3>1. K \in Int /\ s \in Int /\ j \in Int /\ t \in Int
      BY <1>2
    <3> QED BY <3>1, Upwards
  <2>2. /\ t \in Nat /\ F \in Int /\ d \in Int /\ x \in Int
        /\ low \in Int /\ high \in Int /\ top \in Int /\ c \in Int
        /\ F < d + t * x /\ d <= low /\ F + x <= high
    BY <1>2, <1>4, <1>6, <1>7
  <2> HIDE DEF low, high, top, c, F, d
  <2>3. F + c < top
    BY <2>1, <2>2, Weighed
  <2> QED BY <2>3 DEF F, c, top
<1> QED BY <1>8 DEF t, j, T

\* A set with the winner has room for what the draw takes from it, because
\* those that did not win and are not in the set have less than w.
LEMMA FallsAbove ==
    ASSUME NEW K \in Nat, NEW s \in Nat, NEW u \in [Accounts -> Int], NEW f, Adds(u, f), Within(K, s, f),
           NEW ids \in SUBSET Accounts, NEW w \in ids, \A b \in ids \ {w} : u[b] < u[w],
           NEW S \in SUBSET Accounts, w \in S, ids \ S # {}
    PROVE  0 - Bound(K, s, Cardinality(S)) < f[S] - K * Cardinality(ids \ S)
<1> DEFINE T == ids \ S
           D == S \ {w}
           j == Cardinality(S)
           t == Cardinality(T)
           x == u[w]
<1>1. T \in SUBSET Accounts /\ D \in SUBSET Accounts /\ S \cup T \in SUBSET Accounts
      /\ T \cap S = {} /\ D \cup {w} = S /\ w \notin D /\ w \in Accounts /\ T # {} /\ \A b \in T : u[b] < x
  OBVIOUS
<1>2. x \in Int /\ f[S] \in Int /\ f[D] \in Int /\ f[S \cup T] \in Int /\ j \in Nat /\ t \in Nat
  BY <1>1, Members DEF Adds
<1>3. Cardinality(S \cup T) = j + t /\ Cardinality(D) = j - 1
  <2>1. Cardinality(D) = j - 1
    BY Members, FS_RemoveElement
  <2>2. Cardinality(S \cup T) = j + t - Cardinality(S \cap T)
    BY <1>1, Members, FS_Union
  <2>3. S \cap T = {} /\ Cardinality({}) = 0
    BY FS_EmptySet
  <2> HIDE DEF T, D, j, t
  <2>4. Cardinality(S \cup T) = j + t - 0
    BY <2>2, <2>3
  <2> QED BY <1>2, <2>1, <2>4
<1> HIDE DEF T, D
<1>4. f[S \cup T] < f[S] + t * x
  <2> HIDE DEF x
  <2> QED BY <1>1, <1>2, FewerCredits
<1>5. f[S] = f[D] + x
  BY <1>1 DEF Adds
<1>6. 0 - f[S \cup T] <= Bound(K, s, j + t) /\ (0 - f[S]) + x <= Bound(K, s, j - 1)
  <2>1. 0 - Bound(K, s, Cardinality(D)) <= f[D] /\ 0 - Bound(K, s, Cardinality(S \cup T)) <= f[S \cup T]
    BY <1>1 DEF Within
  <2>2. j + t \in Int /\ j - 1 \in Int
    BY <1>2
  <2>3. Bound(K, s, j + t) \in Int /\ Bound(K, s, j - 1) \in Int
    BY <2>2, BoundType
  <2> QED BY <1>2, <1>3, <1>5, <2>1, <2>3
<1> HIDE DEF j, t, x
<1>7. Bound(K, s, j + t) \in Int /\ Bound(K, s, j - 1) \in Int /\ Bound(K, s, j) \in Int /\ K * t \in Int
  <2>1. j + t \in Int /\ j - 1 \in Int /\ K * t \in Int /\ j \in Int /\ K \in Int /\ s \in Int
    BY <1>2
  <2>2. Bound(K, s, j + t) \in Int
    BY <2>1, BoundType
  <2>3. Bound(K, s, j - 1) \in Int /\ Bound(K, s, j) \in Int
    BY <2>1, BoundType
  <2> QED BY <2>1, <2>2, <2>3
<1>8. (0 - f[S]) < (0 - f[S \cup T]) + t * x
  <2>1. t * x \in Int
    BY <1>2
  <2> QED BY <1>2, <1>4, <2>1
<1>9. (0 - f[S]) + K * t < Bound(K, s, j)
  <2> DEFINE low == Bound(K, s, j + t)
             high == Bound(K, s, j - 1)
             top == Bound(K, s, j)
             c == K * t
             F == 0 - f[S]
             d == 0 - f[S \cup T]
  <2>1. low + t * high = (t + 1) * (top - c)
    <3>1. K \in Int /\ s \in Int /\ j \in Int /\ t \in Int
      BY <1>2
    <3> QED BY <3>1, Downwards
  <2>2. /\ t \in Nat /\ F \in Int /\ d \in Int /\ x \in Int
        /\ low \in Int /\ high \in Int /\ top \in Int /\ c \in Int
        /\ F < d + t * x /\ d <= low /\ F + x <= high
    BY <1>2, <1>6, <1>7, <1>8
  <2> HIDE DEF low, high, top, c, F, d
  <2>3. F + c < top
    BY <2>1, <2>2, Weighed
  <2> QED BY <2>3 DEF F, c, top
<1>10. 0 - Bound(K, s, j) < f[S] - K * t
  BY <1>2, <1>7, <1>9
<1> QED BY <1>10 DEF t, j, T

\* A draw among ids that w wins, in the tilted credits.
Paid(K, u, ids, w) ==
    [a \in Accounts |->
        IF a = w THEN u[a] + K - K * Cardinality(ids) ELSE IF a \in ids THEN u[a] + K ELSE u[a]]

\* smoothWeightedIndex keeps all sets of accounts within their bounds,
\* whichever of them may serve.
LEMMA DrawLevel ==
    ASSUME NEW K \in Nat, NEW s \in Nat, NEW u \in [Accounts -> Int], Level(K, u, s),
           NEW ids \in SUBSET Accounts, NEW w \in ids, \A b \in ids \ {w} : u[b] < u[w]
    PROVE  Level(K, Paid(K, u, ids, w), s)
<1>1. PICK f : Adds(u, f) /\ Within(K, s, f)
  BY DEF Level
<1> DEFINE m == Cardinality(ids)
           paid == Paid(K, u, ids, w)
           c(S) == Cardinality(S \cap ids)
           h == [S \in SUBSET Accounts |-> f[S] + K * c(S) - (IF w \in S THEN K * m ELSE 0)]
<1>2. m \in Nat /\ K * m \in Int
  BY Members
<1>3. \A S \in SUBSET Accounts : /\ c(S) \in Nat /\ K * c(S) \in Nat /\ f[S] \in Int
                                 /\ Bound(K, s, Cardinality(S)) \in Int
  <2>1. ASSUME NEW S \in SUBSET Accounts
        PROVE  c(S) \in Nat /\ K * c(S) \in Nat /\ f[S] \in Int /\ Bound(K, s, Cardinality(S)) \in Int
    <3>1. c(S) \in Nat /\ Cardinality(S) \in Int
      <4>1. S \cap ids \in SUBSET Accounts
        OBVIOUS
      <4> QED BY <4>1, Members
    <3>2. K * c(S) \in Nat
      BY <3>1
    <3>3. K \in Int /\ s \in Int
      OBVIOUS
    <3> QED BY <1>1, <3>1, <3>2, <3>3, BoundType DEF Adds
  <2> QED BY <2>1
<1>4. \A S \in SUBSET Accounts : h[S] = f[S] + K * c(S) - (IF w \in S THEN K * m ELSE 0)
  OBVIOUS
<1>5. h \in [SUBSET Accounts -> Int]
  <2> HIDE DEF m, c
  <2> QED BY <1>2, <1>3
<1>6. h[{}] = 0
  <2>1. {} \cap ids = {} /\ Cardinality({}) = 0 /\ f[{}] = 0
    BY <1>1, FS_EmptySet DEF Adds
  <2>2. c({}) = 0
    BY <2>1
  <2> HIDE DEF c, h
  <2> QED BY <1>4, <2>1, <2>2
<1>7. ASSUME NEW S \in SUBSET Accounts, NEW a \in Accounts, a \notin S
      PROVE  h[S \cup {a}] = h[S] + paid[a]
  <2>1. S \cup {a} \in SUBSET Accounts /\ f[S \cup {a}] = f[S] + u[a]
    BY <1>1, <1>7 DEF Adds
  <2>2. c(S \cup {a}) = IF a \in ids THEN c(S) + 1 ELSE c(S)
    <3>1. CASE a \in ids
      <4>1. (S \cup {a}) \cap ids = (S \cap ids) \cup {a} /\ a \notin S \cap ids /\ S \cap ids \in SUBSET Accounts
        BY <1>7, <3>1
      <4>2. IsFiniteSet(S \cap ids)
        BY <4>1, Members
      <4>3. Cardinality((S \cap ids) \cup {a}) = Cardinality(S \cap ids) + 1
        BY <4>1, <4>2, FS_AddElement
      <4> QED BY <3>1, <4>1, <4>3
    <3>2. CASE a \notin ids
      <4>1. (S \cup {a}) \cap ids = S \cap ids
        BY <3>2
      <4> QED BY <3>2, <4>1
    <3> QED BY <3>1, <3>2
  <2>3. K * (c(S) + 1) = K * c(S) + K
    <3>1. c(S) \in Nat
      BY <1>3
    <3> HIDE DEF c
    <3> QED BY <3>1
  <2>4. paid[a] = IF a = w THEN u[a] + K - K * m ELSE IF a \in ids THEN u[a] + K ELSE u[a]
    BY DEF Paid
  <2>5. u[a] \in Int /\ K * c(S) \in Int /\ f[S] \in Int
    <3>1. K * c(S) \in Nat /\ f[S] \in Int
      BY <1>3
    <3> HIDE DEF c
    <3> QED BY <3>1
  <2>6. h[S \cup {a}] = f[S \cup {a}] + K * c(S \cup {a}) - (IF w \in S \cup {a} THEN K * m ELSE 0)
        /\ h[S] = f[S] + K * c(S) - (IF w \in S THEN K * m ELSE 0)
    BY <1>4, <2>1
  <2> HIDE DEF h, c, m, paid
  <2>7. CASE a = w
    BY <1>2, <1>7, <2>1, <2>2, <2>3, <2>4, <2>5, <2>6, <2>7
  <2>8. CASE a # w
    <3>1. w \in S \cup {a} <=> w \in S
      BY <2>8
    <3>2. CASE a \in ids
      BY <1>2, <2>1, <2>2, <2>3, <2>4, <2>5, <2>6, <2>8, <3>1, <3>2
    <3>3. CASE a \notin ids
      BY <1>2, <2>1, <2>2, <2>4, <2>5, <2>6, <2>8, <3>1, <3>3
    <3> QED BY <3>2, <3>3
  <2> QED BY <2>7, <2>8
<1>8. Adds(paid, h)
  <2> HIDE DEF h, paid
  <2> QED BY <1>5, <1>6, <1>7 DEF Adds
<1>9. ASSUME NEW S \in SUBSET Accounts
      PROVE  LET top == Bound(K, s, Cardinality(S))
             IN  /\ 0 - top <= h[S] /\ h[S] <= top
                 /\ S # {} /\ S # Accounts => 0 - top < h[S] /\ h[S] < top
  <2> DEFINE top == Bound(K, s, Cardinality(S))
  <2>1. top \in Int /\ f[S] \in Int /\ K * c(S) \in Nat
    BY <1>3
  <2>2. /\ 0 - top <= f[S] /\ f[S] <= top
        /\ S # {} /\ S # Accounts => 0 - top < f[S] /\ f[S] < top
    BY <1>1 DEF Within
  <2>3. CASE w \notin S
    <3>1. h[S] = f[S] + K * c(S)
      BY <1>4, <2>1, <2>3
    <3>2. CASE S \cap ids = {}
      <4>1. c(S) = 0
        BY <3>2, FS_EmptySet
      <4>2. h[S] = f[S]
        <5> HIDE DEF h, c
        <5> QED BY <2>1, <3>1, <4>1
      <4> QED BY <2>2, <4>2
    <3>3. CASE S \cap ids # {}
      <4>1. f[S] + K * c(S) < top
        BY <1>1, <2>3, <3>3, RisesBelow
      <4> HIDE DEF h, c, top
      <4> QED BY <2>1, <2>2, <3>1, <4>1 DEF top
    <3> QED BY <3>2, <3>3
  <2>4. CASE w \in S
    <3> DEFINE q == Cardinality(ids \ S)
    <3>1. q \in Nat /\ m = c(S) + q
      <4>1. Cardinality(ids \ S) = Cardinality(ids) - Cardinality(ids \cap S)
        BY Members, FS_Difference
      <4>2. ids \cap S = S \cap ids
        OBVIOUS
      <4>3. Cardinality(ids) \in Int /\ Cardinality(ids \cap S) \in Int
        BY <1>2, <1>3, <4>2
      <4>4. q \in Nat
        <5>1. ids \ S \in SUBSET Accounts
          OBVIOUS
        <5> QED BY <5>1, Members
      <4> QED BY <4>1, <4>2, <4>3, <4>4
    <3>2. h[S] = f[S] - K * q
      <4>1. h[S] = f[S] + K * c(S) - K * m
        BY <1>4, <2>4
      <4>2. c(S) \in Nat
        BY <1>3
      <4> HIDE DEF c, m, q, h
      <4>3. K * m = K * c(S) + K * q
        BY <3>1, <4>2
      <4>4. K * c(S) \in Int /\ K * q \in Int
        BY <3>1, <4>2
      <4> QED BY <2>1, <4>1, <4>3, <4>4
    <3>3. CASE ids \ S = {}
      <4>1. q = 0
        BY <3>3, FS_EmptySet
      <4>2. h[S] = f[S]
        <5> HIDE DEF h, q
        <5> QED BY <2>1, <3>2, <4>1
      <4> QED BY <2>2, <4>2
    <3>4. CASE ids \ S # {}
      <4>1. 0 - top < f[S] - K * q
        BY <1>1, <2>4, <3>4, FallsAbove
      <4>2. K * q >= 0 /\ K * q \in Int
        BY <3>1
      <4> HIDE DEF h, q, top
      <4> QED BY <2>1, <2>2, <3>2, <4>1, <4>2 DEF top
    <3> QED BY <3>3, <3>4
  <2> QED BY <2>3, <2>4
<1>10. Within(K, s, h)
  <2> HIDE DEF h
  <2> QED BY <1>9 DEF Within
<1> HIDE DEF h
<1> QED BY <1>8, <1>10 DEF Level

\* A removal loosens the bounds by more than a fresh start can take.
LEMMA BoundGrows ==
    ASSUME NEW K \in Nat, NEW s \in Nat, NEW j \in 0..Size
    PROVE  /\ Bound(K, s, j) <= Bound(K, s + K, j)
           /\ j > 0 => Bound(K, s, j - 1) + K <= Bound(K, s + K, j)
<1> DEFINE m == Size
<1>1. m \in Nat /\ j \in Nat /\ j <= m
  BY Members
<1>2. j * K >= 0 /\ j * K \in Int /\ s * j \in Int /\ s * (j - 1) \in Int
  BY <1>1
<1> HIDE DEF m
<1>3. (s + K) * j = s * j + j * K
  BY <1>1
<1>4. K * (j * (m - j)) \in Int
  BY <1>1
<1>5. K * (j * (m - j)) + s * j <= K * (j * (m - j)) + (s + K) * j
  BY <1>2, <1>3, <1>4
<1>6. (K * (j * (m - j)) + (s + K) * j) - (K * ((j - 1) * (m - (j - 1))) + s * (j - 1))
      = K * (m - j) + K + s
  BY <1>1
<1>7. K * (m - j) >= 0 /\ K * (m - j) \in Int
  BY <1>1
<1>8. K * ((j - 1) * (m - (j - 1))) \in Int /\ (s + K) * j \in Int
  BY <1>1
<1>9. K * ((j - 1) * (m - (j - 1))) + s * (j - 1) + K <= K * (j * (m - j)) + (s + K) * j
  BY <1>2, <1>4, <1>6, <1>7, <1>8
<1> QED BY <1>5, <1>9 DEF Bound, m

\* The credit of one account is replaced by less than one credit, as it is
\* when the account is removed: the bounds give way by one credit.
LEMMA ResetLevel ==
    ASSUME NEW K \in Nat, NEW s \in Nat, NEW u \in [Accounts -> Int], Level(K, u, s),
           NEW a \in Accounts, NEW z \in Int, 0 - K < z, z < K
    PROVE  Level(K, [u EXCEPT ![a] = z], s + K)
<1>1. PICK f : Adds(u, f) /\ Within(K, s, f)
  BY DEF Level
<1> DEFINE v == [u EXCEPT ![a] = z]
           h == [S \in SUBSET Accounts |-> IF a \in S THEN f[S \ {a}] + z ELSE f[S]]
<1>2. \A S \in SUBSET Accounts : h[S] = IF a \in S THEN f[S \ {a}] + z ELSE f[S]
  OBVIOUS
<1>3. \A S \in SUBSET Accounts : f[S] \in Int /\ f[S \ {a}] \in Int
  BY <1>1 DEF Adds
<1>4. h \in [SUBSET Accounts -> Int] /\ h[{}] = 0
  BY <1>1, <1>3 DEF Adds
<1>5. ASSUME NEW S \in SUBSET Accounts, NEW b \in Accounts, b \notin S
      PROVE  h[S \cup {b}] = h[S] + v[b]
  <2>0. S \cup {b} \in SUBSET Accounts
    OBVIOUS
  <2>1. CASE b = a
    <3>1. (S \cup {b}) \ {a} = S /\ a \in S \cup {b} /\ a \notin S /\ v[b] = z
      BY <1>5, <2>1
    <3> HIDE DEF h, v
    <3> QED BY <1>2, <2>0, <3>1
  <2>2. CASE b # a /\ a \in S
    <3>1. (S \cup {b}) \ {a} = (S \ {a}) \cup {b} /\ a \in S \cup {b} /\ b \notin S \ {a} /\ v[b] = u[b]
      BY <1>5, <2>2
    <3>2. f[(S \ {a}) \cup {b}] = f[S \ {a}] + u[b]
      BY <1>1, <3>1 DEF Adds
    <3>3. f[S \ {a}] \in Int /\ u[b] \in Int
      BY <1>3
    <3>4. h[S \cup {b}] = f[(S \ {a}) \cup {b}] + z /\ h[S] = f[S \ {a}] + z
      BY <1>2, <2>0, <2>2, <3>1
    <3> HIDE DEF h, v
    <3> QED BY <3>1, <3>2, <3>3, <3>4
  <2>3. CASE b # a /\ a \notin S
    <3>1. a \notin S \cup {b} /\ v[b] = u[b]
      BY <2>3
    <3>2. f[S \cup {b}] = f[S] + u[b]
      BY <1>1, <1>5 DEF Adds
    <3>3. h[S \cup {b}] = f[S \cup {b}] /\ h[S] = f[S]
      BY <1>2, <2>0, <2>3, <3>1
    <3> HIDE DEF h, v
    <3> QED BY <3>1, <3>2, <3>3
  <2> QED BY <2>1, <2>2, <2>3
<1>6. Adds(v, h)
  <2> HIDE DEF h, v
  <2> QED BY <1>4, <1>5 DEF Adds
<1>7. ASSUME NEW S \in SUBSET Accounts
      PROVE  LET top == Bound(K, s + K, Cardinality(S))
             IN  /\ 0 - top <= h[S] /\ h[S] <= top
                 /\ S # {} /\ S # Accounts => 0 - top < h[S] /\ h[S] < top
  <2> DEFINE j == Cardinality(S)
             top == Bound(K, s + K, j)
  <2>0. j \in 0..Size /\ j \in Int /\ top \in Int /\ Bound(K, s, j) \in Int /\ Bound(K, s, j - 1) \in Int
    <3>1. j \in 0..Size /\ j \in Int
      BY Members
    <3>2. K \in Int /\ s \in Int /\ s + K \in Int /\ j - 1 \in Int
      BY <3>1
    <3> HIDE DEF j
    <3> QED BY <3>1, <3>2, BoundType
  <2>1. CASE a \notin S
    <3>1. h[S] = f[S] /\ f[S] \in Int
      BY <1>2, <1>3, <2>1
    <3>2. Bound(K, s, j) <= top
      <4> HIDE DEF j
      <4> QED BY <2>0, BoundGrows
    <3>3. /\ 0 - Bound(K, s, j) <= f[S] /\ f[S] <= Bound(K, s, j)
          /\ S # {} /\ S # Accounts => 0 - Bound(K, s, j) < f[S] /\ f[S] < Bound(K, s, j)
      BY <1>1 DEF Within
    <3> HIDE DEF h, j, top
    <3>4. /\ 0 - top <= h[S] /\ h[S] <= top
          /\ S # {} /\ S # Accounts => 0 - top < h[S] /\ h[S] < top
      BY <2>0, <3>1, <3>2, <3>3
    <3> QED BY <3>4 DEF top, j
  <2>2. CASE a \in S
    <3> DEFINE D == S \ {a}
    <3>1. h[S] = f[D] + z /\ f[D] \in Int
      BY <1>2, <1>3, <2>2
    <3>2. Cardinality(D) = j - 1 /\ j > 0
      <4>1. Cardinality(D) = j - 1 /\ Cardinality(D) \in Nat
        BY <2>2, Members, FS_RemoveElement
      <4> HIDE DEF D, j
      <4> QED BY <2>0, <4>1
    <3>3. 0 - Bound(K, s, j - 1) <= f[D] /\ f[D] <= Bound(K, s, j - 1)
      <4>1. 0 - Bound(K, s, Cardinality(D)) <= f[D] /\ f[D] <= Bound(K, s, Cardinality(D))
        BY <1>1 DEF Within
      <4> QED BY <3>2, <4>1
    <3>4. Bound(K, s, j - 1) + K <= top
      <4> HIDE DEF j
      <4> QED BY <2>0, <3>2, BoundGrows
    <3> HIDE DEF h, j, top, D
    <3>5. 0 - top < h[S] /\ h[S] < top
      BY <2>0, <3>1, <3>3, <3>4
    <3>6. h[S] \in Int
      BY <3>1
    <3> QED BY <2>0, <3>5, <3>6 DEF top, j
  <2> QED BY <2>1, <2>2
<1>8. Within(K, s + K, h)
  <2> HIDE DEF h
  <2> QED BY <1>7 DEF Within
<1> HIDE DEF h
<1> QED BY <1>6, <1>8 DEF Level

\* Credits are scaled so that a tie can be broken within one credit: the first
\* of the list has more.
Scale(M) == Size * M + 1

\* How far an account is put before the others, less than one credit; the
\* tilts of all accounts cancel out.
Tilt(M, a) == M - Size * Rank[a]

\* The credits of a ring, scaled and tilted by the order of the configuration.
Tilted(M, r) == [a \in Accounts |-> Scale(M) * Weight(r, a) + Tilt(M, a)]

\* M is large enough for the ranks, and the tilts alone are within the bounds.
Suits(M) ==
    /\ M \in Nat /\ \A a \in Accounts : Rank[a] \in 0..M
    /\ \A s \in Nat : Level(Scale(M), [a \in Accounts |-> Tilt(M, a)], s)

\* A tilt is less than a credit.
LEMMA TiltType ==
    ASSUME NEW M, Suits(M)
    PROVE  /\ Scale(M) \in Nat /\ Scale(M) > 0 /\ Size \in Nat
           /\ \A a \in Accounts : /\ Tilt(M, a) \in Int /\ 0 - Scale(M) < Tilt(M, a) /\ Tilt(M, a) < Scale(M)
<1>1. Size \in Nat /\ M \in Nat /\ Size * M \in Nat
  BY Members DEF Suits
<1>2. ASSUME NEW a \in Accounts
      PROVE  Tilt(M, a) \in Int /\ 0 - Scale(M) < Tilt(M, a) /\ Tilt(M, a) < Scale(M)
  <2>1. Rank[a] \in Nat /\ Rank[a] <= M
    BY <1>1 DEF Suits
  <2>2. Size > 0
    BY <1>1, Members, FS_EmptySet
  <2>3. Size * Rank[a] \in Nat /\ Size * Rank[a] <= Size * M
    <3>1. Size * (M - Rank[a]) >= 0 /\ Size * (M - Rank[a]) = Size * M - Size * Rank[a] /\ Size * Rank[a] \in Nat
      BY <1>1, <2>1
    <3> QED BY <1>1, <3>1
  <2>4. M <= Size * M
    <3>1. (Size - 1) * M >= 0 /\ (Size - 1) * M = Size * M - M
      BY <1>1, <2>2
    <3> QED BY <1>1, <3>1
  <2> DEFINE top == Size * M
             x == Size * Rank[a]
  <2>5. top \in Nat /\ x \in Nat /\ x <= top /\ M <= top /\ M \in Nat
    BY <1>1, <2>3, <2>4
  <2>6. Tilt(M, a) = M - x /\ Scale(M) = top + 1
    BY DEF Tilt, Scale
  <2> HIDE DEF top, x
  <2> QED BY <2>5, <2>6
<1> QED BY <1>1, <1>2 DEF Scale

\* The sum of the ranks suits.
LEMMA SomeSuits == \E M : Suits(M)
<1>1. PICK g : Adds(Rank, g) /\ \A S \in SUBSET Accounts : 0 <= g[S] /\ g[S] <= g[Accounts]
  BY RanksAdd
<1> DEFINE M == g[Accounts]
<1>2. M \in Nat
  BY <1>1 DEF Adds
<1>3. \A S \in SUBSET Accounts : g[S] \in Nat /\ g[S] <= M
  BY <1>1 DEF Adds
<1>4. ASSUME NEW a \in Accounts PROVE Rank[a] \in 0..M
  <2>1. {} \cup {a} \in SUBSET Accounts /\ g[{} \cup {a}] = g[{}] + Rank[a] /\ g[{}] = 0
    BY <1>1 DEF Adds
  <2>2. Rank[a] \in Nat
    BY RotationAssumption
  <2> QED BY <1>2, <1>3, <2>1, <2>2
<1>5. Size \in Nat /\ Size * M \in Nat
  BY <1>2, Members
<1>6. ASSUME NEW s \in Nat PROVE Level(Scale(M), [a \in Accounts |-> Tilt(M, a)], s)
  <2> DEFINE u == [a \in Accounts |-> Tilt(M, a)]
             c(S) == Cardinality(S)
             h == [S \in SUBSET Accounts |-> M * c(S) - Size * g[S]]
  <2>1. \A S \in SUBSET Accounts : h[S] = M * c(S) - Size * g[S]
    OBVIOUS
  <2>2. \A S \in SUBSET Accounts : /\ c(S) \in Nat /\ c(S) <= Size /\ M * c(S) \in Nat /\ Size * g[S] \in Nat
                                   /\ M * c(S) <= Size * M /\ Size * g[S] <= Size * M
    <3>1. ASSUME NEW S \in SUBSET Accounts
          PROVE  /\ c(S) \in Nat /\ c(S) <= Size /\ M * c(S) \in Nat /\ Size * g[S] \in Nat
                 /\ M * c(S) <= Size * M /\ Size * g[S] <= Size * M
      <4>1. c(S) \in Nat /\ c(S) <= Size /\ g[S] \in Nat /\ g[S] <= M
        BY <1>3, <1>5, Members
      <4> HIDE DEF c, M
      <4>2. M * (Size - c(S)) >= 0 /\ M * (Size - c(S)) = Size * M - M * c(S) /\ M * c(S) \in Nat
        BY <1>2, <1>5, <4>1
      <4>3. Size * (M - g[S]) >= 0 /\ Size * (M - g[S]) = Size * M - Size * g[S] /\ Size * g[S] \in Nat
        BY <1>2, <1>5, <4>1
      <4> QED BY <1>5, <4>1, <4>2, <4>3
    <3> QED BY <3>1
  <2>3. h \in [SUBSET Accounts -> Int]
    <3> HIDE DEF c, M
    <3> QED BY <2>2
  <2>4. h[{}] = 0
    <3>1. c({}) = 0 /\ g[{}] = 0
      BY <1>1, FS_EmptySet DEF Adds
    <3> HIDE DEF c, M, h
    <3> QED BY <1>2, <1>5, <2>1, <3>1
  <2>5. ASSUME NEW S \in SUBSET Accounts, NEW a \in Accounts, a \notin S PROVE h[S \cup {a}] = h[S] + u[a]
    <3>1. S \cup {a} \in SUBSET Accounts /\ g[S \cup {a}] = g[S] + Rank[a]
      BY <1>1, <2>5 DEF Adds
    <3>2. c(S \cup {a}) = c(S) + 1 /\ IsFiniteSet(S)
      BY <2>5, Members, FS_AddElement
    <3>3. u[a] = M - Size * Rank[a]
      BY DEF Tilt
    <3>4. c(S) \in Nat /\ g[S] \in Nat /\ Rank[a] \in Nat
      BY <1>3, <2>2, RotationAssumption
    <3>5. h[S \cup {a}] = M * c(S \cup {a}) - Size * g[S \cup {a}] /\ h[S] = M * c(S) - Size * g[S]
      BY <2>1, <3>1
    <3> HIDE DEF h, c, M, u
    <3>6. M * (c(S) + 1) = M * c(S) + M /\ Size * (g[S] + Rank[a]) = Size * g[S] + Size * Rank[a]
      BY <1>2, <1>5, <3>4
    <3>7. M * c(S) \in Int /\ Size * g[S] \in Int /\ Size * Rank[a] \in Int
      BY <1>2, <1>5, <3>4
    <3> QED BY <1>2, <3>1, <3>2, <3>3, <3>5, <3>6, <3>7
  <2>6. Adds(u, h)
    <3> HIDE DEF h, u
    <3> QED BY <2>3, <2>4, <2>5 DEF Adds
  <2>7. ASSUME NEW S \in SUBSET Accounts
        PROVE  LET top == Bound(Scale(M), s, c(S))
               IN  /\ 0 - top <= h[S] /\ h[S] <= top
                   /\ S # {} /\ S # Accounts => 0 - top < h[S] /\ h[S] < top
    <3> DEFINE j == c(S)
               top == Bound(Scale(M), s, j)
               K == Size * M + 1
    <3>1. j \in Nat /\ j <= Size /\ top = K * (j * (Size - j)) + s * j
      BY <2>2 DEF Bound, Scale
    <3>2. h[S] = M * j - Size * g[S] /\ h[S] \in Int
      BY <2>1, <2>3
    <3>3. CASE S = {} \/ S = Accounts
      <4>1. h[S] = 0
        <5>1. CASE S = {}
          BY <2>4, <5>1
        <5>2. CASE S = Accounts
          <6>1. j = Size /\ g[S] = M
            BY <5>2 DEF Size
          <6> HIDE DEF h, j, M
          <6> QED BY <1>2, <1>5, <3>2, <6>1
        <5> QED BY <3>3, <5>1, <5>2
      <4>2. K * (j * (Size - j)) >= 0 /\ s * j >= 0 /\ K * (j * (Size - j)) \in Int /\ s * j \in Int
        <5>1. K \in Nat /\ j * (Size - j) \in Nat
          <6> HIDE DEF M, j
          <6> QED BY <1>5, <3>1
        <5> HIDE DEF K, j
        <5> QED BY <3>1, <5>1
      <4> HIDE DEF h, j, top, K
      <4> QED BY <3>1, <3>3, <4>1, <4>2 DEF top, j
    <3>4. CASE S # {} /\ S # Accounts
      <4>1. j # 0 /\ j # Size
        BY <3>4, Members
      <4>2. 0 - K < h[S] /\ h[S] < K
        <5>1. M * j \in Nat /\ Size * g[S] \in Nat /\ M * j <= Size * M /\ Size * g[S] <= Size * M
          BY <2>2
        <5> HIDE DEF h, j, M
        <5> QED BY <1>5, <3>2, <5>1
      <4>3. K \in Nat /\ j * (Size - j) \in Nat /\ j * (Size - j) >= 1
        <5>1. (j - 1) * (Size - j) >= 0 /\ (j - 1) * (Size - j) = j * (Size - j) - (Size - j) /\ Size - j >= 1
          <6> HIDE DEF j
          <6> QED BY <1>5, <3>1, <4>1
        <5>2. j * (Size - j) \in Int
          <6> HIDE DEF j
          <6> QED BY <1>5, <3>1
        <5> DEFINE p == j * (Size - j)
        <5>3. p \in Int /\ p >= Size - j /\ Size - j >= 1
          <6>1. (j - 1) * (Size - j) \in Int /\ Size - j \in Int
            <7> HIDE DEF j
            <7> QED BY <1>5, <3>1
          <6> QED BY <5>1, <5>2, <6>1
        <5>4. p \in Nat /\ p >= 1
          <6> HIDE DEF p, j
          <6> QED BY <1>5, <3>1, <5>3
        <5>5. K \in Nat
          <6> HIDE DEF M
          <6> QED BY <1>5
        <5> QED BY <5>4, <5>5
      <4>4. K * (j * (Size - j)) >= K /\ s * j >= 0 /\ K * (j * (Size - j)) \in Int /\ s * j \in Int
        <5> DEFINE p == j * (Size - j)
        <5>1. K * (p - 1) >= 0 /\ K * (p - 1) = K * p - K /\ K * p \in Int
          <6> HIDE DEF K, p
          <6> QED BY <4>3 DEF p
        <5>2. s * j >= 0 /\ s * j \in Int
          <6> HIDE DEF j
          <6> QED BY <3>1
        <5> HIDE DEF K, p
        <5>3. K * p >= K
          BY <4>3, <5>1
        <5> QED BY <5>1, <5>2, <5>3 DEF p
      <4> HIDE DEF h, j, top, K
      <4>5. 0 - top < h[S] /\ h[S] < top
        BY <3>1, <3>2, <4>2, <4>3, <4>4
      <4>6. top \in Int
        BY <3>1, <4>4
      <4> QED BY <3>2, <4>5, <4>6 DEF top, j
    <3> HIDE DEF h, c
    <3> QED BY <3>3, <3>4
  <2>8. Within(Scale(M), s, h)
    <3> HIDE DEF h
    <3> QED BY <2>7 DEF Within
  <2> HIDE DEF h
  <2> QED BY <2>6, <2>8 DEF Level
<1>7. Suits(M)
  <2> HIDE DEF M
  <2> QED BY <1>2, <1>4, <1>6 DEF Suits
<1> QED BY <1>7

\* The credits are within the bounds, and whoever waits has got one credit for
\* every draw it has waited for, from no lower than the lowest one may be.
FairFor(M, r, conf, rem, wait) ==
    /\ wait \in [Accounts -> Nat] /\ rem \in Nat
    /\ r.made \/ r = NoRing
    /\ DOMAIN r.weights \subseteq conf
    /\ Level(Scale(M), Tilted(M, r), Scale(M) * rem)
    /\ \A a \in Accounts : Scale(M) * wait[a] < Tilted(M, r)[a] + Scale(M) * (Size - 1) + Scale(M) * rem

\* The invariant of NobodyStarves.
FairInv == \E M : Suits(M) /\ FairFor(M, ring, configured, removals, waiting)

\* The bounds of one account.
LEMMA SingleLevel ==
    ASSUME Size >= 2, NEW K \in Nat, NEW s \in Nat, NEW u \in [Accounts -> Int], Level(K, u, s),
           NEW a \in Accounts
    PROVE  0 - (K * (Size - 1) + s) < u[a] /\ u[a] < K * (Size - 1) + s
<1>1. PICK f : Adds(u, f) /\ Within(K, s, f)
  BY DEF Level
<1>2. {} \cup {a} = {a} /\ {a} \in SUBSET Accounts /\ {a} # {}
  OBVIOUS
<1>3. f[{a}] = u[a]
  <2>1. f[{} \cup {a}] = f[{}] + u[a] /\ f[{}] = 0
    BY <1>1 DEF Adds
  <2> QED BY <1>2, <2>1
<1>4. Cardinality({a}) = 1 /\ {a} # Accounts
  <2>1. Cardinality({a}) = 1
    BY FS_Singleton
  <2> QED BY <2>1 DEF Size
<1>5. 0 - Bound(K, s, 1) < f[{a}] /\ f[{a}] < Bound(K, s, 1)
  BY <1>1, <1>2, <1>4 DEF Within
<1>6. Bound(K, s, 1) = K * (Size - 1) + s
  <2>1. Size \in Nat /\ 1 * (Size - 1) = Size - 1 /\ s * 1 = s
    BY Members
  <2> QED BY <2>1 DEF Bound
<1> QED BY <1>3, <1>5, <1>6

\* The tilted credits are integers.
LEMMA TiltedType ==
    ASSUME NEW M, Suits(M), NEW r \in RingType
    PROVE  /\ Tilted(M, r) \in [Accounts -> Int]
           /\ \A a \in Accounts : /\ Weight(r, a) \in Int
                                  /\ Tilted(M, r)[a] = Scale(M) * Weight(r, a) + Tilt(M, a)
<1>1. \A a \in Accounts : Weight(r, a) \in Int
  BY DEF Weight, RingType, Rings, Weights
<1>2. \A a \in Accounts : Tilt(M, a) \in Int /\ Scale(M) \in Nat
  BY TiltType
<1> QED BY <1>1, <1>2 DEF Tilted

\* Among those that may serve, the winner of smoothWeightedIndex has more
\* tilted credits than any other: more credits, or as many and an earlier
\* place.
LEMMA WinnerLeads ==
    ASSUME NEW M, Suits(M), NEW r \in RingType, NEW ids \in SUBSET Accounts, ids # {}, ~Holds(r, ids)
    PROVE  LET w == Picked(r, ids, Rank)
           IN  w \in ids /\ \A b \in ids \ {w} : Tilted(M, r)[b] < Tilted(M, r)[w]
<1> DEFINE w == Picked(r, ids, Rank)
           K == Scale(M)
<1>1. IsFiniteSet(ids) /\ Size \in Nat
  BY Members
<1>2. \A a \in ids : Weight(r, a) \in Int /\ Scores(r, ids)[a] = Weight(r, a) + 1 /\ Rank[a] \in Nat
  BY TiltedType, RotationAssumption DEF Scores
<1>3. \A a \in ids : Scores(r, ids)[a] \in Int /\ Rank[a] \in Int
  BY <1>2
<1>4. w = Foremost(ids, Scores(r, ids), Rank)
  BY DEF Picked
<1> HIDE DEF w
<1>5. /\ w \in ids
      /\ \A b \in ids : \/ Scores(r, ids)[w] > Scores(r, ids)[b]
                        \/ Scores(r, ids)[w] = Scores(r, ids)[b] /\ Rank[w] <= Rank[b]
  BY <1>1, <1>3, <1>4, ForemostIsBest
<1>6. ASSUME NEW b \in ids \ {w} PROVE Tilted(M, r)[b] < Tilted(M, r)[w]
  <2> DEFINE x == Weight(r, w)
             y == Weight(r, b)
             p == Size * Rank[w]
             q == Size * Rank[b]
  <2>1. x \in Int /\ y \in Int /\ Rank[w] \in Nat /\ Rank[b] \in Nat /\ Rank[w] <= M /\ M \in Nat
        /\ Rank[w] # Rank[b]
    BY <1>2, <1>5, RotationAssumption DEF Suits
  <2>2. x > y \/ (x = y /\ Rank[w] < Rank[b])
    BY <1>2, <1>5, <2>1
  <2>3. K = Size * M + 1 /\ p \in Nat /\ q \in Nat /\ p <= Size * M /\ Size * M \in Nat
    <3>1. Size * (M - Rank[w]) >= 0 /\ Size * (M - Rank[w]) = Size * M - Size * Rank[w] /\ Size * M \in Nat
          /\ Size * Rank[w] \in Nat /\ Size * Rank[b] \in Nat
      BY <1>1, <2>1
    <3> QED BY <3>1 DEF Scale
  <2>4. Tilted(M, r)[w] = K * x + (M - p) /\ Tilted(M, r)[b] = K * y + (M - q)
    BY <1>5, TiltedType DEF Tilt
  <2>5. CASE x > y
    <3>1. K \in Nat /\ K * (x - y - 1) >= 0 /\ K * (x - y - 1) = K * x - K * y - K /\ K * x \in Int /\ K * y \in Int
      <4>1. K \in Nat
        BY <2>3
      <4> HIDE DEF x, y, K
      <4> QED BY <2>1, <2>5, <4>1
    <3> DEFINE top == Size * M
               kx == K * x
               ky == K * y
    <3>2. K = top + 1 /\ kx - ky >= K /\ kx \in Int /\ ky \in Int /\ top \in Nat /\ p <= top /\ p \in Nat /\ q \in Nat
      <4> HIDE DEF x, y, K, p, q
      <4> QED BY <2>3, <3>1
    <3> HIDE DEF top, kx, ky, p, q, K
    <3> QED BY <2>1, <2>4, <3>2 DEF kx, ky
  <2>6. CASE x = y /\ Rank[w] < Rank[b]
    <3>1. p < q
      <4>1. Size > 0
        BY <1>1, Members, FS_EmptySet
      <4>2. Size * (Rank[b] - Rank[w]) > 0 /\ Size * (Rank[b] - Rank[w]) = Size * Rank[b] - Size * Rank[w]
        BY <1>1, <2>1, <2>6, <4>1
      <4> QED BY <2>3, <4>2
    <3>2. K * x \in Int
      <4>1. K \in Nat
        BY <2>3
      <4> HIDE DEF x, K
      <4> QED BY <2>1, <4>1
    <3> HIDE DEF p, q, x, y, K
    <3> QED BY <2>1, <2>3, <2>4, <2>6, <3>1, <3>2
  <2> QED BY <2>2, <2>5, <2>6
<1> QED BY <1>5, <1>6 DEF w

\* A draw pays the tilted credits as it pays the credits.
LEMMA DrawnTilted ==
    ASSUME NEW M, Suits(M), NEW r \in RingType, NEW ids \in SUBSET Accounts, ids # {}, ~Holds(r, ids),
           NEW t, t.weights = AfterPick(r, ids, StickyLimit, Rank).weights
    PROVE  Tilted(M, t) = Paid(Scale(M), Tilted(M, r), ids, Picked(r, ids, Rank))
<1> DEFINE w == Picked(r, ids, Rank)
           K == Scale(M)
           m == Cardinality(ids)
<1>1. w \in ids
  BY WinnerLeads
<1>2. t.weights = Charged(r, ids, w)
  BY DEF AfterPick
<1> HIDE DEF w
<1>3. m \in Nat /\ K \in Nat
  BY Members, TiltType
<1>4. \A a \in Accounts : Weight(t, a) = IF a = w THEN Weight(r, a) + 1 - m
                                         ELSE IF a \in ids THEN Weight(r, a) + 1 ELSE Weight(r, a)
  <2>1. \A a \in ids : Scores(r, ids)[a] = Weight(r, a) + 1
    BY DEF Scores
  <2>2. DOMAIN t.weights = DOMAIN r.weights \cup ids
    BY <1>2 DEF Charged
  <2>3. \A a \in DOMAIN r.weights \cup ids :
          t.weights[a] = IF a = w THEN Scores(r, ids)[a] - m
                         ELSE IF a \in ids THEN Scores(r, ids)[a] ELSE r.weights[a]
    BY <1>2 DEF Charged
  <2> HIDE DEF m
  <2>4. ASSUME NEW a \in ids
        PROVE  Weight(t, a) = IF a = w THEN Weight(r, a) + 1 - m ELSE Weight(r, a) + 1
    <3>1. a \in DOMAIN t.weights
      BY <2>2
    <3>2. t.weights[a] = IF a = w THEN Scores(r, ids)[a] - m ELSE Scores(r, ids)[a]
      BY <2>3
    <3>3. Weight(t, a) = t.weights[a]
      BY <3>1 DEF Weight
    <3>4. Scores(r, ids)[a] = Weight(r, a) + 1
      BY <2>1
    <3>5. CASE a = w
      <4>1. Weight(r, a) \in Int
        BY TiltedType
      <4>2. Weight(t, a) = Scores(r, ids)[a] - m
        BY <3>2, <3>3, <3>5
      <4>3. Scores(r, ids)[a] - m = Weight(r, a) + 1 - m
        BY <1>3, <3>4, <4>1
      <4> QED BY <3>5, <4>2, <4>3
    <3>6. CASE a # w
      BY <3>2, <3>3, <3>4, <3>6
    <3> QED BY <3>5, <3>6
  <2>5. ASSUME NEW a \in Accounts \ ids PROVE Weight(t, a) = Weight(r, a)
    <3>1. a \in DOMAIN t.weights <=> a \in DOMAIN r.weights
      BY <2>2
    <3>2. a \in DOMAIN r.weights => t.weights[a] = r.weights[a]
      BY <1>1, <2>3
    <3> QED BY <3>1, <3>2 DEF Weight
  <2> QED BY <1>1, <2>4, <2>5
<1>5. ASSUME NEW a \in Accounts
      PROVE  K * Weight(t, a) + Tilt(M, a) =
               IF a = w THEN Tilted(M, r)[a] + K - K * m
               ELSE IF a \in ids THEN Tilted(M, r)[a] + K ELSE Tilted(M, r)[a]
  <2> DEFINE x == Weight(r, a)
             v == Tilt(M, a)
  <2>1. x \in Int /\ v \in Int /\ Tilted(M, r)[a] = K * x + v
    BY TiltType, TiltedType
  <2> HIDE DEF x, v, K, m
  <2>2. K * (x + 1 - m) = K * x + K - K * m /\ K * (x + 1) = K * x + K /\ K * x \in Int /\ K * m \in Int
    BY <1>3, <2>1
  <2>3. Weight(t, a) = IF a = w THEN x + 1 - m ELSE IF a \in ids THEN x + 1 ELSE x
    BY <1>4 DEF x
  <2>4. CASE a = w
    BY <1>3, <2>1, <2>2, <2>3, <2>4 DEF v
  <2>5. CASE a # w /\ a \in ids
    BY <1>3, <2>1, <2>2, <2>3, <2>5 DEF v
  <2>6. CASE a # w /\ a \notin ids
    BY <1>3, <2>1, <2>2, <2>3, <2>6 DEF v
  <2> QED BY <2>4, <2>5, <2>6
<1> HIDE DEF K, m
<1> QED BY <1>5 DEF Tilted, Paid, K, m, w

\* The tilted credits depend on the weights of the ring only.
LEMMA SameWeights ==
    ASSUME NEW M, NEW r, NEW t, t.weights = r.weights PROVE Tilted(M, t) = Tilted(M, r)
<1>1. \A a : Weight(t, a) = Weight(r, a)
  BY Zenon DEF Weight
<1> QED BY <1>1, Zenon DEF Tilted
\* A draw keeps the credits within the bounds, and gives everybody who waits
\* for it one credit.
LEMMA DrawnFair ==
    ASSUME Size >= 2, NEW M, Suits(M), NEW r \in RingType, NEW conf, NEW rem, NEW wait,
           FairFor(M, r, conf, rem, wait), conf \subseteq Accounts, NEW ids \in SUBSET conf, ids # {},
           NEW t, t.made, t.weights = AfterPick(r, ids, StickyLimit, Rank).weights,
           NEW wait2, wait2 = [a \in Accounts |->
                                 IF a \notin ids \/ a = Picked(r, ids, Rank) THEN 0
                                 ELSE IF Holds(r, ids) THEN wait[a] ELSE wait[a] + 1]
    PROVE  FairFor(M, t, conf, rem, wait2)
<1> DEFINE w == Picked(r, ids, Rank)
           K == Scale(M)
           u == Tilted(M, r)
           v == Tilted(M, t)
<1>1. /\ wait \in [Accounts -> Nat] /\ rem \in Nat /\ DOMAIN r.weights \subseteq conf
      /\ Level(K, u, K * rem) /\ \A a \in Accounts : K * wait[a] < u[a] + K * (Size - 1) + K * rem
  BY DEF FairFor
<1>2. K \in Nat /\ Size \in Nat /\ K * rem \in Nat /\ K * (Size - 1) \in Int
  <2>1. K \in Nat /\ Size \in Nat
    BY TiltType
  <2> HIDE DEF K
  <2> QED BY <1>1, <2>1
<1>3. u \in [Accounts -> Int]
  BY TiltedType
<1>4. /\ \/ v = u /\ Holds(r, ids)
         \/ v = Paid(K, u, ids, w) /\ ~Holds(r, ids)
      /\ DOMAIN t.weights \subseteq conf
  <2>1. CASE Holds(r, ids)
    <3>1. t.weights = r.weights
      BY <2>1 DEF AfterPick
    <3>2. v = u
      BY <3>1, SameWeights
    <3> QED BY <1>1, <2>1, <3>1, <3>2
  <2>2. CASE ~Holds(r, ids)
    <3>1. v = Paid(K, u, ids, w)
      BY <2>2, DrawnTilted
    <3>2. t.weights = Charged(r, ids, w)
      BY <2>2 DEF AfterPick
    <3>3. DOMAIN t.weights = DOMAIN r.weights \cup ids
      BY <3>2 DEF Charged
    <3> HIDE DEF u, v, w, K
    <3> QED BY <1>1, <2>2, <3>1, <3>3
  <2> QED BY <2>1, <2>2
<1>5. v \in [Accounts -> Int] /\ Level(K, v, K * rem)
  <2>1. CASE v = u
    BY <1>1, <1>3, <2>1
  <2>2. CASE v = Paid(K, u, ids, w) /\ ~Holds(r, ids)
    <3>1. w \in ids /\ \A b \in ids \ {w} : u[b] < u[w]
      BY <2>2, WinnerLeads
    <3>2. ids \in SUBSET Accounts
      OBVIOUS
    <3> HIDE DEF w, u, K, v
    <3>3. Level(K, v, K * rem)
      BY <1>1, <1>2, <1>3, <2>2, <3>1, <3>2, DrawLevel
    <3>4. K * Cardinality(ids) \in Int
      <4>1. Cardinality(ids) \in Nat
        BY <3>2, Members
      <4> QED BY <1>2, <4>1
    <3>5. v \in [Accounts -> Int]
      BY <1>2, <1>3, <2>2, <3>4 DEF Paid
    <3> QED BY <3>3, <3>5
  <2> QED BY <1>4, <2>1, <2>2
<1>6. \A a \in Accounts : wait2[a] = IF a \notin ids \/ a = w THEN 0
                                    ELSE IF Holds(r, ids) THEN wait[a] ELSE wait[a] + 1
  OBVIOUS
<1>7. wait2 \in [Accounts -> Nat]
  BY <1>1
<1>8. ASSUME NEW a \in Accounts PROVE K * wait2[a] < v[a] + K * (Size - 1) + K * rem
  <2>1. CASE wait2[a] = 0
    <3> HIDE DEF v, K
    <3>1. 0 - (K * (Size - 1) + K * rem) < v[a] /\ v[a] \in Int
      BY <1>2, <1>5, SingleLevel
    <3>2. K * 0 = 0
      BY <1>2
    <3> QED BY <1>2, <2>1, <3>1, <3>2
  <2>2. CASE wait2[a] = wait[a] /\ v = u
    BY <1>1, <2>2
  <2>3. CASE a \in ids /\ a # w /\ ~Holds(r, ids)
    <3>1. wait2[a] = wait[a] + 1 /\ wait[a] \in Nat
      BY <1>1, <1>6, <2>3
    <3>2. v[a] = u[a] + K /\ u[a] \in Int
      <4> HIDE DEF v, u, w, K
      <4> QED BY <1>3, <1>4, <2>3 DEF Paid
    <3>3. K * wait[a] < u[a] + K * (Size - 1) + K * rem
      BY <1>1
    <3> HIDE DEF v, u, w, K
    <3>4. K * (wait[a] + 1) = K * wait[a] + K /\ K * wait[a] \in Int
      BY <1>2, <3>1
    <3> QED BY <1>2, <3>1, <3>2, <3>3, <3>4
  <2>4. wait2[a] = 0 \/ (wait2[a] = wait[a] /\ v = u) \/ (a \in ids /\ a # w /\ ~Holds(r, ids))
    <3> HIDE DEF v, u, w
    <3> QED BY <1>4, <1>6
  <2> QED BY <2>1, <2>2, <2>3, <2>4
<1> QED BY <1>1, <1>4, <1>5, <1>7, <1>8 DEF FairFor

\* A ring without weights is fair, and nobody has waited for it.
LEMMA StartFair ==
    ASSUME Size >= 2, NEW M, Suits(M), NEW conf, NEW rem \in Nat, NEW r, r.made \/ r = NoRing, r.weights = NoWeights
    PROVE  FairFor(M, r, conf, rem, [a \in Accounts |-> 0])
<1> DEFINE K == Scale(M)
           u == Tilted(M, r)
<1>1. K \in Nat /\ Size \in Nat /\ K * rem \in Nat /\ K * (Size - 1) \in Int
  <2>1. K \in Nat /\ Size \in Nat
    BY TiltType
  <2> HIDE DEF K
  <2> QED BY <2>1
<1>2. \A a \in Accounts : K * Weight(r, a) + Tilt(M, a) = Tilt(M, a)
  <2>1. ASSUME NEW a \in Accounts PROVE K * Weight(r, a) + Tilt(M, a) = Tilt(M, a)
    <3>1. Weight(r, a) = 0 /\ Tilt(M, a) \in Int
      BY TiltType DEF Weight, NoWeights
    <3> HIDE DEF K
    <3> QED BY <1>1, <3>1
  <2> QED BY <2>1
<1>3. u = [a \in Accounts |-> Tilt(M, a)]
  BY <1>2 DEF Tilted
<1>4. u \in [Accounts -> Int]
  BY <1>3, TiltType
<1>5. Level(K, u, K * rem)
  <2> HIDE DEF u, K
  <2>1. \A s \in Nat : Level(K, u, s)
    BY <1>3 DEF Suits, K
  <2> QED BY <1>1, <2>1
<1>6. DOMAIN r.weights = {}
  BY DEF NoWeights
<1>7. ASSUME NEW a \in Accounts PROVE K * 0 < u[a] + K * (Size - 1) + K * rem
  <2> HIDE DEF u, K
  <2>1. 0 - (K * (Size - 1) + K * rem) < u[a] /\ u[a] \in Int
    BY <1>1, <1>4, <1>5, SingleLevel
  <2>2. K * 0 = 0
    BY <1>1
  <2> QED BY <1>1, <2>1, <2>2
<1> HIDE DEF u, K
<1> QED BY <1>5, <1>6, <1>7 DEF FairFor, u, K

\* What a reconciliation leaves of the credits.
LEMMA ReconciledWeights ==
    ASSUME NEW r \in RingType, r.made \/ r = NoRing, NEW valid \in SUBSET Accounts
    PROVE  LET t == ReconcileRing(r, valid)
           IN  /\ t.made \/ t = NoRing
               /\ DOMAIN t.weights \subseteq valid
               /\ \A a \in Accounts : Weight(t, a) = IF a \in valid THEN Weight(r, a) ELSE 0
<1> DEFINE t == ReconcileRing(r, valid)
<1>1. CASE ~r.made \/ valid = {}
  <2>1. t = NoRing /\ DOMAIN NoRing.weights = {}
    BY <1>1 DEF ReconcileRing, NoRing, NoWeights
  <2>2. \A a \in Accounts : Weight(t, a) = 0
    BY <2>1 DEF Weight
  <2>3. \A a \in valid : Weight(r, a) = 0
    BY <1>1, <2>1 DEF Weight
  <2> QED BY <2>1, <2>2, <2>3
<1>2. CASE r.made /\ valid # {}
  <2>1. t.made /\ t.weights = [a \in DOMAIN r.weights \cap valid |-> r.weights[a]]
    BY <1>2 DEF ReconcileRing
  <2> HIDE DEF t
  <2>2. DOMAIN t.weights = DOMAIN r.weights \cap valid
        /\ \A a \in DOMAIN r.weights \cap valid : t.weights[a] = r.weights[a]
    BY <2>1
  <2>3. \A a \in Accounts : Weight(t, a) = IF a \in valid THEN Weight(r, a) ELSE 0
    BY <2>2 DEF Weight
  <2> QED BY <2>1, <2>2, <2>3 DEF t
<1> QED BY <1>1, <1>2

\* A removal loosens the bounds by one credit and gives the account a fresh
\* start.
LEMMA RemovedFair ==
    ASSUME Size >= 2, NEW M, Suits(M), NEW r \in RingType, NEW conf \in SUBSET Accounts, NEW rem, NEW wait,
           FairFor(M, r, conf, rem, wait), NEW a \in conf
    PROVE  FairFor(M, ReconcileRing(r, conf \ {a}), conf \ {a}, rem + 1, [wait EXCEPT ![a] = 0])
<1> DEFINE K == Scale(M)
           u == Tilted(M, r)
           t == ReconcileRing(r, conf \ {a})
           v == Tilted(M, t)
           later == [wait EXCEPT ![a] = 0]
<1>1. /\ wait \in [Accounts -> Nat] /\ rem \in Nat /\ DOMAIN r.weights \subseteq conf /\ (r.made \/ r = NoRing)
      /\ Level(K, u, K * rem) /\ \A b \in Accounts : K * wait[b] < u[b] + K * (Size - 1) + K * rem
  BY DEF FairFor
<1>2. K \in Nat /\ Size \in Nat /\ K * rem \in Nat /\ K * (Size - 1) \in Int /\ K * (rem + 1) = K * rem + K
  <2>1. K \in Nat /\ Size \in Nat
    BY TiltType
  <2> HIDE DEF K
  <2> QED BY <1>1, <2>1
<1>3. u \in [Accounts -> Int]
  BY TiltedType
<1>4. /\ t.made \/ t = NoRing
      /\ DOMAIN t.weights \subseteq conf \ {a}
      /\ \A b \in Accounts : Weight(t, b) = IF b = a THEN 0 ELSE Weight(r, b)
  <2>1. conf \ {a} \in SUBSET Accounts
    OBVIOUS
  <2>2. /\ t.made \/ t = NoRing
        /\ DOMAIN t.weights \subseteq conf \ {a}
        /\ \A b \in Accounts : Weight(t, b) = IF b \in conf \ {a} THEN Weight(r, b) ELSE 0
    BY <1>1, <2>1, ReconciledWeights
  <2>3. \A b \in Accounts \ conf : Weight(r, b) = 0
    BY <1>1 DEF Weight
  <2> HIDE DEF t
  <2> QED BY <2>2, <2>3
<1>5. v = [u EXCEPT ![a] = Tilt(M, a)]
  <2>1. \A b \in Accounts : K * Weight(t, b) + Tilt(M, b) = IF b = a THEN Tilt(M, a) ELSE u[b]
    <3>1. ASSUME NEW b \in Accounts PROVE K * Weight(t, b) + Tilt(M, b) = IF b = a THEN Tilt(M, a) ELSE u[b]
      <4>1. u[b] = K * Weight(r, b) + Tilt(M, b) /\ Tilt(M, b) \in Int
        BY TiltedType, TiltType
      <4>2. K * 0 = 0
        <5> HIDE DEF K
        <5> QED BY <1>2
      <4> HIDE DEF K, t, u
      <4> QED BY <1>4, <4>1, <4>2
    <3> QED BY <3>1
  <2> HIDE DEF u, t, K
  <2>2. v = [b \in Accounts |-> IF b = a THEN Tilt(M, a) ELSE u[b]]
    BY <2>1 DEF Tilted, K
  <2> HIDE DEF v
  <2> QED BY <1>3, <2>2
<1>6. Tilt(M, a) \in Int /\ 0 - K < Tilt(M, a) /\ Tilt(M, a) < K
  BY TiltType
<1>7. v \in [Accounts -> Int] /\ Level(K, v, K * (rem + 1))
  <2> HIDE DEF v, u, K
  <2>1. Level(K, v, K * rem + K)
    BY <1>1, <1>2, <1>3, <1>5, <1>6, ResetLevel
  <2> QED BY <1>2, <1>3, <1>5, <1>6, <2>1
<1>8. later \in [Accounts -> Nat] /\ \A b \in Accounts : later[b] = IF b = a THEN 0 ELSE wait[b]
  BY <1>1
<1>9. ASSUME NEW b \in Accounts PROVE K * later[b] < v[b] + K * (Size - 1) + K * (rem + 1)
  <2> HIDE DEF v, u, K, t, later
  <2>1. CASE b = a
    <3>1. K * (rem + 1) \in Nat
      BY <1>2
    <3>2. 0 - (K * (Size - 1) + K * (rem + 1)) < v[b] /\ v[b] \in Int
      BY <1>2, <1>7, <3>1, SingleLevel
    <3>3. K * 0 = 0
      BY <1>2
    <3> QED BY <1>2, <1>8, <2>1, <3>1, <3>2, <3>3
  <2>2. CASE b # a
    <3>1. v[b] = u[b] /\ u[b] \in Int /\ later[b] = wait[b] /\ wait[b] \in Nat
      BY <1>1, <1>3, <1>5, <1>8, <2>2
    <3>2. K * wait[b] \in Int
      BY <1>2, <3>1
    <3> QED BY <1>1, <1>2, <3>1, <3>2
  <2> QED BY <2>1, <2>2
<1>10. rem + 1 \in Nat
  BY <1>1
<1> HIDE DEF v, u, K, t, later
<1> QED BY <1>4, <1>7, <1>8, <1>9, <1>10 DEF FairFor, v, K, t, later

\* An account that comes back has no credits.
LEMMA AddedFair ==
    ASSUME NEW M, NEW r \in RingType, NEW conf \in SUBSET Accounts, NEW rem, NEW wait,
           FairFor(M, r, conf, rem, wait), NEW a \in Accounts
    PROVE  FairFor(M, ReconcileRing(r, conf \cup {a}), conf \cup {a}, rem, wait)
<1> DEFINE t == ReconcileRing(r, conf \cup {a})
<1>1. DOMAIN r.weights \subseteq conf /\ (r.made \/ r = NoRing)
  BY DEF FairFor
<1>2. conf \cup {a} \in SUBSET Accounts
  OBVIOUS
<1>3. /\ t.made \/ t = NoRing
      /\ DOMAIN t.weights \subseteq conf \cup {a}
      /\ \A b \in Accounts : Weight(t, b) = IF b \in conf \cup {a} THEN Weight(r, b) ELSE 0
  BY <1>1, <1>2, ReconciledWeights
<1>4. \A b \in Accounts \ conf : Weight(r, b) = 0
  BY <1>1 DEF Weight
<1>5. \A b \in Accounts : Weight(t, b) = Weight(r, b)
  <2> HIDE DEF t
  <2> QED BY <1>3, <1>4
<1> HIDE DEF t
<1>6. Tilted(M, t) = Tilted(M, r)
  BY <1>5 DEF Tilted
<1> QED BY <1>3, <1>6 DEF FairFor, t

\* What keeps the weights and the waiting is fair.
LEMMA LeftFair ==
    ASSUME NEW M, NEW r, NEW t, NEW conf, NEW rem, NEW wait, FairFor(M, r, conf, rem, wait),
           t.weights = r.weights, t.made = r.made, ~r.made => t = r
    PROVE  FairFor(M, t, conf, rem, wait)
<1>1. Tilted(M, t) = Tilted(M, r)
  BY SameWeights
<1> QED BY <1>1 DEF FairFor

\* Noting a session touches no credits.
LEMMA NotedWeights ==
    ASSUME NEW t \in RingType, t.made, NEW a
    PROVE  NoteSuccess(t, a, StickyLimit).made /\ NoteSuccess(t, a, StickyLimit).weights = t.weights
BY DEF NoteSuccess, RingType, Rings


\* A fresh ring is fair.
LEMMA InitFair == Size >= 2 /\ Init => FairInv
<1> SUFFICES ASSUME Size >= 2, Init PROVE FairInv
  OBVIOUS
<1>1. PICK M : Suits(M)
  BY SomeSuits
<1>2. ring = NoRing /\ ring.weights = NoWeights
  BY DEF Init, NoRing
<1>3. FairFor(M, ring, configured, 0, [a \in Accounts |-> 0])
  BY <1>1, <1>2, StartFair
<1>4. removals = 0 /\ waiting = [a \in Accounts |-> 0]
  BY DEF Init
<1> QED BY <1>1, <1>3, <1>4 DEF FairInv

\* Every operation on the ring leaves it fair.
LEMMA StepFair ==
    ASSUME Size >= 2, IInv, FairInv, [Next]_vars
    PROVE  FairInv'
<1>1. PICK M : Suits(M) /\ FairFor(M, ring, configured, removals, waiting)
  BY DEF FairInv
<1>2. ring \in RingType /\ configured \in SUBSET Accounts /\ removals \in Nat
  BY DEF IInv
<1>3. SUFFICES FairFor(M, ring', configured', removals', waiting')
  BY <1>1 DEF FairInv
<1>4. ASSUME NEW ids \in SUBSET Accounts, Assign(ids)
      PROVE  FairFor(M, ring', configured', removals', waiting')
  <2> DEFINE w == Picked(ring, ids, Rank)
             t == AfterPick(ring, ids, StickyLimit, Rank)
  <2>1. /\ ids \in SUBSET configured /\ ids # {} /\ ring' = NoteSuccess(t, w, StickyLimit)
        /\ UNCHANGED <<configured, removals>>
    BY <1>4 DEF Assign
  <2>2. waiting' = [a \in Accounts |->
          IF a \notin ids \/ a = w THEN 0 ELSE IF Holds(ring, ids) THEN waiting[a] ELSE waiting[a] + 1]
    BY <1>4 DEF Assign, Waits
  <2>3. t \in RingType /\ t.made
    BY <1>2, <2>1, RingOfThePool, AfterPickType DEF RingType
  <2>4. ring'.made /\ ring'.weights = t.weights
    <3> HIDE DEF t, w
    <3> QED BY <2>1, <2>3, NotedWeights
  <2>5. FairFor(M, ring', configured, removals, waiting')
    <3> DEFINE r2 == ring'
               wait2 == waiting'
    <3>1. r2.made /\ r2.weights = AfterPick(ring, ids, StickyLimit, Rank).weights
      BY <2>4
    <3>2. wait2 = [a \in Accounts |->
            IF a \notin ids \/ a = Picked(ring, ids, Rank) THEN 0
            ELSE IF Holds(ring, ids) THEN waiting[a] ELSE waiting[a] + 1]
      BY <2>2
    <3> HIDE DEF r2, wait2
    <3>3. FairFor(M, r2, configured, removals, wait2)
      BY <1>1, <1>2, <2>1, <3>1, <3>2, DrawnFair
    <3> QED BY <3>3 DEF r2, wait2
  <2> QED BY <2>1, <2>5
<1>5. ASSUME NEW ids \in SUBSET Accounts, Alternate(ids)
      PROVE  FairFor(M, ring', configured', removals', waiting')
  <2> DEFINE t == AfterPick(ring, ids, StickyLimit, Rank)
  <2>1. /\ ids \in SUBSET configured /\ ids # {} /\ ring' = t
        /\ UNCHANGED <<configured, removals>>
    BY <1>5 DEF Alternate
  <2>2. t \in RingType /\ t.made
    BY <1>2, <2>1, RingOfThePool, AfterPickType DEF RingType
  <2>3. FairFor(M, ring', configured, removals, waiting')
    <3> DEFINE r2 == ring'
               wait2 == waiting'
    <3>1. r2.made /\ r2.weights = AfterPick(ring, ids, StickyLimit, Rank).weights
      BY <2>1, <2>2
    <3>2. wait2 = [a \in Accounts |->
            IF a \notin ids \/ a = Picked(ring, ids, Rank) THEN 0
            ELSE IF Holds(ring, ids) THEN waiting[a] ELSE waiting[a] + 1]
      BY <1>5 DEF Alternate, Waits
    <3> HIDE DEF r2, wait2
    <3>3. FairFor(M, r2, configured, removals, wait2)
      BY <1>1, <1>2, <2>1, <3>1, <3>2, DrawnFair
    <3> QED BY <3>3 DEF r2, wait2
  <2> QED BY <2>1, <2>3
<1>6. ASSUME NEW a \in Accounts, Fail(a)
      PROVE  FairFor(M, ring', configured', removals', waiting')
  <2>1. ring' = NoteFailure(ring, a) /\ UNCHANGED <<configured, removals, waiting>>
    BY <1>6 DEF Fail
  <2>2. ring'.weights = ring.weights /\ ring'.made = ring.made /\ (~ring.made => ring' = ring)
    <3>1. CASE ring.active = a
      <4>1. ring.made
        BY <1>1, <3>1, RotationAssumption DEF FairFor, NoRing
      <4> QED BY <1>2, <2>1, <3>1, <4>1 DEF NoteFailure, RingType, Rings
    <3>2. CASE ring.active # a
      BY <2>1, <3>2 DEF NoteFailure
    <3> QED BY <3>1, <3>2
  <2> QED BY <1>1, <2>1, <2>2, LeftFair
<1>7. ASSUME NEW a \in Accounts, Select(a)
      PROVE  FairFor(M, ring', configured', removals', waiting')
  <2>1. ring' = Seeded(a) /\ waiting' = [b \in Accounts |-> 0] /\ UNCHANGED <<configured, removals>>
    BY <1>7 DEF Select
  <2>2. ring'.made /\ ring'.weights = NoWeights
    BY <2>1 DEF Seeded
  <2>3. FairFor(M, ring', configured, removals, [b \in Accounts |-> 0])
    BY <1>1, <1>2, <2>2, StartFair
  <2> QED BY <2>1, <2>3
<1>8. ASSUME NEW a \in Accounts, Remove(a)
      PROVE  FairFor(M, ring', configured', removals', waiting')
  <2>1. /\ a \in configured /\ configured' = configured \ {a} /\ removals' = removals + 1
        /\ ring' = ReconcileRing(ring, configured \ {a}) /\ waiting' = [waiting EXCEPT ![a] = 0]
    BY <1>8 DEF Remove
  <2> QED BY <1>1, <1>2, <2>1, RemovedFair
<1>9. ASSUME NEW a \in Accounts, Add(a)
      PROVE  FairFor(M, ring', configured', removals', waiting')
  <2>1. /\ configured' = configured \cup {a} /\ ring' = ReconcileRing(ring, configured \cup {a})
        /\ UNCHANGED <<removals, waiting>>
    BY <1>9 DEF Add
  <2> QED BY <1>1, <1>2, <2>1, AddedFair
<1>10. CASE UNCHANGED vars
  BY <1>1, <1>10 DEF vars
<1> QED BY <1>4, <1>5, <1>6, <1>7, <1>8, <1>9, <1>10 DEF Next

\* Who has waited has as many credits as draws, and nobody may have many.
LEMMA FairNobodyStarves == Size >= 2 /\ IInv /\ FairInv => NobodyStarves
<1> SUFFICES ASSUME Size >= 2, IInv, FairInv, NEW a \in Accounts
             PROVE  waiting[a] <= 2 * Size - 3 + 2 * removals
  BY DEF NobodyStarves, Size
<1>1. PICK M : Suits(M) /\ FairFor(M, ring, configured, removals, waiting)
  BY DEF FairInv
<1> DEFINE K == Scale(M)
           u == Tilted(M, ring)
           x == waiting[a]
<1>2. K \in Nat /\ K > 0 /\ Size \in Nat
  BY <1>1, TiltType
<1>3. x \in Nat /\ removals \in Nat /\ Level(K, u, K * removals)
      /\ K * x < u[a] + K * (Size - 1) + K * removals
  BY <1>1 DEF FairFor
<1>4. u \in [Accounts -> Int]
  BY <1>1, TiltedType DEF IInv
<1> HIDE DEF K, u, x
<1>5. K * removals \in Nat
  BY <1>2, <1>3
<1>6. u[a] < K * (Size - 1) + K * removals /\ u[a] \in Int
  BY <1>2, <1>3, <1>4, <1>5, SingleLevel
<1> DEFINE y == 2 * (Size - 1) + 2 * removals
<1>7. K * y = 2 * (K * (Size - 1)) + 2 * (K * removals) /\ y \in Int /\ K * y \in Int /\ K * x \in Int
      /\ K * (Size - 1) \in Int
  BY <1>2, <1>3
<1>8. K * x < K * y
  <2> HIDE DEF y
  <2> QED BY <1>3, <1>5, <1>6, <1>7
<1>9. x < y
  <2>1. (K - 1) + 1 = K /\ K - 1 \in Nat
    BY <1>2
  <2> DEFINE c == K - 1
  <2>2. c \in Nat /\ (c + 1) * x < (c + 1) * y
    BY <1>8, <2>1
  <2> HIDE DEF y, c
  <2> QED BY <1>3, <1>7, <2>2, Cancel
<1> QED BY <1>2, <1>3, <1>9 DEF x

\* In a ring of two accounts or more, whoever stays eligible waits for at most
\* 2n - 3 draws that move the ring on, and for two more after every removal,
\* however the eligible accounts change from draw to draw and whatever
\* retries, failures, selections, removals and additions come between.
THEOREM EverybodyHasATurn ==
    ASSUME Cardinality(Accounts) >= 2
    PROVE  Spec => []NobodyStarves
<1>0. Size >= 2
  BY DEF Size
<1>1. Init => IInv /\ FairInv
  BY <1>0, InitInv, InitFair
<1>2. IInv /\ FairInv /\ [Next]_vars => IInv' /\ FairInv'
  BY <1>0, StepInv, StepFair
<1>3. IInv /\ FairInv => NobodyStarves
  BY <1>0, FairNobodyStarves
<1> QED BY <1>1, <1>2, <1>3, PTL DEF Spec

=============================================================================
