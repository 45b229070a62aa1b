---------------------------- MODULE RotationRing ----------------------------
(***************************************************************************)
(* The pure half of src/src/codex/pool-rotation.ts: the priority tiers and *)
(* the smooth weighted round-robin ring, as operators on a ring record.    *)
(*                                                                         *)
(* The code works on lists of account ids.  Their order matters only where *)
(* a tie goes to the first of a list, so a list is a set here, and rank    *)
(* gives the order: rank[a] < rank[b] when a precedes b.                   *)
(***************************************************************************)
EXTENDS Integers, FiniteSets

NoAccount == "none"

NoWeights == [a \in {} |-> 0]

\* The ring of a pool key: absent from the map until a pick or a seed makes it.
NoRing ==
    [made |-> FALSE, active |-> NoAccount, successes |-> 0, weights |-> NoWeights]

Weight(ring, a) == IF a \in DOMAIN ring.weights THEN ring.weights[a] ELSE 0

\* The first of the members of S with the highest score.
Foremost(S, score, rank) ==
    CHOOSE a \in S : \A b \in S :
        score[a] > score[b] \/ (score[a] = score[b] /\ rank[a] <= rank[b])

-----------------------------------------------------------------------------
(* selectPriorityTier.                                                     *)

\* A pin that is present and has headroom lowers the ceiling to its own tier.
UnderCeiling(ids, priority, headroom, pin) ==
    IF pin \in ids /\ pin \in headroom
    THEN {a \in ids : priority[a] <= priority[pin]}
    ELSE ids

\* The accounts with headroom decide; the others of their tier come with them,
\* and with no headroom anywhere the list is returned as it is.
SelectPriorityTier(ids, priority, headroom, pin) ==
    LET Best(open) ==
            IF open = {} THEN ids
            ELSE {a \in ids : \E b \in open :
                     /\ priority[a] = priority[b]
                     /\ \A c \in open : priority[c] <= priority[b]}
    IN  Best(UnderCeiling(ids, priority, headroom, pin) \cap headroom)

-----------------------------------------------------------------------------
(* The ring.                                                               *)

\* One credit for everybody.
Scores(ring, ids) == [a \in ids |-> Weight(ring, a) + 1]

\* Mutant: the winner pays one credit, not one for everybody.
ChargedOne(ring, ids, winner) ==
    [a \in DOMAIN ring.weights \cup ids |->
        IF a = winner THEN Scores(ring, ids)[a] - 1
        ELSE IF a \in ids THEN Scores(ring, ids)[a] ELSE ring.weights[a]]

\* The winner pays for everybody's credit; who is not in ids keeps the weight.
Charged(ring, ids, winner) ==
    [a \in DOMAIN ring.weights \cup ids |->
        IF a = winner THEN Scores(ring, ids)[a] - Cardinality(ids)
        ELSE IF a \in ids THEN Scores(ring, ids)[a] ELSE ring.weights[a]]

Holds(ring, ids) == ring.active # NoAccount /\ ring.active \in ids

Picked(ring, ids, rank) ==
    IF ids = {} THEN NoAccount
    ELSE IF Holds(ring, ids) THEN ring.active
    ELSE Foremost(ids, Scores(ring, ids), rank)

\* Looking for an account makes the ring, even when there is nobody to pick.
AfterPick(ring, ids, limit, rank) ==
    IF ids = {} \/ Holds(ring, ids) THEN [ring EXCEPT !.made = TRUE]
    ELSE LET Won(winner) ==
                 [made |-> TRUE,
                  active |-> IF limit > 1 THEN winner ELSE NoAccount,
                  successes |-> 0,
                  weights |-> Charged(ring, ids, winner)]
         IN  Won(Picked(ring, ids, rank))

\* Mutant: the run is one longer than the limit.
SuccessBeyondLimit(ring, a, limit) ==
    LET run == IF ring.active = a THEN ring.successes + 1 ELSE 1
    IN  IF ~ring.made THEN ring
        ELSE IF run > limit
             THEN [ring EXCEPT !.active = NoAccount, !.successes = 0]
             ELSE [ring EXCEPT !.active = a, !.successes = run]

NoteSuccess(ring, a, limit) ==
    LET run == IF ring.active = a THEN ring.successes + 1 ELSE 1
    IN  IF ~ring.made THEN ring
        ELSE IF run >= limit
             THEN [ring EXCEPT !.active = NoAccount, !.successes = 0]
             ELSE [ring EXCEPT !.active = a, !.successes = run]

NoteFailure(ring, a) ==
    IF ring.active = a
    THEN [ring EXCEPT !.active = NoAccount, !.successes = 0] ELSE ring

Seeded(a) == [made |-> TRUE, active |-> a, successes |-> 0, weights |-> NoWeights]

\* The ring forgets who is not configured any more.
ReconcileRing(ring, valid) ==
    IF ~ring.made \/ valid = {} THEN NoRing
    ELSE LET gone == ring.active # NoAccount /\ ring.active \notin valid
         IN  [made |-> TRUE,
              active |-> IF gone THEN NoAccount ELSE ring.active,
              successes |-> IF gone THEN 0 ELSE ring.successes,
              weights |-> [a \in DOMAIN ring.weights \cap valid |-> ring.weights[a]]]

=============================================================================
