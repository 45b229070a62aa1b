---------------------------- MODULE PoolRotation ----------------------------
(***************************************************************************)
(* One round-robin ring of src/src/codex/pool-rotation.ts in use: new      *)
(* sessions and same-request retries draw from it, failures and manual     *)
(* selections move it, and removals reconcile it.  What is eligible is     *)
(* health, pauses and priority (CodexRouting); here it may be any set of   *)
(* configured accounts at every draw.                                      *)
(***************************************************************************)
EXTENDS RotationRing

CONSTANTS
    Accounts,
    Rank,            \* place of an account in the configuration
    StickyLimit,     \* config.accountPoolStickyLimit, 1..100
    MaxRemovals      \* bound on removals

ASSUME RotationAssumption ==
    /\ IsFiniteSet(Accounts)
    /\ NoAccount \notin Accounts
    /\ \A a \in Accounts : Rank[a] \in Nat
    /\ \A a, b \in Accounts : Rank[a] = Rank[b] => a = b
    /\ StickyLimit \in 1..100
    /\ MaxRemovals \in Nat

VARIABLES
    ring,
    configured,
    removals,
    waiting,         \* ghost: draws an account was eligible for since its last
    run,             \* ghost: new sessions in a row the ring gave one account
    share            \* ghost: what each got since the ring was last fresh

vars == <<ring, configured, removals, waiting, run, share>>

\* New sessions have drawn from a fresh ring, always among the same accounts.
Even(ids) == share.among \in {{}, ids}

\* Something else has touched the ring: what each gets is not comparable.
Uneven == [among |-> {NoAccount}, of |-> [a \in Accounts |-> 0]]

TypeOK ==
    /\ ring.made \in BOOLEAN
    /\ ring.active \in Accounts \cup {NoAccount}
    /\ ring.successes \in 0..(StickyLimit - 1)
    /\ DOMAIN ring.weights \subseteq Accounts
    /\ \A a \in DOMAIN ring.weights : ring.weights[a] \in Int
    /\ configured \subseteq Accounts
    /\ removals \in Nat

Init ==
    /\ ring = NoRing
    /\ configured = Accounts
    /\ removals = 0
    /\ waiting = [a \in Accounts |-> 0]
    /\ run = [account |-> NoAccount, length |-> 0]
    /\ share = [among |-> {}, of |-> [a \in Accounts |-> 0]]

\* The ring moves on only when it does not hold an account.
Waits(ids) ==
    waiting' = [a \in Accounts |->
        IF a \notin ids \/ a = Picked(ring, ids, Rank) THEN 0
        ELSE IF Holds(ring, ids) THEN waiting[a] ELSE waiting[a] + 1]

\* The lowest share is taken off, so that the ghost stays finite.
Shared(a, ids) ==
    LET got == [share.of EXCEPT ![a] = @ + 1]
        least == IF \A b \in ids : got[b] >= 1 THEN 1 ELSE 0
    IN  share' = [among |-> ids,
                  of |-> [b \in Accounts |-> IF b \in ids THEN got[b] - least ELSE 0]]

\* pickUnboundStrategyAccount: a new session draws, and notes its success.
Assign(ids) ==
    LET a == Picked(ring, ids, Rank)
    IN  /\ ids \subseteq configured /\ ids # {}
        /\ ring' = NoteSuccess(AfterPick(ring, ids, StickyLimit, Rank), a, StickyLimit)
        /\ Waits(ids)
        /\ run' = IF run.account = a /\ Holds(ring, ids)
                  THEN [run EXCEPT !.length = @ + 1]
                  ELSE [account |-> a, length |-> 1]
        /\ IF Even(ids) THEN Shared(a, ids) ELSE share' = Uneven
        /\ UNCHANGED <<configured, removals>>

\* pickAlternateCodexAccount: a retry draws too, but notes nothing.
Alternate(ids) ==
    /\ ids \subseteq configured /\ ids # {}
    /\ ring' = AfterPick(ring, ids, StickyLimit, Rank)
    /\ Waits(ids)
    /\ run' = IF Holds(ring, ids) THEN run ELSE [account |-> NoAccount, length |-> 0]
    /\ share' = Uneven
    /\ UNCHANGED <<configured, removals>>

Fail(a) ==
    /\ ring' = NoteFailure(ring, a)
    /\ share' = Uneven
    /\ UNCHANGED <<configured, removals, waiting, run>>

Select(a) ==
    /\ a \in configured
    /\ ring' = Seeded(a)
    /\ waiting' = [b \in Accounts |-> 0]
    /\ run' = [account |-> NoAccount, length |-> 0]
    /\ share' = Uneven
    /\ UNCHANGED <<configured, removals>>

Remove(a) ==
    /\ removals < MaxRemovals
    /\ a \in configured
    /\ removals' = removals + 1
    /\ configured' = configured \ {a}
    /\ ring' = ReconcileRing(ring, configured')
    /\ waiting' = [waiting EXCEPT ![a] = 0]
    /\ share' = Uneven
    /\ UNCHANGED run

Add(a) ==
    /\ a \notin configured
    /\ configured' = configured \cup {a}
    /\ ring' = ReconcileRing(ring, configured')
    /\ share' = Uneven
    /\ UNCHANGED <<removals, waiting, run>>

Next ==
    \/ \E ids \in SUBSET Accounts : Assign(ids) \/ Alternate(ids)
    \/ \E a \in Accounts : Fail(a) \/ Select(a) \/ Remove(a) \/ Add(a)

Spec == Init /\ [][Next]_vars

-----------------------------------------------------------------------------
(* Properties.                                                             *)

\* Whoever stays eligible, in a ring of two accounts or more, gets a turn soon,
\* however the others come and go, fail and are selected: the credits of
\* smoothWeightedIndex see to it.  They are not shared out again when an account
\* is removed, so that a newcomer may wait a little longer after every removal.
NobodyStarves ==
    LET n == Cardinality(Accounts)
    IN  \A a \in Accounts : waiting[a] <= 2 * n - 3 + 2 * removals

\* As long as new sessions draw from a fresh ring among the same accounts, none
\* of them gets ahead of another by more than one sticky run.
EvenShare ==
    \A a, b \in share.among \cap Accounts : share.of[a] - share.of[b] <= StickyLimit

\* The count of the ring is the run of its account: a retry or a selection that
\* moves it starts from nothing, whoever had it before.
RunInStep ==
    ring.active # NoAccount =>
        ring.successes = IF run.account = ring.active THEN run.length ELSE 0

\* accountPoolStickyLimit is the number of "task assignments retained on one
\* round-robin selection before advancing" (providers.md): the ring gives one
\* account no more new sessions in a row without weighing the others again,
\* whatever retries and failures come in between.
RunsEnd == run.length <= StickyLimit

=============================================================================
