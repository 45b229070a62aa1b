------------------------ MODULE CodexRouting_proofs ------------------------
(***************************************************************************)
(* What holds of the pool whatever its requests, its operator and its      *)
(* accounts do.                                                            *)
(*                                                                         *)
(* A routing action is a health action with a decision conjoined to it, or *)
(* leaves vars alone, so the theorems of CodexHealth hold of the pool as a *)
(* whole.  The decisions are functions of the pool record.  Each of them   *)
(* either steers (active account, pin, cursor, rings) or binds (affinity   *)
(* and ownership); what the steps of a resolution have in common composes  *)
(* (Onward), and so does what befalls one account (Befalls).  From these   *)
(* two every action is shown to be Orderly, which is what the invariants   *)
(* and the action properties of CodexRouting say of a step.                *)
(***************************************************************************)
EXTENDS CodexRouting, CodexHealth_proofs, RotationRing_proofs

-----------------------------------------------------------------------------
(* A retry asks for the scope of the request it retries, so that an attempt *)
(* in flight has to have a scope that a model of the configuration has; one *)
(* that is not in flight has none.                                          *)

ScopeInv ==
    \A r \in Requests :
        request[r].scope \in IF InFlight(r) THEN ModelScopes ELSE {"none"}

\* Only an admission gives a request a scope, and coming to rest takes it away.
LEMMA ScopeStep == TypeOK /\ ScopeInv /\ [Next]_vars => ScopeInv'
<1> SUFFICES ASSUME TypeOK, ScopeInv, [Next]_vars PROVE ScopeInv'
  OBVIOUS
<1> USE DEF ScopeInv, InFlight
<1>1. ASSUME NEW r \in Requests, RequestNext(r) PROVE ScopeInv'
  <2>1. ASSUME NEW a \in Accounts, NEW scope \in ModelScopes,
               Admit(r, a, scope) \/ AdmitProbe(r, a, scope)
        PROVE  ScopeInv'
    <3>1. PICK slot : Admitted(r, a, scope, slot)
      BY <2>1 DEF Admit, AdmitProbe
    <3>2. /\ request'[r].scope = scope /\ request'[r].state = "auth"
          /\ \A q \in Requests : q # r => request'[q] = request[q]
      BY <3>1 DEF Admitted, TypeOK
    <3> QED BY <3>2
  <2>2. CASE \E checked \in BOOLEAN : TokenReady(r, checked)
    <3>1. /\ request[r].state = "auth" /\ request'[r].scope = request[r].scope
          /\ request'[r].state = "sent"
          /\ \A q \in Requests : q # r => request'[q] = request[q]
      BY <2>2 DEF TokenReady, TypeOK
    <3>2. request[r].scope \in ModelScopes
      BY <3>1
    <3> QED BY <3>1, <3>2
  <2>3. CASE Done(r) \/ \E state \in {"abandoned", "idle"} :
               request' = [request EXCEPT ![r] = Resting(state)]
    <3>1. PICK state \in {"done", "abandoned", "idle"} :
            request' = [request EXCEPT ![r] = Resting(state)]
      BY <2>3 DEF Done
    <3>2. /\ request'[r].scope = "none" /\ request'[r].state \notin {"auth", "sent"}
          /\ \A q \in Requests : q # r => request'[q] = request[q]
      BY <3>1 DEF Resting, TypeOK
    <3> QED BY <3>2
  <2>4. CASE \/ TokenRejected(r) \/ Abandon(r) \/ Recycle(r) \/ Dropped(r)
             \/ \E fatal \in BOOLEAN : TokenFailed(r, fatal)
    BY <2>3, <2>4 DEF TokenRejected, Abandon, Recycle, Dropped, TokenFailed
  <2>5. CASE \/ Success(r) \/ Neutral(r) \/ Credential(r) \/ Transient(r)
             \/ \E q \in QuotaHints(r) : Quota(r, q[1], q[2])
    <3>1. Done(r)
      BY <2>5 DEF Success, Neutral, Credential, Transient, Quota, Records
    <3> QED BY <2>3, <3>1
  <2> QED BY <1>1, <2>1, <2>2, <2>4, <2>5 DEF RequestNext
<1>2. CASE WorkerNext
  BY <1>2 DEF WorkerNext, ClaimRecoveryProbes, Settle
<1>3. CASE OperatorNext
  BY <1>3 DEF OperatorNext, ClearCooldown, SelectManually, RefreshCredential, Reauthenticate,
              RemoveAccount, AddAccount, Reconcile, SwitchMainIdentity
<1>4. CASE Restart
  BY <1>4 DEF Restart, Resting
<1>5. CASE Tick \/ UNCHANGED vars
  BY <1>5 DEF Tick, vars
<1> QED BY <1>1, <1>2, <1>3, <1>4, <1>5 DEF Next

-----------------------------------------------------------------------------
(* Each routing action is a health action, or none.                        *)

\* What the pool decides for a request is a step of that request.
LEMMA RoutedStep == ASSUME TypeOK, ScopeInv, RequestRouting PROVE [Next]_vars
<1>1. configured \subseteq Accounts
  BY DEF TypeOK
<1>2. ASSUME NEW r \in Requests, NEW a, NEW scope \in ModelScopes,
             Admit(r, a, scope) \/ AdmitProbe(r, a, scope)
      PROVE  Next
  <2>1. a \in Accounts
    BY <1>1, <1>2 DEF Admit, AdmitProbe
  <2> QED BY <1>2, <2>1 DEF Next, RequestNext
<1>3. ASSUME NEW r \in Requests, NEW t, NEW scope \in ModelScopes, AdmitThread(r, t, scope)
      PROVE  Next
  BY <1>2, <1>3 DEF AdmitThread
<1>4. ASSUME NEW t, NEW scope, Refuse(t, scope) PROVE UNCHANGED vars
  BY <1>4 DEF Refuse
<1>5. ASSUME NEW r \in Requests, NEW a, NEW scope \in ModelScopes, AdmitFixed(r, a, scope)
      PROVE  Next
  BY <1>2, <1>5 DEF AdmitFixed
<1>6. ASSUME NEW q \in Requests, NEW r \in Requests, Retry(q, r) PROVE Next
  <2>1. request[r].scope \in ModelScopes
    BY <1>6 DEF Retry, ScopeInv, InFlight
  <2>2. PICK a : Admit(q, a, request[r].scope) \/ AdmitProbe(q, a, request[r].scope)
    BY <1>6 DEF Retry
  <2> QED BY <1>2, <2>1, <2>2
<1>7. ASSUME NEW r \in Requests, Authenticate(r) PROVE Next
  BY <1>7 DEF Authenticate, Next, RequestNext
<1>8. ASSUME NEW r \in Requests, Outcome(r) PROVE Next
  <2>1. \/ Neutral(r) \/ Dropped(r) \/ Abandon(r) \/ Success(r) \/ Credential(r)
        \/ Transient(r)
        \/ \E q \in QuotaHints(r) : Quota(r, q[1], q[2])
    BY <1>8 DEF Outcome
  <2> QED BY <2>1 DEF Next, RequestNext
<1>9. ASSUME NEW r \in Requests, Reuse(r) PROVE Next
  BY <1>9 DEF Reuse, Next, RequestNext
<1> QED BY <1>3, <1>4, <1>5, <1>6, <1>7, <1>8, <1>9 DEF RequestRouting

\* So is what the operator does to the pool, or it leaves health alone.
LEMMA OperatedStep == ASSUME OperatorRouting PROVE [Next]_vars
<1>1. ASSUME NEW a \in Accounts, Pause(a) \/ Unpause(a) \/ Select(a) PROVE [Next]_vars
  BY <1>1 DEF Pause, Unpause, Select, Next, OperatorNext
<1>2. ASSUME NEW a \in Accounts, NEW n, SetPriority(a, n) \/ ReportUsage(a, n)
      PROVE  UNCHANGED vars
  BY <1>2 DEF SetPriority, ReportUsage
<1>3. ASSUME NEW s, SetStrategy(s) PROVE UNCHANGED vars
  BY <1>3 DEF SetStrategy
<1>4. ASSUME NEW a \in Accounts, NEW ok \in BOOLEAN, Remove(a, ok) \/ Add(a, ok)
      PROVE  Next
  BY <1>4 DEF Remove, Add, Next, OperatorNext
<1>5. ASSUME NEW ok \in BOOLEAN, ReconcileStores(ok) PROVE Next
  BY <1>5 DEF ReconcileStores, Next, OperatorNext
<1>6. CASE SwitchMain
  BY <1>6 DEF SwitchMain, Next, OperatorNext
<1> QED BY <1>1, <1>2, <1>3, <1>4, <1>5, <1>6 DEF OperatorRouting

\* What is not about routing is a step of CodexHealth as it stands.
LEMMA ElsewhereStep == ASSUME TypeOK, paused \subseteq Accounts, Elsewhere PROVE Next
<1>1. CASE \E a \in Accounts : \/ ClearCooldown(a) \/ RefreshCredential(a)
                               \/ Reauthenticate(a)
  BY <1>1 DEF Next, OperatorNext
<1>2. CASE \E batch \in SUBSET Accounts : ClaimRecoveryProbes(batch, paused)
  BY <1>2 DEF Next, WorkerNext
<1>3. CASE \E a \in Accounts, recovered \in BOOLEAN :
             \E proof \in claim[a].credential .. credential[a].generation :
                Settle(a, recovered, proof)
  BY <1>3 DEF Next, WorkerNext
<1>4. CASE Tick
  BY <1>4 DEF Next
<1> QED BY <1>1, <1>2, <1>3, <1>4 DEF Elsewhere

-----------------------------------------------------------------------------
(* The types of the pool and of what the selection reads.                  *)

Ids == Accounts \cup {NoAccount}

Bindings == [account : Ids, login : Nat, usedAt : Nat, checkedAt : Nat]

Ownerships == [account : Ids, login : Nat, at : Nat]

Pools ==
    [active : Ids, pin : Ids, cursor : Ids, saved : [active : Ids, pin : Ids],
     ring : [Scopes -> Rings(Accounts, StickyLimit)],
     affinity : [Threads -> [AffinityScopes -> Bindings]],
     owned : [Threads -> [AffinityScopes -> Ownerships]]]

\* What the functions of the selection read besides the pool.
Settled ==
    /\ TypeOK
    /\ paused \subseteq configured
    /\ priority \in [Accounts -> Int]
    /\ rank \in [Accounts -> Int]
    /\ usage \in [Accounts -> Int]

\* The rings of the pool are rings over its accounts.
LEMMA RingOfRouting == RingFor(Accounts, StickyLimit)
  BY RoutingAssumption DEF RingFor

\* A binding exists for every scope that a request may have.
LEMMA ScopesOfRouting == ModelScopes \subseteq AffinityScopes
  BY HealthAssumption DEF AffinityScopes, Scopes

-----------------------------------------------------------------------------
(* Who is chosen: every choice is an account that can serve, or there is    *)
(* none.                                                                   *)

Serving(scope) == {a \in Accounts : Selectable(a, scope)}

\* A choice among ids finds one of them, unless there is nobody.
Chosen(a, ids) == IF ids = {} THEN a = NoAccount ELSE a \in ids

\* Who can serve is configured and not paused.
LEMMA ServingIsOpen ==
    ASSUME NEW scope PROVE Serving(scope) \subseteq configured \ paused
  BY DEF Serving, Selectable, Usable

\* The eligible accounts can serve, and some are eligible when any other can.
LEMMA EligibleServes ==
    ASSUME Settled, NEW p, NEW scope, NEW excluded
    PROVE  /\ Eligible(p, scope, excluded) \subseteq Serving(scope) \ {excluded}
           /\ Eligible(p, scope, excluded) = {} => Serving(scope) \ {excluded} = {}
  <1> DEFINE ids == {a \in Accounts \ {excluded} : Selectable(a, scope)}
  <1>1. ids = Serving(scope) \ {excluded} /\ ids \subseteq Accounts
    BY DEF Serving
  <1>2. IsFiniteSet(ids)
    BY <1>1, FS_Subset, RoutingAssumption
  <1>3. \A a \in ids : priority[a] \in Int
    BY <1>1 DEF Settled
  <1> HIDE DEF ids
  <1>4. /\ SelectPriorityTier(ids, priority, Headroom, p.pin) \subseteq ids
        /\ SelectPriorityTier(ids, priority, Headroom, p.pin) = {} => ids = {}
    BY <1>2, <1>3, TierIsServed
  <1>5. Eligible(p, scope, excluded) = SelectPriorityTier(ids, priority, Headroom, p.pin)
    BY DEF Eligible, ids
  <1> QED BY <1>1, <1>4, <1>5

\* The account with the lowest usage is one of those compared.
LEMMA LowestIsChosen ==
    ASSUME Settled, NEW ids \in SUBSET Accounts
    PROVE  Chosen(LowestUsage(ids), ids)
  <1>1. CASE ids = {}
    BY <1>1 DEF Chosen, LowestUsage
  <1>2. CASE ids # {}
    <2> DEFINE score == [a \in ids |-> -usage[a]]
    <2>1. \A a \in ids : score[a] \in Int /\ rank[a] \in Int
      BY DEF Settled
    <2>2. IsFiniteSet(ids)
      BY FS_Subset, RoutingAssumption
    <2> HIDE DEF score
    <2>3. Foremost(ids, score, rank) \in ids
      BY <1>2, <2>1, <2>2, ForemostIsBest
    <2> QED BY <1>2, <2>3 DEF Chosen, LowestUsage, score
  <1> QED BY <1>1, <1>2

\* The next account in the alphabetical cycle is one of the candidates.
LEMMA NextIsChosen ==
    ASSUME Settled, NEW after, NEW ids \in SUBSET Accounts
    PROVE  Chosen(NextInOrder(after, ids), ids)
  <1>1. CASE ids = {}
    BY <1>1 DEF Chosen, NextInOrder
  <1>2. CASE ids # {}
    <2> DEFINE open == IF ids \cap Headroom # {} THEN ids \cap Headroom ELSE ids
               score == [a \in open |-> -Distance(after, a)]
    <2>1. open \subseteq ids /\ open # {}
      BY <1>2
    <2>2. \A a \in open : Distance(after, a) \in Int
      <3>1. \A a \in Accounts : Alphabet[a] \in Int
        BY RoutingAssumption
      <3>2. Cardinality(Accounts) \in Nat
        BY RoutingAssumption, FS_CardinalityType
      <3> QED BY <2>1, <3>1, <3>2 DEF Distance, Settled, TypeOK
    <2>3. NextInOrder(after, ids) =
            CHOOSE a \in open : \A b \in open : Distance(after, a) <= Distance(after, b)
      BY <1>2 DEF NextInOrder
    <2> HIDE DEF open
    <2>4. \A a \in open : score[a] \in Int /\ rank[a] \in Int
      BY <2>1, <2>2 DEF Settled
    <2>5. IsFiniteSet(open)
      BY <2>1, FS_Subset, RoutingAssumption
    <2>6. PICK x \in open : \A b \in open : score[x] >= score[b]
      <3> HIDE DEF score
      <3>1. Foremost(open, score, rank) \in open
            /\ \A b \in open : score[Foremost(open, score, rank)] >= score[b]
        BY <2>1, <2>4, <2>5, ForemostIsBest
      <3> QED BY <3>1
    <2>7. \A b \in open : Distance(after, x) <= Distance(after, b)
      BY <2>2, <2>6
    <2>8. NextInOrder(after, ids) \in open
      <3> HIDE DEF score
      <3> QED BY <2>3, <2>7
    <2> QED BY <1>2, <2>1, <2>8 DEF Chosen
  <1> QED BY <1>1, <1>2

\* The ring picks a candidate and remains a ring.
LEMMA PickIsChosen ==
    ASSUME Settled, NEW p \in Pools, NEW scope, NEW ids \in SUBSET Accounts
    PROVE  /\ Chosen(Picked(p.ring[RingKey(scope)], ids, rank), ids)
           /\ AfterPick(p.ring[RingKey(scope)], ids, StickyLimit, rank)
                \in Rings(Accounts, StickyLimit)
  <1>1. p.ring[RingKey(scope)] \in Rings(Accounts, StickyLimit)
    BY DEF Pools, RingKey, Scopes
  <1>2. \A a \in ids : rank[a] \in Int
    BY DEF Settled
  <1>3. CASE ids = {}
    BY <1>1, <1>2, <1>3, RingOfRouting, AfterAnyPickType DEF Chosen, Picked
  <1>4. CASE ids # {}
    BY <1>1, <1>2, <1>4, RingOfRouting, AfterAnyPickType, PickedIsEligible DEF Chosen
  <1> QED BY <1>3, <1>4

\* Fill-first keeps the active account or finds the next eligible one.
LEMMA FillFirstIsChosen ==
    ASSUME Settled, NEW p, NEW scope
    PROVE  Chosen(FillFirst(p, scope), Eligible(p, scope, NoAccount))
  <1> DEFINE ids == Eligible(p, scope, NoAccount)
  <1>1. ids \in SUBSET Accounts
    BY EligibleServes DEF Serving
  <1>2. FillFirst(p, scope) = IF Active(p) \in ids \cap Headroom THEN Active(p)
                              ELSE NextInOrder(Active(p), ids)
    BY DEF FillFirst
  <1> HIDE DEF ids
  <1>3. Chosen(NextInOrder(Active(p), ids), ids)
    BY <1>1, NextIsChosen
  <1>4. Chosen(FillFirst(p, scope), ids)
    BY <1>2, <1>3 DEF Chosen
  <1> QED BY <1>4 DEF ids

\* Whoever preempts the active account can serve.
LEMMA PreemptionServes ==
    ASSUME Settled, NEW p, NEW active, NEW scope
    PROVE  Preemption(p, active, scope) \in Serving(scope) \cup {NoAccount}
  <1> DEFINE ids == Eligible(p, scope, NoAccount)
  <1>1. ids \subseteq Serving(scope) /\ ids \cap Headroom \in SUBSET Accounts
    BY EligibleServes DEF Serving
  <1>2. Preemption(p, active, scope) \in {NoAccount, LowestUsage(ids \cap Headroom)}
    BY DEF Preemption
  <1> HIDE DEF ids
  <1>3. Chosen(LowestUsage(ids \cap Headroom), ids \cap Headroom)
    BY <1>1, LowestIsChosen
  <1> QED BY <1>1, <1>2, <1>3 DEF Chosen

\* The lowest usage is found among all that can serve but the excluded one.
LEMMA LowestServes ==
    ASSUME Settled, NEW p, NEW scope, NEW excluded
    PROVE  Chosen(LowestUsage(Eligible(p, scope, excluded)), Serving(scope) \ {excluded})
  <1> DEFINE ids == Eligible(p, scope, excluded)
  <1>1. ids \subseteq Serving(scope) \ {excluded} /\ ids \in SUBSET Accounts
        /\ (ids = {} => Serving(scope) \ {excluded} = {})
    BY EligibleServes DEF Serving
  <1> HIDE DEF ids
  <1>2. Chosen(LowestUsage(ids), ids)
    BY <1>1, LowestIsChosen
  <1>3. Chosen(LowestUsage(ids), Serving(scope) \ {excluded})
    BY <1>1, <1>2 DEF Chosen
  <1> QED BY <1>3 DEF ids

-----------------------------------------------------------------------------
(* Steering: what the selection does to the active account, the cursor, the *)
(* pin and the rings.  It leaves the bindings alone, and the saved selection *)
(* remains the one in force.                                                *)

InSync(p) == p.saved.active = p.active

Steers(p, q) ==
    /\ q \in Pools
    /\ q.affinity = p.affinity /\ q.owned = p.owned
    /\ InSync(p) => InSync(q)

\* Nothing of the shared group is moved.
Contained(p, q) ==
    /\ q.active = p.active /\ q.pin = p.pin /\ q.cursor = p.cursor /\ q.saved = p.saved
    /\ q.ring["shared"] = p.ring["shared"]

SteersIn(p, q, scope) == Steers(p, q) /\ (Independent(scope) => Contained(p, q))

\* The selection that was saved is not replaced.
Stays(p, q) == q.saved.active = p.saved.active

\* Steps that steer compose.
LEMMA SteersOn ==
    ASSUME NEW p, NEW q, NEW r, NEW scope, SteersIn(p, q, scope), SteersIn(q, r, scope)
    PROVE  SteersIn(p, r, scope)
  BY DEF SteersIn, Steers, Contained

\* Leaving the pool alone steers.
LEMMA SteersNot == ASSUME NEW p \in Pools, NEW scope PROVE SteersIn(p, p, scope)
  BY DEF SteersIn, Steers, Contained

\* Moved keeps an independent scope out of the shared group.
LEMMA SteersWhereMoved ==
    ASSUME NEW p \in Pools, NEW q, NEW scope, Steers(p, q)
    PROVE  SteersIn(p, Moved(p, scope, q), scope)
  BY SteersNot DEF Moved, SteersIn

\* A write of the configuration saves the selection in force.
LEMMA SavedSteers ==
    ASSUME NEW p \in Pools
    PROVE  Steers(p, Saved(p)) /\ InSync(Saved(p))
  BY DEF Saved, Steers, InSync, Pools

\* Ending a pin leaves the selection as it is, in memory and on disk.
LEMMA PinSteers ==
    ASSUME NEW p \in Pools, NEW a
    PROVE  /\ Steers(p, PinReleasedFor(p, a)) /\ Stays(p, PinReleasedFor(p, a))
           /\ PinReleasedFor(p, a).active = p.active
  BY DEF PinReleasedFor, Steers, InSync, Stays, Pools, Ids

\* The cursor is in memory alone.
LEMMA RememberSteers ==
    ASSUME NEW p \in Pools, NEW a \in Ids
    PROVE  Steers(p, RememberActive(p, a)) /\ Stays(p, RememberActive(p, a))
  BY DEF RememberActive, Steers, InSync, Stays, Pools, Ids

\* Setting the active account saves it, or finds it saved.
LEMMA SetActiveSteers ==
    ASSUME NEW p \in Pools, NEW a \in Ids
    PROVE  Steers(p, SetActive(p, a))
  <1> DEFINE free == [p EXCEPT !.cursor = NoAccount]
             released == PinReleasedFor(free, a)
             moved == [released EXCEPT !.active = a]
  <1>1. free \in Pools /\ Steers(p, free)
    BY DEF Steers, InSync, Pools, Ids
  <1> HIDE DEF free
  <1>2. released \in Pools /\ Steers(p, released)
    BY <1>1, PinSteers DEF Steers
  <1> HIDE DEF released
  <1>3. moved \in Pools /\ moved.affinity = p.affinity /\ moved.owned = p.owned
    BY <1>2 DEF Pools, Steers
  <1> HIDE DEF moved
  <1>4. Steers(p, Saved(moved))
    BY <1>3, SavedSteers DEF Steers
  <1>5. SetActive(p, a) \in {released, Saved(moved)}
    BY DEF SetActive, free, released, moved
  <1> QED BY <1>2, <1>4, <1>5

\* A promotion saves under the quota strategy and under no other.
LEMMA PromoteSteers ==
    ASSUME NEW p \in Pools, NEW a \in Ids
    PROVE  /\ Steers(p, Promote(p, a))
           /\ strategy # "quota" => Stays(p, Promote(p, a))
  <1>1. CASE strategy = "quota"
    BY <1>1, SetActiveSteers DEF Promote
  <1>2. CASE strategy # "quota"
    <2> DEFINE released == PinReleasedFor(p, a)
    <2>1. released \in Pools /\ Steers(p, released) /\ Stays(p, released)
      BY PinSteers DEF Steers
    <2>2. Promote(p, a) = RememberActive(released, a)
      BY <1>2 DEF Promote
    <2> HIDE DEF released
    <2>3. Steers(released, Promote(p, a)) /\ Stays(released, Promote(p, a))
      BY <2>1, <2>2, RememberSteers
    <2> QED BY <2>1, <2>3 DEF Steers, Stays
  <1> QED BY <1>1, <1>2

\* The pin of a drained account ends without another selection.
LEMMA DrainedSteers ==
    ASSUME NEW p \in Pools
    PROVE  /\ Steers(p, DrainedPinReleased(p))
           /\ InSync(p) => Stays(p, DrainedPinReleased(p))
  <1> DEFINE free == [p EXCEPT !.pin = NoAccount]
  <1>1. free \in Pools /\ Steers(p, free) /\ free.active = p.active
    BY DEF Steers, InSync, Pools, Ids
  <1>2. DrainedPinReleased(p) \in {p, Saved(free)}
    BY DEF DrainedPinReleased
  <1> HIDE DEF free
  <1>3. Steers(p, Saved(free)) /\ Saved(free).saved.active = p.active
    BY <1>1, SavedSteers DEF Steers, Saved, Pools
  <1>4. Steers(p, p)
    BY DEF Steers
  <1> QED BY <1>2, <1>3, <1>4 DEF Stays, InSync

\* A scope that is independent turns its own ring.
LEMMA RingSteers ==
    ASSUME NEW p \in Pools, NEW scope, NEW r \in Rings(Accounts, StickyLimit)
    PROVE  LET q == [p EXCEPT !.ring[RingKey(scope)] = r]
           IN  SteersIn(p, q, scope) /\ Stays(p, q)
  <1> DEFINE key == RingKey(scope)
             q == [p EXCEPT !.ring[key] = r]
  <1>1. key \in Scopes /\ (Independent(scope) => key = "spark")
    BY DEF RingKey, Scopes
  <1> HIDE DEF key
  <1>2. q \in Pools
    BY <1>1 DEF Pools
  <1>3. Independent(scope) => q.ring["shared"] = p.ring["shared"]
    BY <1>1 DEF Pools
  <1>4. /\ q.affinity = p.affinity /\ q.owned = p.owned /\ q.active = p.active
        /\ q.pin = p.pin /\ q.cursor = p.cursor /\ q.saved = p.saved
    BY DEF Pools
  <1>5. SteersIn(p, q, scope) /\ Stays(p, q)
    BY <1>2, <1>3, <1>4 DEF SteersIn, Steers, InSync, Contained, Stays
  <1> QED BY <1>5 DEF key

\* So does a pick of the ring.
LEMMA RingPickedSteers ==
    ASSUME Settled, NEW p \in Pools, NEW scope, NEW ids \in SUBSET Accounts
    PROVE  SteersIn(p, RingPicked(p, scope, ids), scope) /\ Stays(p, RingPicked(p, scope, ids))
  <1>1. RingPicked(p, scope, ids) =
          [p EXCEPT !.ring[RingKey(scope)] =
             AfterPick(p.ring[RingKey(scope)], ids, StickyLimit, rank)]
    BY DEF RingPicked, Pools
  <1> QED BY <1>1, PickIsChosen, RingSteers

-----------------------------------------------------------------------------
(* The decisions, one after the other: from a choice to the next.          *)

Advances(c, d, scope) ==
    /\ SteersIn(c.pool, d.pool, scope)
    /\ c.account \in Serving(scope) => d.account \in Serving(scope)

\* The alternate is another account that can serve, or none; finding it saves nothing.
LEMMA AlternateAdvances ==
    ASSUME Settled, strategy \in Strategies, NEW p \in Pools, NEW a, NEW scope
    PROVE  LET other == Alternate(p, a, scope)
           IN  /\ other.account \in (Serving(scope) \ {a}) \cup {NoAccount}
               /\ SteersIn(p, other.pool, scope) /\ Stays(p, other.pool)
  <1> DEFINE ids == Eligible(p, scope, a)
             other == Alternate(p, a, scope)
  <1>1. ids \subseteq Serving(scope) \ {a} /\ ids \in SUBSET Accounts
    BY EligibleServes DEF Serving
  <1>2. CASE strategy = "round-robin"
    <2>1. other = Choice(Picked(p.ring[RingKey(scope)], ids, rank), RingPicked(p, scope, ids))
      BY <1>2 DEF Alternate
    <2> HIDE DEF ids
    <2>2. Chosen(Picked(p.ring[RingKey(scope)], ids, rank), ids)
          /\ SteersIn(p, RingPicked(p, scope, ids), scope)
          /\ Stays(p, RingPicked(p, scope, ids))
      BY <1>1, PickIsChosen, RingPickedSteers
    <2>3. other.account = Picked(p.ring[RingKey(scope)], ids, rank)
          /\ other.pool = RingPicked(p, scope, ids)
      BY <2>1 DEF Choice
    <2> QED BY <1>1, <2>2, <2>3 DEF Chosen
  <1>3. CASE strategy # "round-robin"
    <2>1. other = Choice(IF strategy = "fill-first" THEN NextInOrder(a, ids)
                         ELSE LowestUsage(ids), p)
      BY <1>3 DEF Alternate
    <2> HIDE DEF ids
    <2>2. Chosen(NextInOrder(a, ids), ids) /\ Chosen(LowestUsage(ids), ids)
      BY <1>1, NextIsChosen, LowestIsChosen
    <2>3. other.account \in {NextInOrder(a, ids), LowestUsage(ids)} /\ other.pool = p
      BY <2>1 DEF Choice
    <2>4. SteersIn(p, p, scope) /\ Stays(p, p)
      BY SteersNot DEF Stays
    <2> QED BY <1>1, <2>2, <2>3, <2>4 DEF Chosen
  <1> QED BY <1>2, <1>3

\* A preemption goes on with an account that can serve.
LEMMA PreemptedAdvances ==
    ASSUME Settled, NEW c, c.pool \in Pools, NEW scope
    PROVE  Advances(c, Preempted(c, scope), scope)
  <1> DEFINE a == Preemption(c.pool, c.account, scope)
             q == RememberActive(c.pool, a)
  <1>1. a \in Serving(scope) \cup {NoAccount}
    BY PreemptionServes
  <1>2. Preempted(c, scope) = IF a = NoAccount THEN c ELSE Choice(a, Moved(c.pool, scope, q))
    BY DEF Preempted
  <1> HIDE DEF a
  <1>3. SteersIn(c.pool, Moved(c.pool, scope, q), scope) /\ SteersIn(c.pool, c.pool, scope)
    BY <1>1, RememberSteers, SteersWhereMoved, SteersNot DEF Serving, Ids
  <1> HIDE DEF q
  <1> QED BY <1>1, <1>2, <1>3 DEF Advances, Choice

\* Whoever has a lower usage than the active account can serve.
LEMMA LowerServes ==
    ASSUME Settled, NEW p, NEW active, NEW scope
    PROVE  LowerUsage(p, active, scope) \in Serving(scope) \cup {active}
  <1> DEFINE best == LowestUsage(Eligible(p, scope, active))
  <1>1. Chosen(best, Serving(scope) \ {active})
    BY LowestServes
  <1>2. \/ LowerUsage(p, active, scope) = active
        \/ best # NoAccount /\ LowerUsage(p, active, scope) = best
    BY DEF LowerUsage
  <1> HIDE DEF best
  <1> QED BY <1>1, <1>2 DEF Chosen

\* A switch for usage goes on with an account that can serve.
LEMMA AutoSwitchedAdvances ==
    ASSUME Settled, NEW c, c.pool \in Pools, NEW scope
    PROVE  Advances(c, AutoSwitched(c, scope), scope)
  <1> DEFINE best == LowerUsage(c.pool, c.account, scope)
             q == SetActive(c.pool, best)
  <1>1. best \in Serving(scope) \cup {c.account}
    BY LowerServes
  <1>2. \/ AutoSwitched(c, scope) = c
        \/ best # c.account /\ AutoSwitched(c, scope) = Choice(best, Moved(c.pool, scope, q))
    BY DEF AutoSwitched
  <1> HIDE DEF best
  <1>3. SteersIn(c.pool, c.pool, scope)
    BY SteersNot
  <1>4. CASE best # c.account
    <2>1. best \in Serving(scope) /\ best \in Ids
      BY <1>1, <1>4 DEF Serving, Ids
    <2>2. SteersIn(c.pool, Moved(c.pool, scope, q), scope)
      BY <2>1, SetActiveSteers, SteersWhereMoved
    <2> HIDE DEF q
    <2> QED BY <1>2, <1>3, <2>1, <2>2 DEF Advances, Choice
  <1> QED BY <1>2, <1>3, <1>4 DEF Advances

\* So does a failover, which only the quota strategy saves.
LEMMA FailedOverAdvances ==
    ASSUME Settled, strategy \in Strategies, NEW c, c.pool \in Pools, NEW scope, NEW tripped
    PROVE  /\ Advances(c, FailedOver(c, scope, tripped), scope)
           /\ strategy # "quota" => Stays(c.pool, FailedOver(c, scope, tripped).pool)
  <1> DEFINE other == Alternate(c.pool, c.account, scope)
             q == Promote(other.pool, other.account)
             d == FailedOver(c, scope, tripped)
  <1>1. /\ other.account \in Serving(scope) \cup {NoAccount}
        /\ SteersIn(c.pool, other.pool, scope) /\ Stays(c.pool, other.pool)
    BY AlternateAdvances
  <1>2. \/ d = c
        \/ other.account = NoAccount /\ d = Choice(c.account, other.pool)
        \/ /\ other.account # NoAccount
           /\ d = Choice(other.account, Moved(other.pool, scope, q))
    BY DEF FailedOver
  <1> HIDE DEF other, d
  <1>3. CASE d = c
    BY <1>3, SteersNot DEF Advances, Stays, d
  <1>4. CASE other.account = NoAccount /\ d = Choice(c.account, other.pool)
    BY <1>1, <1>4 DEF Advances, Choice, d
  <1>5. CASE other.account # NoAccount
             /\ d = Choice(other.account, Moved(other.pool, scope, q))
    <2>1. other.pool \in Pools /\ other.account \in Serving(scope) /\ other.account \in Ids
      BY <1>1, <1>5 DEF SteersIn, Steers, Serving, Ids
    <2>2. Steers(other.pool, q) /\ (strategy # "quota" => Stays(other.pool, q))
      BY <2>1, PromoteSteers
    <2>3. SteersIn(other.pool, Moved(other.pool, scope, q), scope)
          /\ (strategy # "quota" => Stays(other.pool, Moved(other.pool, scope, q)))
      BY <2>1, <2>2, SteersWhereMoved DEF Moved, Stays
    <2>4. SteersIn(c.pool, Moved(other.pool, scope, q), scope)
      BY <1>1, <2>3, SteersOn
    <2>5. d.account = other.account /\ d.pool = Moved(other.pool, scope, q)
      BY <1>5 DEF Choice
    <2> HIDE DEF q
    <2>6. Advances(c, d, scope) /\ (strategy # "quota" => Stays(c.pool, d.pool))
      BY <1>1, <2>1, <2>3, <2>4, <2>5 DEF Advances, Stays
    <2> QED BY <2>6 DEF d
  <1> QED BY <1>2, <1>3, <1>4, <1>5

\* Advances compose.
LEMMA AdvancesOn ==
    ASSUME NEW c, NEW d, NEW e, NEW scope, Advances(c, d, scope), Advances(d, e, scope)
    PROVE  Advances(c, e, scope)
  BY SteersOn DEF Advances

\* All improvements together go from an account that can serve to another.
LEMMA ImprovedAdvances ==
    ASSUME Settled, strategy \in Strategies, NEW c, c.pool \in Pools, NEW scope
    PROVE  Advances(c, Improved(c, scope), scope)
  <1> DEFINE d == Preempted(c, scope)
             e == AutoSwitched(d, scope)
  <1>1. Advances(c, d, scope)
    BY PreemptedAdvances
  <1>2. d.pool \in Pools
    BY <1>1 DEF Advances, SteersIn, Steers
  <1> HIDE DEF d
  <1>3. Advances(d, e, scope)
    BY <1>2, AutoSwitchedAdvances
  <1>4. e.pool \in Pools
    BY <1>3 DEF Advances, SteersIn, Steers
  <1>5. Improved(c, scope) = FailedOver(e, scope, ShouldFailover(e.account))
    BY DEF Improved, Tripping, d, e
  <1> HIDE DEF e
  <1>6. Advances(e, Improved(c, scope), scope)
    BY <1>4, <1>5, FailedOverAdvances
  <1> QED BY <1>1, <1>3, <1>6, AdvancesOn

\* Who starts: the active account, or where there is none the best that can
\* serve; and who replaces it when it cannot serve.
LEMMA StartedSteers ==
    ASSUME Settled, NEW p \in Pools, NEW scope
    PROVE  LET c == Started(p, scope)
           IN  /\ c.account \in Ids
               /\ SteersIn(p, c.pool, scope)
               /\ Serving(scope) = {} => c.pool = p
  <1> DEFINE a == LowestUsage(Eligible(p, scope, NoAccount))
             q == SetActive(p, a)
             c == Started(p, scope)
  <1>1. Chosen(a, Serving(scope) \ {NoAccount})
    BY LowestServes
  <1>2. \/ c = Choice(Active(p), p)
        \/ c = Choice(NoAccount, p)
        \/ a # NoAccount /\ c = Choice(a, Moved(p, scope, q))
    BY DEF Started
  <1>3. Active(p) \in Ids
    BY DEF Active, Pools
  <1> HIDE DEF a
  <1>4. a \in Ids
    BY <1>1 DEF Chosen, Serving, Ids
  <1>5. SteersIn(p, p, scope) /\ SteersIn(p, Moved(p, scope, q), scope)
    BY <1>4, SetActiveSteers, SteersWhereMoved, SteersNot
  <1> HIDE DEF q
  <1>6. Serving(scope) = {} => a = NoAccount
    BY <1>1 DEF Chosen
  <1> QED BY <1>2, <1>3, <1>4, <1>5, <1>6 DEF Choice, Ids

\* The replacement of an account that cannot serve, where somebody can.
LEMMA ReplacedSteers ==
    ASSUME Settled, NEW c, c.pool \in Pools, c.account \in Ids, NEW scope
    PROVE  LET d == Replaced(c, scope)
           IN  /\ d.account \in Ids
               /\ SteersIn(c.pool, d.pool, scope)
               /\ Serving(scope) = {} => d = c
  <1> DEFINE a == LowestUsage(Eligible(c.pool, scope, c.account))
             q == SetActive(c.pool, a)
             d == Replaced(c, scope)
  <1>1. Chosen(a, Serving(scope) \ {c.account})
    BY LowestServes
  <1>2. \/ d = c
        \/ a # NoAccount /\ d = Choice(a, Moved(c.pool, scope, q))
    BY DEF Replaced
  <1> HIDE DEF a
  <1>3. a \in Ids
    BY <1>1 DEF Chosen, Serving, Ids
  <1>4. SteersIn(c.pool, c.pool, scope) /\ SteersIn(c.pool, Moved(c.pool, scope, q), scope)
    BY <1>3, SetActiveSteers, SteersWhereMoved, SteersNot
  <1> HIDE DEF q
  <1>5. Serving(scope) = {} => a = NoAccount
    BY <1>1 DEF Chosen
  <1> QED BY <1>2, <1>3, <1>4, <1>5 DEF Choice

-----------------------------------------------------------------------------
(* Binding: what the selection does to the bindings.  It leaves everything  *)
(* else alone, binds to open accounts only and ends no binding in use.      *)

OpenAccounts == (configured \ paused) \cup {NoAccount}

\* Every binding, in memory or on disk, is to an account that is open.
Open(p) ==
    \A t \in Threads, s \in AffinityScopes :
        {p.affinity[t][s].account, p.owned[t][s].account} \subseteq OpenAccounts

\* A binding that could go on does.
Keeps(p, q) ==
    \A t \in Threads, s \in AffinityScopes :
        Reusable(p.affinity[t][s], s) =>
            /\ q.affinity[t][s].account = p.affinity[t][s].account
            /\ Reusable(q.affinity[t][s], s)

Binds(p, q) ==
    /\ q \in Pools
    /\ q.active = p.active /\ q.pin = p.pin /\ q.cursor = p.cursor
    /\ q.saved = p.saved /\ q.ring = p.ring

\* t has no binding in this scope that it would still use.
Free(p, t, scope) == t \in Threads => ~Reusable(p.affinity[t][scope], scope)

\* What both kinds of steps have in common, and their compositions.
Onward(p, q, scope) ==
    /\ q \in Pools
    /\ InSync(p) => InSync(q)
    /\ Independent(scope) => Contained(p, q)
    /\ Open(p) => Open(q)
    /\ Keeps(p, q)
    /\ (strategy # "quota" /\ InSync(p)) => Stays(p, q)

\* Steps onward compose.
LEMMA OnwardOn ==
    ASSUME NEW p, NEW q, NEW r, NEW scope, Onward(p, q, scope), Onward(q, r, scope)
    PROVE  Onward(p, r, scope)
  <1>1. Keeps(p, r)
    BY DEF Onward, Keeps
  <1> QED BY <1>1 DEF Onward, Contained, Stays

\* A step that steers leads onward unless it saves for a rotating strategy.
LEMMA SteersOnward ==
    ASSUME NEW p, NEW q, NEW scope, SteersIn(p, q, scope),
           (strategy # "quota" /\ InSync(p)) => Stays(p, q)
    PROVE  Onward(p, q, scope)
  <1>1. Keeps(p, q) /\ (Open(p) => Open(q))
    BY DEF SteersIn, Steers, Keeps, Open
  <1> QED BY <1>1 DEF SteersIn, Steers, Onward

\* A step that binds leads onward when it keeps the bindings in use.
LEMMA BindsOnward ==
    ASSUME NEW p, NEW q, NEW scope, Binds(p, q), Keeps(p, q), Open(p) => Open(q)
    PROVE  Onward(p, q, scope)
  BY DEF Onward, Binds, InSync, Contained, Stays

\* Logins are numbered.
LEMMA LoginType == ASSUME TypeOK, NEW a \in Accounts PROVE Login(a) \in Nat
  BY DEF TypeOK, Login

WithEntry(p, t, scope, e) == [p EXCEPT !.affinity[t][scope] = e]

WithOwner(p, t, scope, e) == [p EXCEPT !.owned[t][scope] = e]

\* Writing one entry of the map in memory changes no other.
LEMMA EntryBinds ==
    ASSUME NEW p \in Pools, NEW t \in Threads, NEW scope \in AffinityScopes, NEW e \in Bindings
    PROVE  LET q == WithEntry(p, t, scope, e)
           IN  /\ Binds(p, q) /\ q.owned = p.owned
               /\ \A u \in Threads, s \in AffinityScopes :
                    q.affinity[u][s] = IF u = t /\ s = scope THEN e ELSE p.affinity[u][s]
  BY DEF WithEntry, Binds, Pools

\* Writing one entry of the ownership file changes no other.
LEMMA OwnerBinds ==
    ASSUME NEW p \in Pools, NEW t \in Threads, NEW scope \in AffinityScopes,
           NEW e \in Ownerships
    PROVE  LET q == WithOwner(p, t, scope, e)
           IN  /\ Binds(p, q) /\ q.affinity = p.affinity
               /\ \A u \in Threads, s \in AffinityScopes :
                    q.owned[u][s] = IF u = t /\ s = scope THEN e ELSE p.owned[u][s]
  BY DEF WithOwner, Binds, Pools

\* The ownership file records an open account for one that is bound to it.
LEMMA OwnedBinds ==
    ASSUME Settled, NEW p \in Pools, NEW t \in Threads, NEW scope \in AffinityScopes,
           NEW a \in Accounts
    PROVE  LET q == Owned(p, t, a, scope)
           IN  /\ Binds(p, q) /\ q.affinity = p.affinity
               /\ (Open(p) /\ a \in OpenAccounts) => Open(q)
  <1> DEFINE entry == [account |-> a, login |-> Login(a), at |-> now]
             q == Owned(p, t, a, scope)
  <1>1. entry \in Ownerships /\ entry.account = a
    BY LoginType DEF Ownerships, Ids, Settled, TypeOK
  <1>2. q = WithOwner(p, t, scope, entry)
    BY DEF Owned, WithOwner
  <1> HIDE DEF entry, q
  <1>3. /\ Binds(p, q) /\ q.affinity = p.affinity
        /\ \A u \in Threads, s \in AffinityScopes :
             q.owned[u][s] = IF u = t /\ s = scope THEN entry ELSE p.owned[u][s]
    BY <1>1, <1>2, OwnerBinds
  <1>5. (Open(p) /\ a \in OpenAccounts) => Open(q)
    BY <1>1, <1>3 DEF Open
  <1> QED BY <1>3, <1>5 DEF q

\* The empty entries are entries, and bind to nothing.
LEMMA UnboundTypes ==
    /\ Unbound \in Bindings /\ Unowned \in Ownerships
    /\ \A s : ~Reusable(Unbound, s)
    /\ Unbound.account = NoAccount /\ Unowned.account = NoAccount
  BY DEF Unbound, Unowned, Bindings, Ownerships, Ids, Reusable, HealthyBinding

\* A new binding ends only those that are expired.
LEMMA BindBinds ==
    ASSUME Settled, NEW p \in Pools, NEW t \in Threads \cup {NoThread},
           NEW scope \in AffinityScopes, NEW a \in Accounts, Free(p, t, scope)
    PROVE  LET q == Bind(p, t, a, scope)
           IN  /\ Binds(p, q) /\ Keeps(p, q)
               /\ (Open(p) /\ a \in OpenAccounts) => Open(q)
  <1> DEFINE entry == [account |-> a, login |-> Login(a), usedAt |-> now, checkedAt |-> now]
             q == Bind(p, t, a, scope)
  <1>1. CASE t = NoThread \/ ~credential[a].live
    BY <1>1 DEF Bind, Binds, Keeps
  <1>2. CASE ~(t = NoThread \/ ~credential[a].live)
    <2> DEFINE bound == [u \in Threads |-> [s \in AffinityScopes |->
                 IF u = t /\ s = scope THEN entry
                 ELSE IF Expired(p.affinity[u][s]) THEN Unbound ELSE p.affinity[u][s]]]
               swept == [p EXCEPT !.affinity = bound]
    <2>1. t \in Threads /\ q = Owned(swept, t, a, scope)
      BY <1>2 DEF Bind
    <2>2. entry \in Bindings /\ entry.account = a
      BY LoginType DEF Bindings, Ids, Settled, TypeOK
    <2> HIDE DEF entry
    <2>3. \A u \in Threads, s \in AffinityScopes : p.affinity[u][s] \in Bindings
      BY DEF Pools
    <2>4. bound \in [Threads -> [AffinityScopes -> Bindings]]
      BY <2>2, <2>3, UnboundTypes
    <2>5. \A u \in Threads, s \in AffinityScopes :
            bound[u][s] = IF u = t /\ s = scope THEN entry
                          ELSE IF Expired(p.affinity[u][s]) THEN Unbound ELSE p.affinity[u][s]
      OBVIOUS
    <2> HIDE DEF bound
    <2>6. /\ Binds(p, swept) /\ swept.affinity = bound /\ swept.owned = p.owned
      BY <2>4 DEF Binds, Pools
    <2>7. Keeps(p, swept)
      BY <2>1, <2>5, <2>6, <1>2 DEF Keeps, Free, Reusable
    <2>8. (Open(p) /\ a \in OpenAccounts) => Open(swept)
      BY <2>2, <2>5, <2>6, UnboundTypes DEF Open, OpenAccounts
    <2> HIDE DEF swept
    <2>9. swept \in Pools
      BY <2>6 DEF Binds
    <2>10. /\ Binds(swept, q) /\ q.affinity = swept.affinity
           /\ (Open(swept) /\ a \in OpenAccounts) => Open(q)
      BY <2>1, <2>9, OwnedBinds
    <2> HIDE DEF q
    <2>11. Binds(p, q) /\ Keeps(p, q) /\ ((Open(p) /\ a \in OpenAccounts) => Open(q))
      BY <2>6, <2>7, <2>8, <2>10 DEF Binds, Keeps
    <2> QED BY <2>11 DEF q
  <1> QED BY <1>1, <1>2

\* A binding restored from disk replaces none in memory.
LEMMA RestoredBinds ==
    ASSUME Settled, NEW p \in Pools, NEW t \in Threads \cup {NoThread},
           NEW scope \in AffinityScopes
    PROVE  LET q == Restored(p, t, scope)
           IN  Binds(p, q) /\ Keeps(p, q) /\ (Open(p) => Open(q))
  <1> DEFINE owner == p.owned[t][scope]
             q == Restored(p, t, scope)
  <1>1. CASE q = p
    BY <1>1 DEF Binds, Keeps
  <1>2. CASE q # p
    <2>1. /\ t \in Threads /\ p.affinity[t][scope].account = NoAccount
          /\ owner.account \in configured /\ q = Bind(p, t, owner.account, scope)
      BY <1>2 DEF Restored
    <2>2. Free(p, t, scope)
      BY <2>1 DEF Free, Reusable, HealthyBinding
    <2>3. owner.account \in Accounts /\ (Open(p) => owner.account \in OpenAccounts)
      BY <2>1 DEF Settled, TypeOK, Open
    <2> HIDE DEF owner, q
    <2>4. Binds(p, q) /\ Keeps(p, q) /\ (Open(p) => Open(q))
      BY <2>1, <2>2, <2>3, BindBinds
    <2> QED BY <2>4 DEF q
  <1> QED BY <1>1, <1>2

\* Dropping a binding that is not used any more drops no other.
LEMMA UnassignedBinds ==
    ASSUME NEW p \in Pools, NEW t \in Threads, NEW scope \in AffinityScopes, Free(p, t, scope)
    PROVE  LET q == Unassigned(p, t, scope)
           IN  Binds(p, q) /\ Keeps(p, q) /\ (Open(p) => Open(q)) /\ Free(q, t, scope)
  <1> DEFINE q == Unassigned(p, t, scope)
  <1> DEFINE x == WithEntry(p, t, scope, Unbound)
  <1>0. /\ Binds(p, x) /\ x.owned = p.owned
        /\ \A u \in Threads, s \in AffinityScopes :
             x.affinity[u][s] = IF u = t /\ s = scope THEN Unbound ELSE p.affinity[u][s]
    BY EntryBinds, UnboundTypes
  <1>6. q = WithOwner(x, t, scope, Unowned) /\ x \in Pools
    BY <1>0 DEF Unassigned, Binds, WithEntry, WithOwner
  <1> HIDE DEF x, q
  <1>5. /\ Binds(x, q) /\ q.affinity = x.affinity
        /\ \A u \in Threads, s \in AffinityScopes :
             q.owned[u][s] = IF u = t /\ s = scope THEN Unowned ELSE x.owned[u][s]
    BY <1>6, OwnerBinds, UnboundTypes
  <1>1. Binds(p, q)
    BY <1>0, <1>5 DEF Binds
  <1>2. \A u \in Threads, s \in AffinityScopes :
          /\ q.affinity[u][s] = IF u = t /\ s = scope THEN Unbound ELSE p.affinity[u][s]
          /\ q.owned[u][s] = IF u = t /\ s = scope THEN Unowned ELSE p.owned[u][s]
    BY <1>0, <1>5
  <1>3. Keeps(p, q) /\ Free(q, t, scope)
    <2>1. ~Reusable(p.affinity[t][scope], scope)
      BY DEF Free
    <2> QED BY <1>2, <2>1, UnboundTypes DEF Keeps, Free
  <1>4. Open(p) => Open(q)
    BY <1>2, UnboundTypes DEF Open, OpenAccounts
  <1> QED BY <1>1, <1>3, <1>4 DEF q

\* A binding in use is prolonged.
LEMMA TouchedBinds ==
    ASSUME Settled, NEW p \in Pools, NEW t \in Threads, NEW scope \in AffinityScopes,
           Reusable(p.affinity[t][scope], scope)
    PROVE  LET q == Touched(p, t, scope)
           IN  Binds(p, q) /\ Keeps(p, q) /\ (Open(p) => Open(q))
  <1> DEFINE entry == p.affinity[t][scope]
             used == [p EXCEPT !.affinity[t][scope].usedAt = now]
             checked == [used EXCEPT !.affinity[t][scope].checkedAt = now]
             q == Touched(p, t, scope)
             Renews(x) == /\ x \in Pools /\ Binds(p, x) /\ x.owned = p.owned
                          /\ \A u \in Threads, s \in AffinityScopes :
                               IF u = t /\ s = scope
                               THEN /\ x.affinity[u][s].account = entry.account
                                    /\ x.affinity[u][s].login = entry.login
                                    /\ x.affinity[u][s].usedAt = now
                               ELSE x.affinity[u][s] = p.affinity[u][s]
  <1>0. now \in Nat /\ AffinityTtl \in Nat
    BY RoutingAssumption DEF Settled, TypeOK, Durations
  <1> DEFINE renewed == [entry EXCEPT !.usedAt = now]
             again == [renewed EXCEPT !.checkedAt = now]
  <1>7. entry \in Bindings
    BY DEF Pools
  <1> HIDE DEF entry
  <1>8. renewed \in Bindings /\ again \in Bindings
    BY <1>0, <1>7 DEF Bindings
  <1>9. /\ renewed.account = entry.account /\ renewed.login = entry.login
        /\ renewed.usedAt = now
        /\ again.account = entry.account /\ again.login = entry.login /\ again.usedAt = now
    BY <1>7, <1>8 DEF Bindings
  <1>10. used = WithEntry(p, t, scope, renewed)
    BY DEF WithEntry, entry
  <1> HIDE DEF renewed, again, used
  <1>1. Renews(used) /\ used.affinity[t][scope] = renewed
    BY <1>8, <1>9, <1>10, EntryBinds DEF Binds
  <1>11. checked = WithEntry(used, t, scope, again) /\ used \in Pools
    BY <1>1 DEF Binds, WithEntry, again
  <1> HIDE DEF checked
  <1>2. Renews(checked)
    <2>1. /\ Binds(used, checked) /\ checked.owned = used.owned
          /\ \A u \in Threads, s \in AffinityScopes :
               checked.affinity[u][s] = IF u = t /\ s = scope THEN again
                                        ELSE used.affinity[u][s]
      BY <1>8, <1>11, EntryBinds
    <2> QED BY <1>1, <1>9, <2>1 DEF Binds
  <1>3. entry.account \in configured \ paused /\ entry.account \in Accounts
    BY DEF Reusable, HealthyBinding, Selectable, Usable, Settled, TypeOK, entry
  <1>4. ASSUME NEW x, Renews(x) PROVE Keeps(p, x) /\ (Open(p) => Open(x))
    <2>1. ASSUME NEW u \in Threads, NEW s \in AffinityScopes, Reusable(p.affinity[u][s], s)
          PROVE  /\ x.affinity[u][s].account = p.affinity[u][s].account
                 /\ Reusable(x.affinity[u][s], s)
      <3>1. CASE u = t /\ s = scope
        BY <1>0, <1>4, <2>1, <3>1 DEF Reusable, HealthyBinding, Expired, entry
      <3>2. CASE ~(u = t /\ s = scope)
        BY <1>4, <2>1, <3>2
      <3> QED BY <3>1, <3>2
    <2>2. Keeps(p, x)
      BY <2>1 DEF Keeps
    <2>3. Open(p) => Open(x)
      BY <1>4 DEF Open, entry
    <2> QED BY <2>2, <2>3
  <1>5. q = used \/ q = Owned(checked, t, entry.account, scope)
    BY DEF Touched, checked, used, entry
  <1> HIDE DEF q
  <1>6. CASE q = used
    BY <1>1, <1>4, <1>6 DEF q
  <1>12. CASE q = Owned(checked, t, entry.account, scope)
    <2>1. /\ Binds(checked, q) /\ q.affinity = checked.affinity
          /\ (Open(checked) /\ entry.account \in OpenAccounts) => Open(q)
      BY <1>2, <1>3, <1>12, OwnedBinds
    <2>2. Keeps(p, checked) /\ (Open(p) => Open(checked)) /\ Binds(p, checked)
      BY <1>2, <1>4
    <2>3. entry.account \in OpenAccounts
      BY <1>3 DEF OpenAccounts
    <2>4. Binds(p, q) /\ Keeps(p, q) /\ (Open(p) => Open(q))
      BY <2>1, <2>2, <2>3 DEF Binds, Keeps
    <2> QED BY <2>4 DEF q
  <1> QED BY <1>5, <1>6, <1>12

-----------------------------------------------------------------------------
(* The resolution of a request, from the pin to the binding.               *)

\* What becomes of a request: the pool moves on, and whoever is selected is an
\* account that is not paused.
Resolves(p, resolution, scope) ==
    /\ Onward(p, resolution.pool, scope)
    /\ resolution.status = "selected" => resolution.account \in Accounts \ paused

\* Round-robin selects an account that is not paused and binds to it.
LEMMA ByRingResolves ==
    ASSUME Settled, NEW p \in Pools, NEW t \in Threads \cup {NoThread},
           NEW scope \in AffinityScopes, Free(p, t, scope),
           Eligible(p, scope, NoAccount) # {}
    PROVE  Resolves(p, ByRing(p, t, scope), scope)
  <1> DEFINE ids == Eligible(p, scope, NoAccount)
             key == RingKey(scope)
             a == Picked(p.ring[key], ids, rank)
             started == Moved(p, scope, RememberActive(p, a))
             drawn == RingPicked(started, scope, ids)
             bound == Bind(drawn, t, a, scope)
             noted == NoteSuccess(bound.ring[key], a, StickyLimit)
             q == [bound EXCEPT !.ring[key] = noted]
  <1>0. key \in Scopes
    BY DEF RingKey, Scopes
  <1>1. ids \in SUBSET Accounts /\ ids \subseteq Serving(scope) /\ ids # {}
    BY EligibleServes DEF Serving
  <1>2. ByRing(p, t, scope) =
          Resolution("selected", a, [bound EXCEPT !.ring[key] =
                                       NoteSuccess(@, a, StickyLimit)])
    BY DEF ByRing
  <1> HIDE DEF ids
  <1>3. a \in ids
    BY <1>1, PickIsChosen DEF Chosen
  <1>4. a \in Accounts /\ a \in configured \ paused
    BY <1>1, <1>3, ServingIsOpen
  <1> HIDE DEF a
  <1>5. SteersIn(p, started, scope) /\ Stays(p, started)
    <2>1. Steers(p, RememberActive(p, a)) /\ Stays(p, RememberActive(p, a))
      BY <1>4, RememberSteers DEF Ids
    <2> QED BY <2>1, SteersWhereMoved DEF Moved, Stays
  <1>6. started \in Pools /\ started.affinity = p.affinity
    BY <1>5 DEF SteersIn, Steers
  <1> HIDE DEF started
  <1>7. SteersIn(started, drawn, scope) /\ Stays(started, drawn)
    BY <1>1, <1>6, RingPickedSteers
  <1>8. drawn \in Pools /\ drawn.affinity = p.affinity
    BY <1>6, <1>7 DEF SteersIn, Steers
  <1>9. Free(drawn, t, scope)
    BY <1>8 DEF Free
  <1> HIDE DEF drawn
  <1>10. Binds(drawn, bound) /\ Keeps(drawn, bound) /\ (Open(drawn) => Open(bound))
    BY <1>4, <1>8, <1>9, BindBinds DEF OpenAccounts
  <1>11. bound \in Pools
    BY <1>10 DEF Binds
  <1> HIDE DEF bound
  <1>12. bound.ring[key] \in Rings(Accounts, StickyLimit)
    BY <1>0, <1>11 DEF Pools
  <1>13. noted \in Rings(Accounts, StickyLimit)
    BY <1>4, <1>12, NoteSuccessType, RingOfRouting
  <1>14. SteersIn(bound, q, scope) /\ Stays(bound, q)
    BY <1>11, <1>13, RingSteers
  <1>15. ByRing(p, t, scope).account = a /\ ByRing(p, t, scope).status = "selected"
         /\ ByRing(p, t, scope).pool = q
    BY <1>2, <1>11 DEF Resolution, Pools
  <1> HIDE DEF q
  <1>16. Onward(p, started, scope) /\ Onward(started, drawn, scope)
         /\ Onward(drawn, bound, scope) /\ Onward(bound, q, scope)
    BY <1>5, <1>7, <1>10, <1>14, SteersOnward, BindsOnward
  <1>17. Onward(p, q, scope)
    BY <1>16, OnwardOn
  <1> QED BY <1>4, <1>15, <1>17 DEF Resolves

\* Fill-first selects an account that is not paused and binds to it.
LEMMA InOrderResolves ==
    ASSUME Settled, NEW p \in Pools, NEW t \in Threads \cup {NoThread},
           NEW scope \in AffinityScopes, Free(p, t, scope),
           Eligible(p, scope, NoAccount) # {}
    PROVE  Resolves(p, InOrder(p, t, scope), scope)
  <1> DEFINE ids == Eligible(p, scope, NoAccount)
             a == FillFirst(p, scope)
             started == Moved(p, scope, RememberActive(p, a))
             bound == Bind(started, t, a, scope)
  <1>1. ids \subseteq Serving(scope) /\ Chosen(a, ids)
    BY EligibleServes, FillFirstIsChosen
  <1>2. a \in Accounts /\ a \in configured \ paused
    BY <1>1, ServingIsOpen DEF Chosen, Serving
  <1>3. InOrder(p, t, scope) = Resolution("selected", a, bound)
    BY DEF InOrder
  <1> HIDE DEF a, ids
  <1>4. SteersIn(p, started, scope) /\ Stays(p, started)
    <2>1. Steers(p, RememberActive(p, a)) /\ Stays(p, RememberActive(p, a))
      BY <1>2, RememberSteers DEF Ids
    <2> QED BY <2>1, SteersWhereMoved DEF Moved, Stays
  <1>5. started \in Pools /\ started.affinity = p.affinity
    BY <1>4 DEF SteersIn, Steers
  <1>6. Free(started, t, scope)
    BY <1>5 DEF Free
  <1> HIDE DEF started
  <1>7. Binds(started, bound) /\ Keeps(started, bound) /\ (Open(started) => Open(bound))
    BY <1>2, <1>5, <1>6, BindBinds DEF OpenAccounts
  <1> HIDE DEF bound
  <1>8. Onward(p, started, scope) /\ Onward(started, bound, scope)
    BY <1>4, <1>7, SteersOnward, BindsOnward
  <1>9. Onward(p, bound, scope)
    BY <1>8, OnwardOn
  <1> QED BY <1>2, <1>3, <1>9 DEF Resolves, Resolution

\* By usage nothing moves where nobody can serve; only then does a strategy
\* other than "quota" come here.
LEMMA ByUsageResolves ==
    ASSUME Settled, strategy \in Strategies, NEW p \in Pools,
           NEW t \in Threads \cup {NoThread}, NEW scope \in AffinityScopes,
           Free(p, t, scope), strategy = "quota" \/ Serving(scope) = {}
    PROVE  Resolves(p, ByUsage(p, t, scope), scope)
  <1> DEFINE b == Started(p, scope)
             c == Replaced(b, scope)
             d == Improved(c, scope)
             bound == Bind(d.pool, t, d.account, scope)
             result == ByUsage(p, t, scope)
  <1>1. /\ b.account \in Ids /\ SteersIn(p, b.pool, scope)
        /\ Serving(scope) = {} => b.pool = p
    BY StartedSteers
  <1>2. b.pool \in Pools
    BY <1>1 DEF SteersIn, Steers
  <1> HIDE DEF b
  <1>3. /\ c.account \in Ids /\ SteersIn(b.pool, c.pool, scope)
        /\ Serving(scope) = {} => c = b
    BY <1>1, <1>2, ReplacedSteers
  <1>4. SteersIn(p, c.pool, scope)
    BY <1>1, <1>3, SteersOn
  <1>5. Onward(p, c.pool, scope)
    <2>1. (strategy # "quota" /\ InSync(p)) => Stays(p, c.pool)
      BY <1>1, <1>3 DEF Stays
    <2> QED BY <1>4, <2>1, SteersOnward
  <1>6. result = CASE c.account = NoAccount -> Resolution("none", NoAccount, p)
                   [] c.account # NoAccount /\ ~Selectable(c.account, scope) ->
                        IF HasConfigured(c.account) /\ c.account \notin paused
                        THEN Resolution("selected", c.account, c.pool)
                        ELSE Resolution("none", NoAccount, c.pool)
                   [] OTHER -> Resolution("selected", d.account, bound)
    BY DEF ByUsage, b
  <1> HIDE DEF c, result
  <1>7. CASE c.account = NoAccount
    <2>1. result = Resolution("none", NoAccount, p)
      BY <1>6, <1>7
    <2>2. Onward(p, p, scope)
      BY SteersNot, SteersOnward DEF Stays
    <2> QED BY <2>1, <2>2 DEF Resolves, Resolution, result
  <1>8. CASE c.account # NoAccount /\ ~Selectable(c.account, scope)
    <2>1. \/ /\ result = Resolution("selected", c.account, c.pool)
             /\ c.account \notin paused
          \/ result = Resolution("none", NoAccount, c.pool)
      BY <1>6, <1>8
    <2> QED BY <1>3, <1>5, <1>8, <2>1 DEF Resolves, Resolution, result, Ids
  <1>9. CASE c.account # NoAccount /\ Selectable(c.account, scope)
    <2>1. c.account \in Serving(scope) /\ c.pool \in Pools
      BY <1>3, <1>4, <1>9 DEF Serving, Ids, SteersIn, Steers
    <2>2. Advances(c, d, scope)
      BY <2>1, ImprovedAdvances
    <2>3. result = Resolution("selected", d.account, bound)
      BY <1>6, <1>9
    <2> HIDE DEF d
    <2>4. d.account \in Serving(scope) /\ SteersIn(c.pool, d.pool, scope)
      BY <2>1, <2>2 DEF Advances
    <2>5. d.account \in Accounts /\ d.account \in configured \ paused
      BY <2>4, ServingIsOpen DEF Serving
    <2>6. d.pool \in Pools /\ d.pool.affinity = p.affinity
      BY <1>4, <2>4 DEF SteersIn, Steers
    <2>7. Free(d.pool, t, scope)
      BY <2>6 DEF Free
    <2>8. /\ Binds(d.pool, bound) /\ Keeps(d.pool, bound)
          /\ Open(d.pool) => Open(bound)
      BY <2>5, <2>6, <2>7, BindBinds DEF OpenAccounts
    <2> HIDE DEF bound
    <2>9. Onward(c.pool, d.pool, scope)
      BY <2>1, <2>4, SteersOnward
    <2>10. Onward(p, bound, scope)
      BY <1>5, <2>8, <2>9, BindsOnward, OnwardOn
    <2> QED BY <2>3, <2>5, <2>10 DEF Resolves, Resolution, result
  <1> QED BY <1>7, <1>8, <1>9

\* So does every strategy, for a request without a binding.
LEMMA UnboundResolves ==
    ASSUME Settled, strategy \in Strategies, NEW p \in Pools,
           NEW t \in Threads \cup {NoThread}, NEW scope \in AffinityScopes, Free(p, t, scope)
    PROVE  Resolves(p, ResolveUnbound(p, t, scope), scope)
  <1> DEFINE ids == Eligible(p, scope, NoAccount)
  <1>1. CASE strategy = "quota" \/ ids = {}
    <2>1. strategy = "quota" \/ Serving(scope) = {}
      BY <1>1, EligibleServes, RoutingAssumption DEF Serving
    <2>2. ResolveUnbound(p, t, scope) = ByUsage(p, t, scope)
      BY <1>1 DEF ResolveUnbound
    <2> QED BY <2>1, <2>2, ByUsageResolves
  <1>2. CASE ~(strategy = "quota" \/ ids = {})
    <2>1. ResolveUnbound(p, t, scope) \in {ByRing(p, t, scope), InOrder(p, t, scope)}
      BY <1>2 DEF ResolveUnbound
    <2>2. Resolves(p, ByRing(p, t, scope), scope) /\ Resolves(p, InOrder(p, t, scope), scope)
      BY <1>2, ByRingResolves, InOrderResolves
    <2> QED BY <2>1, <2>2
  <1> QED BY <1>1, <1>2

\* The whole of resolveCodexAccountForThreadDetailed.
LEMMA ResolveResolves ==
    ASSUME Settled, strategy \in Strategies, NEW p \in Pools,
           NEW t \in Threads \cup {NoThread}, NEW scope \in AffinityScopes
    PROVE  Resolves(p, Resolve(p, t, scope), scope)
  <1> DEFINE begun == Moved(p, scope, DrainedPinReleased(p))
             restored == Restored(begun, t, scope)
             entry == Entry(restored, t, scope)
             left == IF entry.account = NoAccount THEN restored
                     ELSE Unassigned(restored, t, scope)
             result == Resolve(p, t, scope)
  <1>1. Onward(p, begun, scope)
    <2>1. SteersIn(p, begun, scope) /\ (InSync(p) => Stays(p, begun))
      BY DrainedSteers, SteersWhereMoved DEF Moved, Stays
    <2> QED BY <2>1, SteersOnward
  <1>2. begun \in Pools
    BY <1>1 DEF Onward
  <1>3. result = CASE Expired(entry) ->
                        Resolution("expired", entry.account, Unassigned(restored, t, scope))
                   [] Reusable(entry, scope) ->
                        Resolution("selected", entry.account, Touched(restored, t, scope))
                   [] OTHER -> ResolveUnbound(left, t, scope)
    BY DEF Resolve
  <1> HIDE DEF begun
  <1>4. Binds(begun, restored) /\ Keeps(begun, restored) /\ (Open(begun) => Open(restored))
    BY <1>2, RestoredBinds
  <1>5. restored \in Pools /\ Onward(p, restored, scope)
    <2> HIDE DEF restored
    <2> QED BY <1>1, <1>4, BindsOnward, OnwardOn DEF Binds
  <1> HIDE DEF restored, result
  <1>6. t \notin Threads => entry = Unbound
    BY DEF Entry
  <1>7. t \in Threads => entry = restored.affinity[t][scope]
    BY RoutingAssumption DEF Entry
  <1> HIDE DEF entry
  <1>8. Free(restored, t, scope) \/ Reusable(entry, scope)
    BY <1>7 DEF Free
  <1>9. entry.account # NoAccount => t \in Threads
    BY <1>6, UnboundTypes
  <1>10. CASE Expired(entry)
    <2>1. t \in Threads /\ Free(restored, t, scope)
      BY <1>7, <1>9, <1>10 DEF Expired, Free, Reusable
    <2> DEFINE q == Unassigned(restored, t, scope)
    <2>2. Binds(restored, q) /\ Keeps(restored, q) /\ (Open(restored) => Open(q))
      BY <1>5, <2>1, UnassignedBinds
    <2>3. ~Reusable(entry, scope)
      BY <1>10 DEF Reusable
    <2>5. result = Resolution("expired", entry.account, q)
      BY <1>3, <1>10, <2>3
    <2> HIDE DEF q
    <2>4. Onward(p, q, scope)
      BY <1>5, <2>2, BindsOnward, OnwardOn
    <2> QED BY <2>4, <2>5 DEF Resolves, Resolution, result
  <1>11. CASE ~Expired(entry) /\ Reusable(entry, scope)
    <2>1. t \in Threads /\ entry = restored.affinity[t][scope]
      BY <1>7, <1>9, <1>11 DEF Reusable, HealthyBinding
    <2> DEFINE q == Touched(restored, t, scope)
    <2>2. Binds(restored, q) /\ Keeps(restored, q) /\ (Open(restored) => Open(q))
      BY <1>5, <1>11, <2>1, TouchedBinds
    <2>3. result = Resolution("selected", entry.account, q)
      BY <1>3, <1>11
    <2>4. entry.account \in Accounts \ paused
      BY <1>11 DEF Reusable, HealthyBinding, Selectable, Usable, Settled, TypeOK
    <2> HIDE DEF q
    <2>5. Onward(p, q, scope)
      BY <1>5, <2>2, BindsOnward, OnwardOn
    <2> QED BY <2>3, <2>4, <2>5 DEF Resolves, Resolution, result
  <1>12. CASE ~Expired(entry) /\ ~Reusable(entry, scope)
    <2>1. result = ResolveUnbound(left, t, scope)
      BY <1>3, <1>12
    <2>2. Free(restored, t, scope)
      BY <1>8, <1>12
    <2>3. Onward(restored, left, scope) /\ Free(left, t, scope)
      <3>1. CASE entry.account = NoAccount
        BY <1>5, <2>2, <3>1, SteersNot, SteersOnward DEF Stays
      <3>2. CASE entry.account # NoAccount
        BY <1>5, <1>9, <2>2, <3>2, UnassignedBinds, BindsOnward
      <3> QED BY <3>1, <3>2
    <2>4. left \in Pools
      BY <2>3 DEF Onward
    <2> HIDE DEF left
    <2>5. Resolves(left, result, scope)
      BY <2>1, <2>3, <2>4, UnboundResolves
    <2>6. Onward(p, result.pool, scope)
      BY <1>5, <2>3, <2>5, OnwardOn DEF Resolves
    <2> QED BY <2>5, <2>6 DEF Resolves, result
  <1> QED BY <1>10, <1>11, <1>12

-----------------------------------------------------------------------------
(* What an outcome, an exclusion, a selection and a reconciliation do.      *)

\* Only the bindings of one account may end.
Spares(p, q, a) ==
    \A t \in Threads, s \in AffinityScopes :
        (Reusable(p.affinity[t][s], s) /\ p.affinity[t][s].account # a) =>
            q.affinity[t][s].account = p.affinity[t][s].account

Befalls(p, q, a, scope) ==
    /\ q \in Pools
    /\ InSync(p) => InSync(q)
    /\ Independent(scope) => Contained(p, q)
    /\ Open(p) => Open(q)
    /\ Spares(p, q, a)
    /\ (strategy # "quota" /\ InSync(p)) => Stays(p, q)

\* What befalls an account, and then steers, befalls it.
LEMMA BefallsThenSteers ==
    ASSUME NEW p, NEW q, NEW r, NEW a, NEW scope, Befalls(p, q, a, scope),
           SteersIn(q, r, scope), (strategy # "quota" /\ InSync(q)) => Stays(q, r)
    PROVE  Befalls(p, r, a, scope)
  BY DEF Befalls, SteersIn, Steers, Contained, Open, Spares, Stays

\* Unbinding everybody from an account ends its bindings and no others.
LEMMA UnboundFromBinds ==
    ASSUME NEW p \in Pools, NEW a \in Accounts, NEW scope
    PROVE  LET q == UnboundFrom(p, a)
           IN  /\ Binds(p, q) /\ Befalls(p, q, a, scope)
               /\ \A t \in Threads, s \in AffinityScopes :
                    a \notin {q.affinity[t][s].account, q.owned[t][s].account}
  <1> DEFINE bindings == [t \in Threads |-> [s \in AffinityScopes |->
                 IF p.affinity[t][s].account = a THEN Unbound ELSE p.affinity[t][s]]]
             owners == [t \in Threads |-> [s \in AffinityScopes |->
                 IF a \in {p.affinity[t][s].account, p.owned[t][s].account}
                 THEN Unowned ELSE p.owned[t][s]]]
             q == UnboundFrom(p, a)
  <1>1. \A t \in Threads, s \in AffinityScopes :
          p.affinity[t][s] \in Bindings /\ p.owned[t][s] \in Ownerships
    BY DEF Pools
  <1>2. /\ bindings \in [Threads -> [AffinityScopes -> Bindings]]
        /\ owners \in [Threads -> [AffinityScopes -> Ownerships]]
    BY <1>1, UnboundTypes
  <1>3. \A t \in Threads, s \in AffinityScopes :
          /\ bindings[t][s] = IF p.affinity[t][s].account = a THEN Unbound
                              ELSE p.affinity[t][s]
          /\ owners[t][s] = IF a \in {p.affinity[t][s].account, p.owned[t][s].account}
                            THEN Unowned ELSE p.owned[t][s]
    OBVIOUS
  <1>4. q = [p EXCEPT !.affinity = bindings, !.owned = owners]
    BY DEF UnboundFrom
  <1> HIDE DEF bindings, owners, q
  <1>5. Binds(p, q) /\ q.affinity = bindings /\ q.owned = owners
    BY <1>2, <1>4 DEF Binds, Pools
  <1>6. a # NoAccount
    BY RoutingAssumption
  <1>7. \A t \in Threads, s \in AffinityScopes :
          a \notin {q.affinity[t][s].account, q.owned[t][s].account}
    BY <1>3, <1>5, <1>6, UnboundTypes
  <1>8. (Open(p) => Open(q)) /\ Spares(p, q, a)
    BY <1>3, <1>5, UnboundTypes DEF Open, OpenAccounts, Spares
  <1>9. Befalls(p, q, a, scope)
    BY <1>5, <1>8 DEF Binds, Befalls, InSync, Contained, Stays
  <1> QED BY <1>5, <1>7, <1>9 DEF q

\* The retry of a request was sent to an account.
LEMMA RetryIsAnAccount ==
    ASSUME Settled, NEW r \in Requests
    PROVE  PromoteAccountId(r) \in Ids
  <1>1. CASE Retried(r)
    <2>1. PICK q \in Requests : Retries(q, r)
      BY <1>1 DEF Retried
    <2> DEFINE x == CHOOSE y \in Requests : Retries(y, r)
    <2>2. x \in Requests /\ Retries(x, r)
      BY <2>1
    <2>3. PromoteAccountId(r) = request[x].account
      BY <1>1 DEF PromoteAccountId
    <2> HIDE DEF x
    <2>4. request[x].account \in Accounts
      BY <2>2 DEF Retries, Settled, TypeOK
    <2> QED BY <2>3, <2>4 DEF Ids
  <1>2. CASE ~Retried(r)
    BY <1>2 DEF PromoteAccountId, Ids
  <1> QED BY <1>1, <1>2

\* A 429 ends bindings of the account it was answered for, and no others.
LEMMA AfterQuotaBefalls ==
    ASSUME Settled, strategy \in Strategies, pool \in Pools, NEW r \in Requests, NEW source,
           request[r].account \in Accounts
    PROVE  Befalls(pool, AfterQuota(r, source), request[r].account, request[r].scope)
  <1> DEFINE a == request[r].account
             scope == request[r].scope
             u == UnboundFrom(pool, a)
             failed == NoteFailure(u.ring["shared"], a)
             p == [u EXCEPT !.ring["shared"] = failed]
             retry == PromoteAccountId(r)
             other == Alternate(p, a, scope)
             q == AfterQuota(r, source)
  <1>1. CASE q = pool
    BY <1>1 DEF Befalls, Spares, Contained, Stays
  <1>2. Binds(pool, u) /\ Befalls(pool, u, a, scope)
    BY UnboundFromBinds
  <1>3. u \in Pools
    BY <1>2 DEF Binds
  <1>4. \/ q = pool \/ q = u
        \/ /\ ~Independent(scope)
           /\ \/ q = p
              \/ retry # NoAccount /\ q = Promote(p, retry)
              \/ q = other.pool
              \/ other.account # NoAccount /\ q = Promote(other.pool, other.account)
    <2>1. [u EXCEPT !.ring["shared"] = NoteFailure(@, a)] = p
      BY <1>3 DEF Pools
    <2> HIDE DEF p, u
    <2>2. q = LET To(o) == IF o.account = NoAccount THEN o.pool ELSE Promote(o.pool, o.account)
                  Failed(x) == IF Active(x) # a THEN x
                               ELSE IF retry \notin {NoAccount, a} THEN To(Choice(retry, x))
                               ELSE To(Alternate(x, a, scope))
              IN  IF route[r].fixed \/ QuotaSlot(r, source) = "spark" THEN pool
                  ELSE IF Independent(scope) THEN u ELSE Failed(p)
      BY <2>1 DEF AfterQuota, u
    <2> HIDE DEF q, retry, other
    <2>3. CASE route[r].fixed \/ QuotaSlot(r, source) = "spark" \/ Independent(scope)
      BY <2>2, <2>3
    <2>4. CASE ~(route[r].fixed \/ QuotaSlot(r, source) = "spark" \/ Independent(scope))
      <3>1. CASE Active(p) # a
        BY <2>2, <2>4, <3>1
      <3>2. CASE Active(p) = a /\ retry \notin {NoAccount, a}
        BY <2>2, <2>4, <3>2 DEF Choice
      <3>3. CASE Active(p) = a /\ ~(retry \notin {NoAccount, a})
        <4>1. q = IF other.account = NoAccount THEN other.pool
                  ELSE Promote(other.pool, other.account)
          BY <2>2, <2>4, <3>3 DEF other
        <4> QED BY <2>4, <4>1
      <3> QED BY <3>1, <3>2, <3>3
    <2> QED BY <2>3, <2>4
  <1>5. CASE ~Independent(scope)
    <2>1. u.ring["shared"] \in Rings(Accounts, StickyLimit)
      BY <1>3 DEF Pools, Scopes
    <2>2. failed \in Rings(Accounts, StickyLimit)
      BY <2>1, NoteFailureType, RingOfRouting
    <2> HIDE DEF failed, u
    <2>3. SteersIn(u, p, scope) /\ Stays(u, p)
      <3>1. RingKey(scope) = "shared"
        BY <1>5 DEF RingKey
      <3> QED BY <1>3, <2>2, <3>1, RingSteers
    <2>4. Befalls(pool, p, a, scope)
      BY <1>2, <2>3, BefallsThenSteers
    <2>5. p \in Pools
      BY <2>4 DEF Befalls
    <2> HIDE DEF p
    <2>6. /\ other.account \in Ids
          /\ SteersIn(p, other.pool, scope) /\ Stays(p, other.pool)
      BY <2>5, AlternateAdvances DEF Serving, Ids
    <2>7. other.pool \in Pools /\ Befalls(pool, other.pool, a, scope)
      BY <2>4, <2>6, BefallsThenSteers DEF Befalls
    <2> HIDE DEF other
    <2>8. ASSUME NEW x \in Pools, NEW b \in Ids, Befalls(pool, x, a, scope)
          PROVE  Befalls(pool, Promote(x, b), a, scope)
      <3>1. SteersIn(x, Promote(x, b), scope)
            /\ (strategy # "quota" => Stays(x, Promote(x, b)))
        BY <1>5, PromoteSteers DEF SteersIn
      <3> QED BY <2>8, <3>1, BefallsThenSteers
    <2>9. retry \in Ids
      BY RetryIsAnAccount
    <2> HIDE DEF retry, q
    <2>10. Befalls(pool, Promote(p, retry), a, scope)
           /\ Befalls(pool, Promote(other.pool, other.account), a, scope)
      BY <2>4, <2>5, <2>6, <2>7, <2>8, <2>9
    <2>11. Befalls(pool, q, a, scope)
      BY <1>1, <1>2, <1>4, <2>4, <2>7, <2>10 DEF q
    <2> QED BY <2>11 DEF q
  <1>6. CASE Independent(scope)
    BY <1>1, <1>2, <1>4, <1>6
  <1> QED BY <1>5, <1>6

\* So does a streak that trips failover; a shorter one does nothing.
LEMMA AfterStreakBefalls ==
    ASSUME Settled, strategy \in Strategies, pool \in Pools, NEW r \in Requests,
           request[r].account \in Accounts
    PROVE  \/ AfterStreak(r) = pool
           \/ /\ FailoverReady(Streak(health[request[r].account]["account"]))
              /\ Befalls(pool, AfterStreak(r), request[r].account, request[r].scope)
  <1> DEFINE a == request[r].account
             scope == request[r].scope
             u == UnboundFrom(pool, a)
             c == Choice(a, u)
             d == FailedOver(c, scope, TRUE)
             q == AfterStreak(r)
  <1>1. \/ q = pool
        \/ /\ FailoverReady(Streak(health[a]["account"]))
           /\ \/ q = u
              \/ q = d.pool
    BY DEF AfterStreak
  <1>2. Befalls(pool, u, a, scope)
    BY UnboundFromBinds
  <1>3. c.pool = u /\ u \in Pools
    BY <1>2 DEF Choice, Befalls
  <1> HIDE DEF u, c
  <1>4. Advances(c, d, scope) /\ (strategy # "quota" => Stays(c.pool, d.pool))
    BY <1>3, FailedOverAdvances
  <1> HIDE DEF d, q
  <1>5. Befalls(pool, d.pool, a, scope)
    BY <1>2, <1>3, <1>4, BefallsThenSteers DEF Advances
  <1>6. \/ q = pool
        \/ FailoverReady(Streak(health[a]["account"])) /\ Befalls(pool, q, a, scope)
    BY <1>1, <1>2, <1>5
  <1> QED BY <1>6 DEF q

\* The exclusion of an account, whose selection is saved afterwards.
LEMMA ExclusionSteers ==
    ASSUME Settled, strategy \in Strategies, NEW p \in Pools, NEW a \in Accounts
    PROVE  LET q == ExclusionReconciled(p, a)
           IN  q \in Pools /\ q.affinity = p.affinity /\ q.owned = p.owned
  <1> DEFINE Without(x) == IF x = a THEN NoAccount ELSE x
             dropped == [p EXCEPT !.active = Without(p.active), !.pin = Without(p.pin)]
             freed == [dropped EXCEPT !.cursor = NoAccount]
             other == Alternate(freed, a, "none")
             promoted == Promote(other.pool, other.account)
             q == ExclusionReconciled(p, a)
  <1>1. /\ dropped \in Pools /\ dropped.affinity = p.affinity /\ dropped.owned = p.owned
    BY DEF Pools, Ids
  <1>2. q \in {dropped, other.pool}
        \/ (other.account # NoAccount /\ q = promoted)
    <2>1. [p EXCEPT !.active = Without(@), !.pin = Without(@)] = dropped
      BY DEF Pools
    <2> QED BY <2>1 DEF ExclusionReconciled
  <1> HIDE DEF dropped
  <1>3. freed \in Pools /\ freed.affinity = p.affinity /\ freed.owned = p.owned
    BY <1>1 DEF Pools, Ids
  <1> HIDE DEF freed
  <1>4. other.account \in Ids /\ SteersIn(freed, other.pool, "none")
    BY <1>3, AlternateAdvances DEF Serving, Ids
  <1>5. other.pool \in Pools
    BY <1>4 DEF SteersIn, Steers
  <1> HIDE DEF other
  <1>6. Steers(other.pool, promoted)
    BY <1>4, <1>5, PromoteSteers
  <1> HIDE DEF promoted, q
  <1>7. q \in Pools /\ q.affinity = p.affinity /\ q.owned = p.owned
    BY <1>1, <1>2, <1>3, <1>4, <1>6 DEF SteersIn, Steers
  <1> QED BY <1>7 DEF q

\* A selection by hand forgets every binding.
LEMMA ResetType ==
    ASSUME NEW p \in Pools, NEW a \in Accounts
    PROVE  LET q == SelectionReset(p, a)
           IN  /\ q \in Pools
               /\ \A t \in Threads, s \in AffinityScopes :
                    q.affinity[t][s] = Unbound /\ q.owned[t][s] = Unowned
  <1> DEFINE rings == [s \in Scopes |-> Seeded(a)]
  <1>1. rings \in [Scopes -> Rings(Accounts, StickyLimit)]
    BY FreshType, RingOfRouting
  <1>2. /\ NoBindings(Unbound) \in [Threads -> [AffinityScopes -> Bindings]]
        /\ NoBindings(Unowned) \in [Threads -> [AffinityScopes -> Ownerships]]
    BY UnboundTypes DEF NoBindings
  <1>3. \A t \in Threads, s \in AffinityScopes :
          NoBindings(Unbound)[t][s] = Unbound /\ NoBindings(Unowned)[t][s] = Unowned
    BY DEF NoBindings
  <1>4. SelectionReset(p, a) =
          [p EXCEPT !.cursor = NoAccount, !.ring = rings,
                    !.affinity = NoBindings(Unbound), !.owned = NoBindings(Unowned)]
    BY DEF SelectionReset
  <1> DEFINE q == SelectionReset(p, a)
  <1> HIDE DEF rings, q
  <1>5. /\ q.affinity = NoBindings(Unbound) /\ q.owned = NoBindings(Unowned)
        /\ q \in Pools
    <2>1. q = [p EXCEPT !.cursor = NoAccount, !.ring = rings,
                        !.affinity = NoBindings(Unbound), !.owned = NoBindings(Unowned)]
      BY <1>4 DEF q
    <2> QED BY <1>1, <1>2, <2>1 DEF Pools, Ids
  <1> QED BY <1>3, <1>5 DEF q

\* A reconciliation touches the rings only.
LEMMA ReconciledSteers ==
    ASSUME NEW p \in Pools, NEW ids \in SUBSET Accounts
    PROVE  Steers(p, RingsReconciled(p, ids)) /\ Stays(p, RingsReconciled(p, ids))
  <1> DEFINE rings == [s \in Scopes |-> ReconcileRing(p.ring[s], ids)]
  <1>1. \A s \in Scopes : p.ring[s] \in Rings(Accounts, StickyLimit)
    BY DEF Pools
  <1>2. rings \in [Scopes -> Rings(Accounts, StickyLimit)]
    BY <1>1, ReconcileType, RingOfRouting
  <1>3. RingsReconciled(p, ids) = [p EXCEPT !.ring = rings]
    BY DEF RingsReconciled
  <1> HIDE DEF rings
  <1> QED BY <1>2, <1>3 DEF Pools, Steers, InSync, Stays

-----------------------------------------------------------------------------
(* The settings.  The places of the accounts stay apart although a removal  *)
(* leaves a gap and an addition numbers them again.                         *)

RankOK ==
    /\ rank \in [Accounts -> 0..Cardinality(Accounts)]
    /\ \A a, b \in configured : rank[a] = rank[b] => a = b
    /\ \A a \in configured : rank[a] = 0 <=> a = Main
    /\ Main \in Accounts => Main \in configured

Routes == [thread : Threads \cup {NoThread}, fixed : BOOLEAN,
           retryOf : Requests \cup {NoLease}]

SettingsOK ==
    /\ paused \subseteq configured
    /\ priority \in [Accounts -> Priorities] /\ strategy \in Strategies
    /\ usage \in [Accounts -> 0..100 \cup {UnknownUsage}]
    /\ route \in [Requests -> Routes]

\* The number of those placed no later than b tells the accounts apart.
LEMMA PlacesApart ==
    ASSUME NEW S, IsFiniteSet(S), NEW f, \A b \in S : f[b] \in Int,
           \A b, c \in S : f[b] = f[c] => b = c
    PROVE  LET Place(b) == Cardinality({c \in S : f[c] <= f[b]})
           IN  /\ \A b \in S : Place(b) \in 1..Cardinality(S)
               /\ \A b, c \in S : Place(b) = Place(c) => b = c
  <1> DEFINE Before(b) == {c \in S : f[c] <= f[b]}
             Place(b) == Cardinality(Before(b))
  <1>1. ASSUME NEW b \in S
        PROVE  /\ IsFiniteSet(Before(b)) /\ b \in Before(b)
               /\ Place(b) \in 1..Cardinality(S)
    <2>1. Before(b) \in SUBSET S /\ b \in Before(b)
      OBVIOUS
    <2> HIDE DEF Before
    <2>2. IsFiniteSet(Before(b)) /\ Cardinality(Before(b)) <= Cardinality(S)
      BY <2>1, FS_Subset
    <2>3. Cardinality(Before(b)) \in Nat /\ Cardinality(S) \in Nat
      BY <2>2, FS_CardinalityType
    <2>4. Cardinality(Before(b)) # 0
      BY <2>1, <2>2, FS_EmptySet
    <2> QED BY <2>1, <2>2, <2>3, <2>4
  <1>2. ASSUME NEW b \in S, NEW c \in S, f[b] <= f[c], Place(b) = Place(c)
        PROVE  b = c
    <2>1. Before(b) \in SUBSET Before(c)
      BY <1>2
    <2>2. c \in Before(c) /\ IsFiniteSet(Before(c))
      BY <1>1
    <2>3. Before(b) = Before(c)
      <3> HIDE DEF Before
      <3> QED BY <1>2, <2>1, <2>2, FS_Subset
    <2>4. c \in Before(b)
      BY <2>2, <2>3
    <2>5. f[c] <= f[b]
      BY <2>4
    <2> QED BY <1>2, <2>5
  <1>3. ASSUME NEW b \in S, NEW c \in S, Place(b) = Place(c) PROVE b = c
    <2>1. f[b] <= f[c] \/ f[c] <= f[b]
      OBVIOUS
    <2> HIDE DEF Place
    <2> QED BY <1>2, <1>3, <2>1
  <1> HIDE DEF Before
  <1>4. /\ \A b \in S : Place(b) \in 1..Cardinality(S)
        /\ \A b, c \in S : Place(b) = Place(c) => b = c
    BY <1>1, <1>3
  <1> QED BY <1>4 DEF Before

\* An addition numbers the accounts again, the new one last.
LEMMA AddRanks ==
    ASSUME TypeOK, RankOK, NEW a \in Accounts, NEW ok, Add(a, ok)
    PROVE  RankOK'
  <1> DEFINE S == configured \ {Main}
             Place(b) == Cardinality({c \in S : rank[c] <= rank[b]})
             n == Cardinality(S)
  <1>1. a \notin configured /\ configured' = configured \cup {a} /\ a # Main
    BY DEF Add, AddAccount, RankOK
  <1>2. IsFiniteSet(S) /\ n \in Nat /\ n + 1 <= Cardinality(Accounts)
        /\ Cardinality(Accounts) \in Nat
    <2>1. IsFiniteSet(Accounts \ {a}) /\ Cardinality(Accounts \ {a}) = Cardinality(Accounts) - 1
      BY FS_RemoveElement, RoutingAssumption
    <2>2. S \in SUBSET (Accounts \ {a})
      BY <1>1 DEF TypeOK
    <2>3. Cardinality(Accounts) \in Nat
      BY RoutingAssumption, FS_CardinalityType
    <2> HIDE DEF S
    <2>4. IsFiniteSet(S) /\ Cardinality(S) <= Cardinality(Accounts \ {a})
      BY <2>1, <2>2, FS_Subset
    <2>5. Cardinality(S) \in Nat
      BY <2>4, FS_CardinalityType
    <2> QED BY <2>1, <2>3, <2>4, <2>5
  <1>3. /\ \A b \in S : rank[b] \in Int
        /\ \A b, c \in S : rank[b] = rank[c] => b = c
    BY DEF RankOK, TypeOK
  <1>4. S = {c \in configured : c # Main} /\ a \notin S
    BY <1>1
  <1>5. rank' = [b \in Accounts |-> IF b = a THEN n + 1
                                    ELSE IF b \in S THEN Place(b) ELSE 0]
    BY <1>4 DEF Add
  <1> HIDE DEF S
  <1>6. /\ \A b \in S : Place(b) \in 1..n
        /\ \A b, c \in S : Place(b) = Place(c) => b = c
    BY <1>2, <1>3, PlacesApart
  <1> HIDE DEF Place, n
  <1>7. rank' \in [Accounts -> 0..Cardinality(Accounts)]
    BY <1>2, <1>5, <1>6
  <1>8. \A b \in configured' : b \in Accounts /\ (b = a \/ b \in S \/ b = Main)
    BY <1>1 DEF S, TypeOK
  <1>9. Main \notin S
    BY DEF S
  <1>10. \A b \in configured' : \/ b = a /\ rank'[b] = n + 1
                                \/ b \in S /\ b # a /\ rank'[b] = Place(b)
                                \/ b = Main /\ b \notin S /\ b # a /\ rank'[b] = 0
    BY <1>1, <1>4, <1>5, <1>8, <1>9
  <1>11. \A b, c \in configured' : rank'[b] = rank'[c] => b = c
    BY <1>2, <1>6, <1>10
  <1>12. \A b \in configured' : rank'[b] = 0 <=> b = Main
    BY <1>1, <1>2, <1>6, <1>9, <1>10
  <1> QED BY <1>1, <1>7, <1>11, <1>12 DEF RankOK

-----------------------------------------------------------------------------
(* The settings and the routes, step by step.                              *)

Routable == TypeOK /\ ScopeInv /\ RankOK /\ SettingsOK /\ pool \in Pools

\* The invariant gives the selection the types it reads.
LEMMA RoutableIsSettled ==
    ASSUME Routable
    PROVE  Settled /\ strategy \in Strategies /\ configured \subseteq Accounts
  <1>1. Cardinality(Accounts) \in Nat
    BY RoutingAssumption, FS_CardinalityType
  <1>2. rank \in [Accounts -> Int]
    BY <1>1 DEF Routable, RankOK
  <1>3. priority \in [Accounts -> Int]
    BY RoutingAssumption DEF Routable, SettingsOK
  <1>4. usage \in [Accounts -> Int]
    BY DEF Routable, SettingsOK, UnknownUsage
  <1> QED BY <1>2, <1>3, <1>4 DEF Routable, SettingsOK, Settled, TypeOK

\* Requests change no setting, and no account is added or removed by one.
LEMMA RequestLeaves ==
    ASSUME Routable, RequestRouting
    PROVE  UNCHANGED <<settings, configured>>
  <1>1. [Next]_vars
    BY RoutedStep DEF Routable
  <1>2. ASSUME NEW r \in Requests, NEW a, NEW scope, Admit(r, a, scope) \/ AdmitProbe(r, a, scope)
        PROVE  UNCHANGED configured
    BY <1>2 DEF Admit, AdmitProbe, accountVars
  <1>3. ASSUME NEW r \in Requests, Authenticate(r) \/ Outcome(r) \/ Reuse(r)
        PROVE  UNCHANGED configured
    BY <1>3 DEF Authenticate, Outcome, Reuse, TokenReady, TokenRejected, TokenFailed, Recycle,
                Neutral, Dropped, Abandon, Success, Credential, Quota, Transient, accountVars
  <1>4. UNCHANGED configured
    BY <1>2, <1>3 DEF RequestRouting, AdmitThread, Refuse, AdmitFixed, Retry, vars, accountVars
  <1>5. UNCHANGED settings
    BY DEF RequestRouting, AdmitThread, Refuse, AdmitFixed, Retry, Authenticate, Outcome, Reuse
  <1> QED BY <1>4, <1>5

\* What a request remembers of its routing keeps its type.
LEMMA RequestRoutes ==
    ASSUME Routable, RequestRouting
    PROVE  route' \in [Requests -> Routes]
  <1>1. route \in [Requests -> Routes]
    BY DEF Routable, SettingsOK
  <1>2. ASSUME NEW r \in Requests, NEW t \in Threads \cup {NoThread}, NEW fixed \in BOOLEAN,
               NEW origin \in Requests \cup {NoLease}, Routed(r, t, fixed, origin)
        PROVE  route' \in [Requests -> Routes]
    BY <1>1, <1>2 DEF Routed, Routes
  <1>3. ASSUME NEW q \in Requests, NEW r \in Requests, Retry(q, r)
        PROVE  route' \in [Requests -> Routes]
    <2>1. Routed(q, route[r].thread, FALSE, r) /\ route[r].thread \in Threads \cup {NoThread}
      BY <1>1, <1>3 DEF Retry, Routes
    <2> QED BY <1>2, <2>1
  <1>4. ASSUME NEW r \in Requests,
               Authenticate(r) \/ Outcome(r) \/ Reuse(r)
        PROVE  route' \in [Requests -> Routes]
    <2>1. UNCHANGED route \/ Routed(r, NoThread, FALSE, NoLease)
      BY <1>4 DEF Authenticate, Outcome, Reuse
    <2> QED BY <1>1, <1>2, <2>1
  <1>5. ASSUME NEW r \in Requests, NEW t \in Threads \cup {NoThread}, NEW scope,
               AdmitThread(r, t, scope)
        PROVE  route' \in [Requests -> Routes]
    BY <1>2, <1>5 DEF AdmitThread
  <1>6. ASSUME NEW r \in Requests, NEW a, NEW scope, AdmitFixed(r, a, scope)
        PROVE  route' \in [Requests -> Routes]
    BY <1>2, <1>6 DEF AdmitFixed
  <1>7. ASSUME NEW t, NEW scope, Refuse(t, scope) PROVE route' \in [Requests -> Routes]
    BY <1>1, <1>7 DEF Refuse
  <1> QED BY <1>3, <1>4, <1>5, <1>6, <1>7 DEF RequestRouting

\* What is left where it was by everything that is not about routing.
LEMMA ElsewhereLeaves ==
    ASSUME Elsewhere
    PROVE  UNCHANGED <<pool, settings, route, configured, request>>
  <1>1. UNCHANGED <<configured, request>>
    BY DEF Elsewhere, ClearCooldown, RefreshCredential, Reauthenticate, ClaimRecoveryProbes,
           Settle, Tick, accountVars
  <1> QED BY <1>1 DEF Elsewhere

\* Every step keeps the settings and the places.
LEMMA SettingsStep ==
    ASSUME Routable, [RoutingNext]_routingVars
    PROVE  SettingsOK' /\ RankOK'
  <1> USE DEF Routable
  <1>1. CASE RequestRouting
    <2>1. UNCHANGED <<settings, configured>> /\ route' \in [Requests -> Routes]
      BY <1>1, RequestLeaves, RequestRoutes
    <2> QED BY <2>1 DEF settings, SettingsOK, RankOK
  <1>2. CASE Elsewhere \/ UNCHANGED routingVars
    <2>1. UNCHANGED <<settings, route, configured>>
      BY <1>2, ElsewhereLeaves DEF routingVars, vars, accountVars
    <2> QED BY <2>1 DEF settings, SettingsOK, RankOK
  <1>3. CASE RestartRouting
    <2>1. UNCHANGED <<configured, paused, priority, strategy, rank>>
      BY <1>3 DEF RestartRouting, Restart
    <2>2. usage' \in [Accounts -> 0..100 \cup {UnknownUsage}]
      BY <1>3 DEF RestartRouting, SettingsOK
    <2>3. route' \in [Requests -> Routes]
      BY <1>3 DEF RestartRouting, Routes, Unrouted
    <2> QED BY <2>1, <2>2, <2>3 DEF SettingsOK, RankOK
  <1>4. CASE OperatorRouting
    <2>1. ASSUME NEW a \in Accounts, Pause(a) \/ Unpause(a)
          PROVE  SettingsOK' /\ RankOK'
      BY <2>1 DEF Pause, Unpause, SettingsOK, RankOK, vars, accountVars
    <2>2. ASSUME NEW a \in Accounts, Select(a) PROVE SettingsOK' /\ RankOK'
      BY <2>2 DEF Select, SelectManually, settings, SettingsOK, RankOK, accountVars
    <2>3. ASSUME NEW a \in Accounts, NEW n \in Priorities, SetPriority(a, n)
          PROVE  SettingsOK' /\ RankOK'
      BY <2>3 DEF SetPriority, SettingsOK, RankOK, vars, accountVars
    <2>4. ASSUME NEW s \in Strategies, SetStrategy(s) PROVE SettingsOK' /\ RankOK'
      BY <2>4 DEF SetStrategy, SettingsOK, RankOK, vars, accountVars
    <2>5. ASSUME NEW a \in Accounts, NEW ok, Remove(a, ok) PROVE SettingsOK' /\ RankOK'
      <3>1. /\ configured' = configured \ {a} /\ paused' = paused \ {a} /\ a # Main
            /\ priority' = [priority EXCEPT ![a] = 0]
            /\ usage' = [usage EXCEPT ![a] = UnknownUsage]
            /\ UNCHANGED <<strategy, rank, route>>
        BY <2>5 DEF Remove, RemoveAccount
      <3>2. SettingsOK'
        BY <3>1, RoutingAssumption DEF SettingsOK
      <3>3. RankOK'
        BY <3>1 DEF RankOK
      <3> QED BY <3>2, <3>3
    <2>6. ASSUME NEW a \in Accounts, NEW ok, Add(a, ok) PROVE SettingsOK' /\ RankOK'
      <3>1. RankOK'
        BY <2>6, AddRanks
      <3>2. SettingsOK'
        BY <2>6 DEF Add, AddAccount, SettingsOK
      <3> QED BY <3>1, <3>2
    <2>7. ASSUME NEW ok, ReconcileStores(ok) PROVE SettingsOK' /\ RankOK'
      BY <2>7 DEF ReconcileStores, Reconcile, settings, SettingsOK, RankOK
    <2>8. CASE SwitchMain
      BY <2>8 DEF SwitchMain, SwitchMainIdentity, SettingsOK, RankOK
    <2>9. ASSUME NEW a \in Accounts, NEW u \in Usages, ReportUsage(a, u)
          PROVE  SettingsOK' /\ RankOK'
      BY <2>9, RoutingAssumption DEF ReportUsage, SettingsOK, RankOK, vars, accountVars
    <2> QED BY <1>4, <2>1, <2>2, <2>3, <2>4, <2>5, <2>6, <2>7, <2>8, <2>9 DEF OperatorRouting
  <1> QED BY <1>1, <1>2, <1>3, <1>4 DEF RoutingNext

-----------------------------------------------------------------------------
(* What a step of a request does to the pool.                              *)

\* A binding to a that could go on could not any longer, or a was answered 429.
Ends(a) ==
    \A s \in AffinityScopes, entry \in Bindings :
        (entry.account = a /\ HealthyBinding(entry, s)) =>
            ~HealthyBinding(entry, s)' \/ written'[a] # written[a]

Grants(r) ==
    \E a \in Accounts \ paused, scope \in ModelScopes, slot \in Slots \cup {"none"} :
        /\ request[r].state = "idle"
        /\ Admitted(r, a, scope, slot)
        /\ Onward(pool, pool', scope)

Strikes(r) ==
    /\ request[r].state = "sent"
    /\ Done(r)
    /\ Ends(request[r].account)
    /\ Befalls(pool, pool', request[r].account, request[r].scope)

\* No attempt begins.
Grantless == \A r \in Requests : request[r].state = "idle" => request'[r].state # "auth"

\* An admission of an account that is not paused, by a step onward.
LEMMA AdmitGrants ==
    ASSUME Routable, NEW r \in Requests, NEW a \in Accounts \ paused, NEW scope \in ModelScopes,
           Admit(r, a, scope) \/ AdmitProbe(r, a, scope), Onward(pool, pool', scope)
    PROVE  Grants(r)
  <1>1. CoolingSlot(a, scope) \in Slots \cup {"none"}
    BY HealthAssumption DEF CoolingSlot, Slots, Scopes
  <1>2. PICK slot \in Slots \cup {"none"} : Admitted(r, a, scope, slot)
    BY <1>1 DEF Admit, AdmitProbe
  <1>3. request[r].state = "idle"
    BY DEF Admit, AdmitProbe
  <1> QED BY <1>2, <1>3 DEF Grants

\* A request of a thread is admitted to what the pool resolved.
LEMMA ThreadGrants ==
    ASSUME Routable, NEW r \in Requests, NEW t \in Threads \cup {NoThread},
           NEW scope \in ModelScopes, AdmitThread(r, t, scope)
    PROVE  Grants(r)
  <1> DEFINE resolution == Resolve(pool, t, scope)
  <1>1. Resolves(pool, resolution, scope)
    BY RoutableIsSettled, ScopesOfRouting, ResolveResolves DEF Routable
  <1>2. /\ resolution.status = "selected" /\ pool' = resolution.pool
        /\ Admit(r, resolution.account, scope) \/ AdmitProbe(r, resolution.account, scope)
    BY DEF AdmitThread
  <1> HIDE DEF resolution
  <1>3. resolution.account \in Accounts \ paused /\ Onward(pool, pool', scope)
    BY <1>1, <1>2 DEF Resolves
  <1> QED BY <1>2, <1>3, AdmitGrants

\* A refusal leaves the pool where the resolution moved it.
LEMMA RefuseMoves ==
    ASSUME Routable, NEW t \in Threads \cup {NoThread}, NEW scope \in AffinityScopes,
           Refuse(t, scope)
    PROVE  Onward(pool, pool', scope)
  <1>1. Resolves(pool, Resolve(pool, t, scope), scope)
    BY RoutableIsSettled, ResolveResolves DEF Routable
  <1> QED BY <1>1 DEF Refuse, Resolves

\* An exact binding moves nothing.
LEMMA FixedGrants ==
    ASSUME Routable, NEW r \in Requests, NEW a \in Accounts, NEW scope \in ModelScopes,
           AdmitFixed(r, a, scope)
    PROVE  Grants(r)
  <1>1. Onward(pool, pool, scope)
    BY SteersNot, SteersOnward DEF Stays, Routable
  <1> QED BY <1>1, AdmitGrants DEF AdmitFixed

\* A retry goes to an alternate, which is not paused.
LEMMA RetryGrants ==
    ASSUME Routable, NEW q \in Requests, NEW r \in Requests, Retry(q, r)
    PROVE  Grants(q)
  <1> DEFINE scope == request[r].scope
             other == Alternate(pool, request[r].account, scope)
  <1>1. scope \in ModelScopes
    BY DEF Retry, Routable, ScopeInv, InFlight
  <1>2. /\ other.account # NoAccount /\ pool' = other.pool
        /\ Admit(q, other.account, scope) \/ AdmitProbe(q, other.account, scope)
    BY DEF Retry
  <1> HIDE DEF scope
  <1>3. /\ other.account \in Serving(scope) \cup {NoAccount}
        /\ SteersIn(pool, other.pool, scope) /\ Stays(pool, other.pool)
    BY RoutableIsSettled, AlternateAdvances DEF Routable
  <1> HIDE DEF other
  <1>4. other.account \in Accounts \ paused
    BY <1>2, <1>3, RoutableIsSettled, ServingIsOpen
  <1>5. Onward(pool, pool', scope)
    BY <1>2, <1>3, SteersOnward
  <1> QED BY <1>1, <1>2, <1>4, <1>5, AdmitGrants

\* A rejected credential, a 429 and a failure that trips failover each leave the
\* account in a state that no binding goes on in.
LEMMA CredentialEnds ==
    ASSUME Routable, NEW r \in Requests, Credential(r)
    PROVE  Ends(request[r].account)
  <1>1. request[r].account \in needsReauth'
    BY DEF Credential
  <1> QED BY <1>1 DEF Ends, HealthyBinding, Selectable, Usable

\* A 429 is counted for its account.
LEMMA QuotaEnds ==
    ASSUME Routable, NEW r \in Requests, NEW source, NEW delay, Quota(r, source, delay)
    PROVE  Ends(request[r].account)
  <1> DEFINE a == request[r].account
             slot == QuotaSlot(r, source)
  <1>1. a \in Accounts /\ slot \in Slots
    BY DEF Quota, Records, QuotaSlot, Routable, TypeOK, Slots
  <1>2. written' = [written EXCEPT ![a][slot] = @ + 1]
    BY DEF Quota
  <1>3. written \in [Accounts -> [Slots -> Nat]]
    BY DEF Routable, TypeOK
  <1> HIDE DEF a, slot
  <1>4. written'[a][slot] = written[a][slot] + 1 /\ written[a][slot] \in Nat
    BY <1>1, <1>2, <1>3
  <1>5. written'[a] # written[a]
    BY <1>4
  <1> QED BY <1>5 DEF Ends, a

\* A streak that trips failover starts a soft avoid that lies ahead.
LEMMA StreakEnds ==
    ASSUME Routable, NEW r \in Requests, Transient(r),
           FailoverReady(Streak(health[request[r].account]["account"]))
    PROVE  Ends(request[r].account)
  <1>1. PICK a \in Accounts : a = request[r].account
    BY DEF Transient, Records, Routable, TypeOK
  <1> DEFINE h == ScopedReleased(r)["account"]
             after == AfterTransient(h, r)
  <1>2. h = health[a]["account"] /\ h \in Health /\ FailoverReady(Streak(h))
    <2>1. "account" \in Slots /\ "account" \notin Scopes
      BY DEF Slots, Scopes
    <2>2. h = health[a]["account"]
      BY <1>1, <2>1 DEF ScopedReleased
    <2>3. health \in [Accounts -> [Slots -> Health]]
      BY DEF Routable, TypeOK
    <2> QED BY <1>1, <2>1, <2>2, <2>3
  <1>3. health'[a]["account"] = after
    <2>1. "account" \in Slots /\ DOMAIN ScopedReleased(r) = Slots
      BY DEF Slots, ScopedReleased
    <2>2. health' = [health EXCEPT ![a] = [ScopedReleased(r) EXCEPT !["account"] = after]]
      BY <1>1 DEF Transient
    <2>3. a \in DOMAIN health
      BY <1>1 DEF Routable, TypeOK
    <2> HIDE DEF after
    <2> QED BY <2>1, <2>2, <2>3
  <1>4. now' = now /\ now \in Nat
    BY DEF Transient, Routable, TypeOK
  <1> HIDE DEF after, h
  <1>5. after.softAvoidUntil > now
    <2>1. Streak(h) \in Nat
      BY <1>2, <1>4 DEF Streak, Health
    <2>2. Escalation(Streak(h)) \in Durations
      BY <2>1, HealthAssumption DEF Escalation
    <2>3. now + Escalation(Streak(h)) > now /\ h.softAvoidUntil \in Int
      BY <1>2, <1>4, <2>2 DEF Durations, Health, Time, Never
    <2>4. after.softAvoidUntil = Larger(h.softAvoidUntil, now + Escalation(Streak(h)))
      <3>1. Preserved(ReleaseIfOwned(h, r)) \in Health
        BY <1>2, <1>4, RecordTypes, PreservedType, RequestIsLease DEF ReleaseIfOwned
      <3> HIDE DEF h
      <3> QED BY <1>2, <3>1 DEF after, AfterTransient, Health
    <2> QED BY <1>4, <2>2, <2>3, <2>4 DEF Larger, Durations
  <1>6. SoftAvoided(health[a]["account"])'
    BY <1>3, <1>4, <1>5 DEF SoftAvoided
  <1>7. Ends(a)
    BY <1>6 DEF Ends, HealthyBinding, Selectable
  <1> QED BY <1>1, <1>7

\* An outcome leaves the pool alone or strikes the account of its request.
LEMMA OutcomeMoves ==
    ASSUME Routable, NEW r \in Requests, Outcome(r)
    PROVE  (pool' = pool /\ Grantless) \/ Strikes(r)
  <1> DEFINE a == request[r].account
  <1>1. request[r].state = "sent"
    BY DEF Outcome, Neutral, Dropped, Abandon, Success, Credential, Quota, Transient, Records
  <1>2. a \in Accounts
    BY <1>1 DEF Routable, TypeOK
  <1>3. \E state \in {"done", "abandoned"} : request' = [request EXCEPT ![r] = Resting(state)]
    BY DEF Outcome, Neutral, Dropped, Abandon, Success, Credential, Quota, Transient, Records,
           Done
  <1>4. Grantless
    BY <1>1, <1>3 DEF Grantless, Resting, Routable, TypeOK
  <1>5. CASE Credential(r) /\ pool' = UnboundFrom(pool, a)
    BY <1>1, <1>2, <1>5, UnboundFromBinds, CredentialEnds DEF Strikes, Credential, Records, Routable
  <1>6. ASSUME NEW q \in QuotaHints(r), Quota(r, q[1], q[2]), pool' = AfterQuota(r, q[1])
        PROVE  Strikes(r)
    BY <1>1, <1>2, <1>6, RoutableIsSettled, AfterQuotaBefalls, QuotaEnds
    DEF Strikes, Quota, Records, Routable
  <1>7. CASE Transient(r) /\ pool' = AfterStreak(r)
    BY <1>1, <1>2, <1>4, <1>7, RoutableIsSettled, AfterStreakBefalls, StreakEnds
    DEF Strikes, Transient, Records, Routable
  <1>8. CASE pool' = pool
    BY <1>4, <1>8
  <1> QED BY <1>5, <1>6, <1>7, <1>8 DEF Outcome

\* The steps of requests, taken together.
LEMMA RequestMoves ==
    ASSUME Routable, RequestRouting
    PROVE  \/ \E r \in Requests : Grants(r) \/ Strikes(r)
           \/ /\ UNCHANGED vars
              /\ \E scope \in ModelScopes : Onward(pool, pool', scope)
           \/ pool' = pool /\ Grantless
  <1>1. ASSUME NEW r \in Requests, Authenticate(r) \/ Reuse(r)
        PROVE  pool' = pool /\ Grantless
    BY <1>1 DEF Authenticate, Reuse, TokenReady, TokenRejected, TokenFailed, Done, Recycle,
                Resting, Grantless, Routable, TypeOK
  <1>2. ASSUME NEW t \in Threads \cup {NoThread}, NEW scope \in ModelScopes, Refuse(t, scope)
        PROVE  UNCHANGED vars /\ Onward(pool, pool', scope)
    BY <1>2, RefuseMoves, ScopesOfRouting DEF Refuse
  <1> QED BY <1>1, <1>2, ThreadGrants, FixedGrants, RetryGrants, OutcomeMoves DEF RequestRouting

-----------------------------------------------------------------------------
(* What any step does to the pool.                                         *)

\* The bodies of StickyUntilCause and RotationNeverPersists.
Sticks ==
    \A t \in Threads, s \in AffinityScopes, entry \in Bindings :
        (/\ pool.affinity[t][s] = entry /\ Reusable(entry, s)
         /\ pool'.affinity[t][s].account # entry.account)
          => \/ ~HealthyBinding(entry, s)'
             \/ written'[entry.account] # written[entry.account]
             \/ \E a \in Accounts : Select(a)
             \/ Restart

Persists ==
    (strategy # "quota" /\ pool'.saved.active # pool.saved.active)
      => \/ \E a \in Accounts : Select(a) \/ Pause(a)
         \/ configured' # configured

Orderly ==
    /\ pool' \in Pools
    /\ InSync(pool) => InSync(pool') /\ Persists
    /\ Open(pool) => Open(pool)'
    /\ Sticks

\* A step that only steers.
LEMMA SteersOrderly ==
    ASSUME Steers(pool, pool'), OpenAccounts \subseteq OpenAccounts', InSync(pool) => Persists
    PROVE  Orderly
  <1>1. Sticks
    BY DEF Steers, Sticks
  <1>2. Open(pool) => Open(pool)'
    BY DEF Steers, Open
  <1> QED BY <1>1, <1>2 DEF Orderly, Steers

\* A step that ends the bindings of an account.
LEMMA ShedOrderly ==
    ASSUME Routable, NEW a \in Accounts, pool' \in Pools, Ends(a),
           pool'.affinity = UnboundFrom(pool, a).affinity,
           pool'.owned = UnboundFrom(pool, a).owned,
           OpenAccounts \ {a} \subseteq OpenAccounts',
           InSync(pool) => InSync(pool') /\ Persists
    PROVE  Orderly
  <1> DEFINE q == UnboundFrom(pool, a)
  <1>1. /\ Befalls(pool, q, a, "none")
        /\ \A t \in Threads, s \in AffinityScopes :
             a \notin {q.affinity[t][s].account, q.owned[t][s].account}
    BY UnboundFromBinds DEF Routable
  <1> HIDE DEF q
  <1>2. pool'.affinity = q.affinity /\ pool'.owned = q.owned
    BY DEF q
  <1>3. Spares(pool, pool', a)
    BY <1>1, <1>2 DEF Befalls, Spares
  <1>4. Sticks
    BY <1>3 DEF Sticks, Spares, Ends, Reusable
  <1>5. Open(pool) => Open(pool)'
    <2> SUFFICES ASSUME Open(pool) PROVE Open(pool)'
      OBVIOUS
    <2>1. Open(q)
      BY <1>1 DEF Befalls
    <2>2. ASSUME NEW t \in Threads, NEW s \in AffinityScopes
          PROVE  {pool'.affinity[t][s].account, pool'.owned[t][s].account} \subseteq OpenAccounts'
      <3>1. {q.affinity[t][s].account, q.owned[t][s].account} \subseteq OpenAccounts \ {a}
        BY <1>1, <2>1 DEF Open
      <3> QED BY <1>2, <3>1
    <2> QED BY <2>2 DEF Open
  <1> QED BY <1>4, <1>5 DEF Orderly

\* A step of a request is orderly.
LEMMA RequestOrderly ==
    ASSUME Routable, RequestRouting
    PROVE  Orderly
  <1>1. UNCHANGED <<paused, configured>>
    BY RequestLeaves DEF settings
  <1>2. OpenAccounts' = OpenAccounts
    BY <1>1 DEF OpenAccounts
  <1>3. ASSUME NEW scope, Onward(pool, pool', scope) PROVE Orderly
    <2>1. Sticks
      BY <1>3 DEF Onward, Keeps, Sticks
    <2>2. Open(pool) => Open(pool)'
      BY <1>2, <1>3 DEF Onward, Open
    <2> QED BY <1>3, <2>1, <2>2 DEF Orderly, Onward, Stays, Persists
  <1>4. ASSUME NEW r \in Requests, Strikes(r) PROVE Orderly
    <2>1. PICK a \in Accounts : a = request[r].account
      BY <1>4 DEF Strikes, Routable, TypeOK
    <2>2. Befalls(pool, pool', a, request[r].scope) /\ Ends(a)
      BY <1>4, <2>1 DEF Strikes
    <2>3. Sticks
      BY <2>2 DEF Befalls, Spares, Ends, Sticks, Reusable
    <2>4. Open(pool) => Open(pool)'
      BY <1>2, <2>2 DEF Befalls, Open
    <2> QED BY <2>2, <2>3, <2>4 DEF Orderly, Befalls, Stays, Persists
  <1>5. CASE pool' = pool
    <2>1. Steers(pool, pool') /\ Persists
      BY <1>5 DEF Steers, Persists, Routable
    <2> QED BY <1>2, <2>1, SteersOrderly
  <1> QED BY <1>3, <1>4, <1>5, RequestMoves DEF Grants

\* The pause of an account ends its bindings, and a selection that moves is saved.
LEMMA PauseOrderly ==
    ASSUME Routable, NEW a \in Accounts, Pause(a)
    PROVE  Orderly
  <1> DEFINE u == UnboundFrom(pool, a)
             e == ExclusionReconciled(u, a)
  <1>1. u \in Pools
    BY UnboundFromBinds DEF Binds, Routable
  <1> HIDE DEF u
  <1>2. e \in Pools /\ e.affinity = u.affinity /\ e.owned = u.owned
    BY <1>1, RoutableIsSettled, ExclusionSteers
  <1>3. pool' = Saved(e) /\ paused' = paused \cup {a} /\ configured' = configured
    BY DEF Pause, vars, accountVars, u
  <1> HIDE DEF e
  <1>4. Steers(e, pool') /\ InSync(pool')
    BY <1>2, <1>3, SavedSteers
  <1>5. Ends(a)
    BY <1>3 DEF Ends, HealthyBinding, Selectable
  <1>6. OpenAccounts \ {a} \subseteq OpenAccounts'
    BY <1>3 DEF OpenAccounts
  <1>7. Persists
    BY DEF Persists
  <1> QED BY <1>2, <1>4, <1>5, <1>6, <1>7, ShedOrderly DEF Steers, u

\* The removal of an account ends its bindings, whatever the cursor is.
LEMMA RemoveOrderly ==
    ASSUME Routable, NEW a \in Accounts, NEW ok, Remove(a, ok)
    PROVE  Orderly
  <1> DEFINE p == [pool EXCEPT !.active = IF @ = a THEN NoAccount ELSE @,
                               !.pin = IF @ = a THEN NoAccount ELSE @]
             u == UnboundFrom(p, a)
             s == Saved(u)
  <1>1. /\ pool' = RingsReconciled(s, configured')
        /\ configured' = configured \ {a} /\ a \in configured
        /\ paused' = paused \ {a}
    BY DEF Remove, RemoveAccount
  <1>2. /\ p \in Pools /\ p.affinity = pool.affinity /\ p.owned = pool.owned
    BY DEF Routable, Pools, Ids
  <1>3. /\ u.affinity = UnboundFrom(pool, a).affinity
        /\ u.owned = UnboundFrom(pool, a).owned
    <2> HIDE DEF p
    <2> QED BY <1>2 DEF UnboundFrom, Pools, Routable
  <1> HIDE DEF p
  <1>4. u \in Pools
    BY <1>2, UnboundFromBinds DEF Binds
  <1> HIDE DEF u
  <1>5. Steers(u, s) /\ InSync(s)
    BY <1>4, SavedSteers
  <1> HIDE DEF s
  <1>6. configured' \in SUBSET Accounts
    BY <1>1, RoutableIsSettled
  <1>7. Steers(s, pool')
    BY <1>1, <1>5, <1>6, ReconciledSteers DEF Steers
  <1>8. Ends(a)
    BY <1>1 DEF Ends, HealthyBinding, Selectable, Usable
  <1>9. OpenAccounts \ {a} \subseteq OpenAccounts' /\ Persists
    BY <1>1 DEF OpenAccounts, Persists
  <1> QED BY <1>3, <1>5, <1>7, <1>8, <1>9, ShedOrderly DEF Steers

\* Another native login ends the bindings to the old one.
LEMMA SwitchMainOrderly ==
    ASSUME Routable, SwitchMain
    PROVE  Orderly
  <1>1. /\ Main \in Accounts /\ pool' = UnboundFrom(pool, Main)
        /\ identity' = [identity EXCEPT ![Main] = @ + 1]
        /\ UNCHANGED <<configured, paused>>
    BY DEF SwitchMain, SwitchMainIdentity
  <1>2. Binds(pool, pool')
    BY <1>1, UnboundFromBinds DEF Routable
  <1>3. identity'[Main] # identity[Main]
    BY <1>1 DEF Routable, TypeOK
  <1>4. Ends(Main)
    BY <1>3 DEF Ends, HealthyBinding, Login
  <1>5. OpenAccounts \ {Main} \subseteq OpenAccounts'
    BY <1>1 DEF OpenAccounts
  <1> QED BY <1>1, <1>2, <1>4, <1>5, ShedOrderly DEF Binds, InSync, Persists

\* A selection by hand forgets every binding and is saved.
LEMMA SelectOrderly ==
    ASSUME Routable, NEW a \in Accounts, Select(a)
    PROVE  Orderly
  <1>1. PICK x \in {a, NoAccount} :
          pool' = Saved(SelectionReset([pool EXCEPT !.active = x, !.pin = x], a))
    BY DEF Select
  <1> DEFINE p == [pool EXCEPT !.active = x, !.pin = x]
             q == SelectionReset(p, a)
  <1>2. p \in Pools
    BY DEF Routable, Pools, Ids
  <1> HIDE DEF p
  <1>3. /\ q \in Pools
        /\ \A t \in Threads, s \in AffinityScopes :
             q.affinity[t][s] = Unbound /\ q.owned[t][s] = Unowned
    BY <1>2, ResetType
  <1>4. pool' = Saved(q)
    BY <1>1 DEF p
  <1> HIDE DEF q
  <1>5. Steers(q, pool') /\ InSync(pool')
    BY <1>3, <1>4, SavedSteers
  <1>6. Open(pool)'
    BY <1>3, <1>5, UnboundTypes DEF Open, OpenAccounts, Steers
  <1>7. Sticks /\ Persists
    BY DEF Sticks, Persists
  <1> QED BY <1>5, <1>6, <1>7 DEF Orderly, Steers

\* A restart finds the selection that was saved and the owners on disk.
LEMMA RestartOrderly ==
    ASSUME Routable, RestartRouting
    PROVE  Orderly
  <1> DEFINE rings == [s \in Scopes |-> NoRing]
  <1>1. rings \in [Scopes -> Rings(Accounts, StickyLimit)]
    BY FreshType, RingOfRouting
  <1>2. /\ NoBindings(Unbound) \in [Threads -> [AffinityScopes -> Bindings]]
        /\ \A t \in Threads, s \in AffinityScopes : NoBindings(Unbound)[t][s] = Unbound
    BY UnboundTypes DEF NoBindings
  <1>3. pool' = [pool EXCEPT !.active = pool.saved.active, !.pin = pool.saved.pin,
                             !.cursor = NoAccount, !.ring = rings,
                             !.affinity = NoBindings(Unbound)]
    BY DEF RestartRouting
  <1> HIDE DEF rings
  <1>4. /\ pool' \in Pools /\ pool'.affinity = NoBindings(Unbound)
        /\ pool'.owned = pool.owned /\ pool'.saved = pool.saved
        /\ pool'.active = pool.saved.active
    BY <1>1, <1>2, <1>3 DEF Routable, Pools, Ids
  <1>5. OpenAccounts' = OpenAccounts
    BY DEF RestartRouting, Restart, OpenAccounts
  <1>6. Open(pool) => Open(pool)'
    BY <1>2, <1>4, <1>5, UnboundTypes DEF Open, OpenAccounts
  <1>7. Sticks /\ Persists /\ InSync(pool')
    BY <1>4 DEF RestartRouting, Sticks, Persists, InSync
  <1> QED BY <1>4, <1>6, <1>7 DEF Orderly

\* Every step of the operator is orderly.
LEMMA OperatorOrderly ==
    ASSUME Routable, OperatorRouting
    PROVE  Orderly
  <1>1. ASSUME NEW p \in Pools, Steers(pool, p), pool' = Saved(p), p.active = pool.active,
               OpenAccounts \subseteq OpenAccounts'
        PROVE  Orderly
    <2>1. Steers(p, pool') /\ InSync(pool')
      BY <1>1, SavedSteers
    <2>2. pool'.active = p.active
      BY <1>1 DEF Saved, Pools
    <2>3. InSync(pool) => Persists
      BY <1>1, <2>1, <2>2 DEF InSync, Persists
    <2> QED BY <1>1, <2>1, <2>3, SteersOrderly DEF Steers
  <1>2. pool \in Pools /\ Steers(pool, pool)
    BY DEF Routable, Steers
  <1>3. ASSUME NEW a \in Accounts, Unpause(a) PROVE Orderly
    <2>1. OpenAccounts \subseteq OpenAccounts'
      BY <1>3 DEF Unpause, OpenAccounts, vars, accountVars
    <2> QED BY <1>1, <1>2, <1>3, <2>1 DEF Unpause
  <1>4. ASSUME NEW a \in Accounts, NEW n, SetPriority(a, n) PROVE Orderly
    <2> DEFINE p == [pool EXCEPT !.pin = NoAccount]
    <2>1. p \in Pools /\ Steers(pool, p) /\ p.active = pool.active
      BY DEF Routable, Pools, Ids, Steers, InSync
    <2>2. OpenAccounts \subseteq OpenAccounts' /\ pool' = Saved(p)
      BY <1>4 DEF SetPriority, OpenAccounts, vars, accountVars
    <2> HIDE DEF p
    <2> QED BY <1>1, <2>1, <2>2
  <1>5. ASSUME NEW s, SetStrategy(s) PROVE Orderly
    <2>1. OpenAccounts \subseteq OpenAccounts'
      BY <1>5 DEF SetStrategy, OpenAccounts, vars, accountVars
    <2> QED BY <1>1, <1>2, <1>5, <2>1 DEF SetStrategy
  <1>6. ASSUME NEW a \in Accounts, NEW ok, Add(a, ok) PROVE Orderly
    <2>1. /\ pool' = RingsReconciled(Saved(pool), configured')
          /\ configured' = configured \cup {a} /\ paused' = paused /\ a \notin configured
      BY <1>6 DEF Add, AddAccount
    <2>2. Steers(pool, Saved(pool)) /\ configured' \in SUBSET Accounts
      BY <1>2, <2>1, SavedSteers, RoutableIsSettled
    <2>3. Steers(pool, pool')
      BY <2>1, <2>2, ReconciledSteers DEF Steers
    <2>4. OpenAccounts \subseteq OpenAccounts' /\ Persists
      BY <2>1 DEF OpenAccounts, Persists
    <2> QED BY <2>3, <2>4, SteersOrderly
  <1>7. ASSUME NEW ok, ReconcileStores(ok) PROVE Orderly
    <2>1. pool' = RingsReconciled(pool, configured) /\ UNCHANGED <<configured, paused>>
      BY <1>7 DEF ReconcileStores, Reconcile, settings
    <2>2. Steers(pool, pool') /\ Stays(pool, pool')
      BY <1>2, <2>1, ReconciledSteers, RoutableIsSettled
    <2> QED BY <2>1, <2>2, SteersOrderly DEF OpenAccounts, Stays, Persists
  <1>8. ASSUME NEW a \in Accounts, NEW u, ReportUsage(a, u) PROVE Orderly
    <2>1. pool' = pool /\ UNCHANGED <<configured, paused>>
      BY <1>8 DEF ReportUsage, vars, accountVars
    <2> QED BY <1>2, <2>1, SteersOrderly DEF OpenAccounts, Persists
  <1> QED BY <1>3, <1>4, <1>5, <1>6, <1>7, <1>8, PauseOrderly, RemoveOrderly,
             SwitchMainOrderly, SelectOrderly
          DEF OperatorRouting

\* Every step is.
LEMMA StepOrderly ==
    ASSUME Routable, [RoutingNext]_routingVars
    PROVE  Orderly
  <1>1. CASE Elsewhere \/ UNCHANGED routingVars
    <2>1. pool' = pool /\ UNCHANGED <<configured, paused>>
      BY <1>1, ElsewhereLeaves DEF routingVars, settings, vars, accountVars
    <2>2. Steers(pool, pool')
      BY <2>1 DEF Routable, Steers
    <2> QED BY <2>1, <2>2, SteersOrderly DEF OpenAccounts, Persists
  <1> QED BY <1>1, RequestOrderly, OperatorOrderly, RestartOrderly DEF RoutingNext

-----------------------------------------------------------------------------
(* The invariant, and the steps of the whole.                              *)

RoutingInv == Routable /\ InSync(pool) /\ Open(pool)

\* Each step of the pool is a step of CodexHealth, or stutters there.
LEMMA RoutingStepIsStep == Routable /\ [RoutingNext]_routingVars => [Next]_vars
<1> SUFFICES ASSUME Routable, [RoutingNext]_routingVars PROVE [Next]_vars
  OBVIOUS
<1>1. CASE RestartRouting
  BY <1>1 DEF RestartRouting, Next
<1>2. CASE UNCHANGED routingVars
  BY <1>2 DEF routingVars
<1>3. paused \subseteq Accounts
  BY RoutableIsSettled DEF Settled
<1> QED BY <1>1, <1>2, <1>3, RoutedStep, OperatedStep, ElsewhereStep DEF RoutingNext, Routable

\* The invariant holds at the start, where rank is the alphabetical order.
LEMMA RoutingInvInit == RoutingInit => RoutingInv
<1> SUFFICES ASSUME RoutingInit PROVE RoutingInv
  OBVIOUS
<1>1. TypeOK /\ ScopeInv
  BY TypeInit DEF RoutingInit, Init, ScopeInv, InFlight, Resting
<1>2. configured = Accounts
  BY DEF RoutingInit, Init
<1>3. RankOK
  <2>1. Cardinality(Accounts) \in Nat
    BY RoutingAssumption, FS_CardinalityType
  <2>2. rank = [a \in Accounts |-> IF a = Main THEN 0 ELSE Alphabet[a]]
    BY DEF RoutingInit
  <2>3. \A a \in Accounts : Alphabet[a] \in 1..Cardinality(Accounts)
    BY RoutingAssumption
  <2>4. \A a, b \in Accounts : Alphabet[a] = Alphabet[b] => a = b
    BY RoutingAssumption
  <2>5. \A a \in Accounts : rank[a] = 0 <=> a = Main
    BY <2>1, <2>2, <2>3
  <2>6. \A a, b \in Accounts : rank[a] = rank[b] => a = b
    BY <2>2, <2>4, <2>5
  <2>7. rank \in [Accounts -> 0..Cardinality(Accounts)]
    BY <2>1, <2>2, <2>3
  <2> QED BY <1>2, <2>5, <2>6, <2>7 DEF RankOK
<1>4. SettingsOK
  BY RoutingAssumption DEF RoutingInit, SettingsOK, Routes, Unrouted
<1>5. pool \in Pools /\ InSync(pool) /\ Open(pool)
  <2> DEFINE rings == [s \in Scopes |-> NoRing]
  <2>1. rings \in [Scopes -> Rings(Accounts, StickyLimit)]
    BY FreshType, RingOfRouting
  <2>2. /\ NoBindings(Unbound) \in [Threads -> [AffinityScopes -> Bindings]]
        /\ NoBindings(Unowned) \in [Threads -> [AffinityScopes -> Ownerships]]
    BY UnboundTypes DEF NoBindings
  <2>3. \A t \in Threads, s \in AffinityScopes :
          NoBindings(Unbound)[t][s] = Unbound /\ NoBindings(Unowned)[t][s] = Unowned
    BY DEF NoBindings
  <2>4. pool = [active |-> NoAccount, pin |-> NoAccount, cursor |-> NoAccount,
                saved |-> [active |-> NoAccount, pin |-> NoAccount], ring |-> rings,
                affinity |-> NoBindings(Unbound), owned |-> NoBindings(Unowned)]
    BY DEF RoutingInit
  <2> HIDE DEF rings
  <2>5. pool \in Pools /\ InSync(pool)
    BY <2>1, <2>2, <2>4 DEF Pools, Ids, InSync
  <2>6. Open(pool)
    BY <2>3, <2>4, UnboundTypes DEF Open, OpenAccounts
  <2> QED BY <2>5, <2>6
<1> QED BY <1>1, <1>3, <1>4, <1>5 DEF RoutingInv, Routable

\* It is inductive.
LEMMA RoutingInvStep == RoutingInv /\ [RoutingNext]_routingVars => RoutingInv'
<1> SUFFICES ASSUME RoutingInv, [RoutingNext]_routingVars PROVE RoutingInv'
  OBVIOUS
<1>1. Routable /\ Orderly
  BY StepOrderly DEF RoutingInv
<1>2. [Next]_vars
  BY <1>1, RoutingStepIsStep
<1>3. TypeOK' /\ ScopeInv'
  BY <1>1, <1>2, TypeStep, ScopeStep DEF Routable
<1>4. SettingsOK' /\ RankOK'
  BY <1>1, SettingsStep
<1>5. Pools' = Pools /\ InSync(pool)' = InSync(pool')
  BY DEF Pools, InSync
<1> QED BY <1>1, <1>3, <1>4, <1>5 DEF RoutingInv, Routable, Orderly, InSync

\* It always holds.
LEMMA RoutingInvHolds == RoutingSpec => []RoutingInv
BY RoutingInvInit, RoutingInvStep, PTL DEF RoutingSpec

\* Every behaviour of the pool is, seen through the health of its accounts, a
\* behaviour of CodexHealth: routing adds decisions to the handlers of requests,
\* outcomes, selections and removals, and no way past their guards.
THEOREM RoutingImplementsHealth == RoutingSpec => Spec
<1>1. RoutingInit => Init
  BY DEF RoutingInit
<1>2. RoutingInv /\ [RoutingNext]_routingVars => [Next]_vars
  BY RoutingStepIsStep DEF RoutingInv
<1> QED BY <1>1, <1>2, RoutingInvHolds, PTL DEF RoutingSpec, Spec

\* With routing on top as well, nothing of a removed account comes back.
THEOREM RoutingForgetsRemoved == RoutingSpec => []RemovedStaysForgotten
BY RoutingImplementsHealth, RemovalIsFinal, PTL

\* Whatever the pool went through, its records, its rings, its bindings and its
\* settings have their types, and no two configured accounts the same place.
THEOREM RoutingTypeCorrect == RoutingSpec => []RoutingTypeOK
<1>1. RoutingInv => RoutingTypeOK
  <2> SUFFICES ASSUME Routable PROVE RoutingTypeOK
    BY DEF RoutingInv
  <2>1. PoolTypeOK
    <3>1. DOMAIN pool = {"active", "pin", "cursor", "saved", "ring", "affinity", "owned"}
      BY DEF Routable, Pools
    <3>2. {pool.active, pool.pin, pool.cursor} \subseteq Ids /\ pool.saved \in [active : Ids, pin : Ids]
      BY DEF Routable, Pools
    <3>3. ASSUME NEW s \in Scopes
          PROVE  /\ pool.ring[s].made \in BOOLEAN /\ pool.ring[s].active \in Ids
                 /\ pool.ring[s].successes \in 0..(StickyLimit - 1)
                 /\ DOMAIN pool.ring[s].weights \subseteq Accounts
                 /\ \A a \in DOMAIN pool.ring[s].weights : pool.ring[s].weights[a] \in Int
      <4>1. pool.ring[s] \in Rings(Accounts, StickyLimit)
        BY DEF Routable, Pools
      <4> QED BY <4>1 DEF Rings, Weights, Ids
    <3>4. ASSUME NEW t \in Threads, NEW s \in AffinityScopes
          PROVE  pool.affinity[t][s] \in Bindings /\ pool.owned[t][s] \in Ownerships
      BY DEF Routable, Pools
    <3> QED BY <3>1, <3>2, <3>3, <3>4 DEF PoolTypeOK, Ids, Bindings, Ownerships
  <2> QED BY <2>1 DEF Routable, SettingsOK, RankOK, RoutingTypeOK, Routes
<1> QED BY <1>1, RoutingInvHolds, PTL

\* The selection a restart would find is the one in force, after every sequence
\* of moves, promotions, pauses and removals, under every strategy.
THEOREM SelectionStaysSaved == RoutingSpec => []SelectionIsSaved
<1>1. RoutingInv => SelectionIsSaved
  BY DEF RoutingInv, InSync, SelectionIsSaved
<1> QED BY <1>1, RoutingInvHolds, PTL

\* No thread is bound, in memory or in the ownership file, to an account that is
\* paused or was deleted.
THEOREM ExcludedHasNoBinding == RoutingSpec => []ExcludedIsUnbound
<1>1. RoutingInv => ExcludedIsUnbound
  BY DEF RoutingInv, Open, OpenAccounts, ExcludedIsUnbound
<1> QED BY <1>1, RoutingInvHolds, PTL

\* A binding that could go on is ended by what befalls its own account, by a
\* manual selection or by a restart, and by nothing that happens to another.
THEOREM BindingsEndForCause == RoutingSpec => StickyUntilCause
<1>1. RoutingInv /\ [RoutingNext]_routingVars =>
        [\A t \in Threads, s \in AffinityScopes : \A entry \in {pool.affinity[t][s]} :
           (/\ HealthyBinding(entry, s) /\ ~Expired(entry)
            /\ pool'.affinity[t][s].account # entry.account)
             => \/ ~HealthyBinding(entry, s)'
                \/ written'[entry.account] # written[entry.account]
                \/ \E a \in Accounts : Select(a)
                \/ Restart]_routingVars
  <2> SUFFICES ASSUME RoutingInv, [RoutingNext]_routingVars,
                      NEW t \in Threads, NEW s \in AffinityScopes,
                      NEW entry \in {pool.affinity[t][s]},
                      HealthyBinding(entry, s), ~Expired(entry),
                      pool'.affinity[t][s].account # entry.account
               PROVE  \/ ~HealthyBinding(entry, s)'
                      \/ written'[entry.account] # written[entry.account]
                      \/ \E a \in Accounts : Select(a)
                      \/ Restart
    OBVIOUS
  <2>1. Sticks /\ pool \in Pools
    BY StepOrderly DEF RoutingInv, Orderly, Routable
  <2>2. pool.affinity[t][s] = entry /\ entry \in Bindings /\ Reusable(entry, s)
    BY <2>1 DEF Pools, Reusable
  <2> QED BY <2>1, <2>2 DEF Sticks
<1> QED BY <1>1, RoutingInvHolds, PTL DEF RoutingSpec, StickyUntilCause

\* Under a rotating strategy the saved selection changes by the hand of the
\* operator only: no pick, failover or retry writes it.
THEOREM RotationSavesNothing == RoutingSpec => RotationNeverPersists
<1>1. RoutingInv /\ [RoutingNext]_routingVars =>
        [(strategy # "quota" /\ pool'.saved.active # pool.saved.active)
           => \/ \E a \in Accounts : Select(a) \/ Pause(a)
              \/ configured' # configured]_routingVars
  BY StepOrderly DEF RoutingInv, Orderly, Persists
<1> QED BY <1>1, RoutingInvHolds, PTL DEF RoutingSpec, RotationNeverPersists

\* A grant changes its own request, to an account that is not paused.
LEMMA GrantMoves ==
    ASSUME Routable, NEW r \in Requests, Grants(r), NEW q \in Requests, request'[q] # request[q]
    PROVE  /\ q = r /\ request'[q].account \in Accounts \ paused
           /\ request[q].scope = "none"
           /\ Onward(pool, pool', request'[q].scope)
  <1>1. PICK a \in Accounts \ paused, scope \in ModelScopes, slot \in Slots \cup {"none"} :
          /\ request[r].state = "idle"
          /\ Admitted(r, a, scope, slot)
          /\ Onward(pool, pool', scope)
    BY DEF Grants
  <1>2. /\ request'[r].account = a /\ request'[r].scope = scope
        /\ q # r => request'[q] = request[q]
    BY <1>1 DEF Admitted, Routable, TypeOK
  <1>3. request[r].scope = "none"
    BY <1>1 DEF Routable, ScopeInv, InFlight
  <1> QED BY <1>1, <1>2, <1>3

\* None of the others begins an attempt.
LEMMA OthersGrantNothing ==
    ASSUME Routable, [RoutingNext]_routingVars, ~RequestRouting
    PROVE  Grantless
  <1>1. CASE Elsewhere \/ UNCHANGED routingVars
    <2>1. request' = request
      BY <1>1, ElsewhereLeaves DEF routingVars, vars
    <2> QED BY <2>1 DEF Grantless
  <1>2. CASE OperatorRouting
    <2>1. request' = request
      BY <1>2 DEF OperatorRouting, Pause, Unpause, Select, SelectManually, SetPriority,
                  SetStrategy, Remove, RemoveAccount, Add, AddAccount, ReconcileStores,
                  Reconcile, SwitchMain, SwitchMainIdentity, ReportUsage, vars
    <2> QED BY <2>1 DEF Grantless
  <1>3. CASE RestartRouting
    BY <1>3 DEF RestartRouting, Restart, Resting, Grantless
  <1> QED BY <1>1, <1>2, <1>3 DEF RoutingNext

\* A paused account gets no request, neither from the pool nor from a retry.
THEOREM PauseHolds == RoutingSpec => PausedGetsNoRequest
<1>1. RoutingInv /\ [RoutingNext]_routingVars =>
        [\A r \in Requests :
           (request[r].state = "idle" /\ request'[r].state = "auth")
             => request'[r].account \notin paused]_routingVars
  <2> SUFFICES ASSUME Routable, [RoutingNext]_routingVars, NEW r \in Requests,
                      request[r].state = "idle", request'[r].state = "auth"
               PROVE  request'[r].account \notin paused
    BY DEF RoutingInv
  <2>1. RequestRouting
    BY OthersGrantNothing DEF Grantless
  <2>2. ~Grantless /\ request'[r] # request[r]
    BY DEF Grantless
  <2>3. \A q \in Requests : ~Strikes(q)
    <3> SUFFICES ASSUME NEW q \in Requests, Strikes(q) PROVE FALSE
      OBVIOUS
    <3>1. request' = [request EXCEPT ![q] = Resting("done")]
      BY DEF Strikes, Done
    <3> QED BY <3>1 DEF Resting, Routable, TypeOK
  <2>4. PICK q \in Requests : Grants(q)
    BY <2>1, <2>2, <2>3, RequestMoves DEF vars
  <2> QED BY <2>2, <2>4, GrantMoves
<1> QED BY <1>1, RoutingInvHolds, PTL DEF RoutingSpec, PausedGetsNoRequest

\* Nothing that a spark request decides, retries or is answered moves the active
\* account, the pin, the cursor, the saved selection or the ring of the others.
THEOREM SparkIsContained == RoutingSpec => IndependentScopeIsContained
<1>1. RoutingInv /\ [RoutingNext]_routingVars =>
        [SparkStep => /\ Active(pool') = Active(pool)
                      /\ pool'.active = pool.active /\ pool'.pin = pool.pin
                      /\ pool'.saved = pool.saved
                      /\ pool'.ring["shared"] = pool.ring["shared"]]_routingVars
  <2> SUFFICES ASSUME Routable, [RoutingNext]_routingVars, SparkStep
               PROVE  Contained(pool, pool')
    BY DEF RoutingInv, Contained, Active
  <2>1. ASSUME NEW t \in Threads \cup {NoThread}, Refuse(t, "spark")
        PROVE  Contained(pool, pool')
    BY <2>1, RefuseMoves DEF AffinityScopes, Scopes, Onward, Independent
  <2>2. ASSUME NEW r \in Requests, request'[r] # request[r],
               "spark" \in {request[r].scope, request'[r].scope}, ~Restart
        PROVE  Contained(pool, pool')
    <3>1. RequestRouting
      <4>1. ~RestartRouting
        BY <2>2 DEF RestartRouting
      <4>2. CASE Elsewhere \/ UNCHANGED routingVars
        BY <2>2, <4>2, ElsewhereLeaves DEF routingVars, vars
      <4>3. CASE OperatorRouting
        BY <2>2, <4>3 DEF OperatorRouting, Pause, Unpause, Select, SelectManually, SetPriority,
                  SetStrategy, Remove, RemoveAccount, Add, AddAccount, ReconcileStores,
                  Reconcile, SwitchMain, SwitchMainIdentity, ReportUsage, vars
      <4> QED BY <4>1, <4>2, <4>3 DEF RoutingNext
    <3>2. ASSUME NEW q \in Requests, Grants(q) PROVE Contained(pool, pool')
      <4>1. request[r].scope = "none" /\ Onward(pool, pool', request'[r].scope)
        BY <2>2, <3>2, GrantMoves
      <4> QED BY <2>2, <4>1 DEF Onward, Independent
    <3>3. ASSUME NEW q \in Requests, Strikes(q) PROVE Contained(pool, pool')
      <4>1. /\ q = r /\ request'[r].scope = "none"
        BY <2>2, <3>3 DEF Strikes, Done, Resting, Routable, TypeOK
      <4> QED BY <2>2, <3>3, <4>1 DEF Strikes, Befalls, Independent
    <3>4. CASE pool' = pool
      BY <3>4 DEF Contained
    <3> QED BY <2>2, <3>1, <3>2, <3>3, <3>4, RequestMoves DEF vars
  <2> QED BY <2>1, <2>2 DEF SparkStep
<1> QED BY <1>1, RoutingInvHolds, PTL DEF RoutingSpec, IndependentScopeIsContained

-----------------------------------------------------------------------------
(* The preview.  Where nothing is pinned, the decisions look at nothing of  *)
(* the pool but the active account and, where the ring decides, the ring;   *)
(* so the account that the resolution arrives at, moving the pool from      *)
(* choice to choice, is the one found without moving it.                    *)

\* Of the pool the eligibility and the comparisons read the pin alone.
LEMMA PinDecides ==
    ASSUME NEW p, NEW q, p.pin = q.pin, NEW scope, NEW a
    PROVE  /\ Eligible(p, scope, a) = Eligible(q, scope, a)
           /\ LowerUsage(p, a, scope) = LowerUsage(q, a, scope)
           /\ Preemption(p, a, scope) = Preemption(q, a, scope)
  <1>1. \A x : Eligible(p, scope, x) = Eligible(q, scope, x)
    BY DEF Eligible
  <1>2. LowerUsage(p, a, scope) = LowerUsage(q, a, scope)
    BY <1>1 DEF LowerUsage
  <1>3. Preemption(p, a, scope) = Preemption(q, a, scope)
    BY <1>1 DEF Preemption
  <1> QED BY <1>1, <1>2, <1>3

\* A move does not pin.
LEMMA MovesUnpinned ==
    ASSUME NEW p \in Pools, p.pin = NoAccount, NEW a \in Ids, NEW scope
    PROVE  /\ Moved(p, scope, SetActive(p, a)).pin = NoAccount
           /\ Moved(p, scope, RememberActive(p, a)).pin = NoAccount
           /\ Moved(p, scope, SetActive(p, a)) \in Pools
           /\ Moved(p, scope, RememberActive(p, a)) \in Pools
  <1> DEFINE free == [p EXCEPT !.cursor = NoAccount]
             released == PinReleasedFor(free, a)
             moved == [released EXCEPT !.active = a]
  <1>1. free \in Pools /\ free.pin = NoAccount
    BY DEF Pools, Ids
  <1> HIDE DEF free
  <1>2. released \in Pools /\ released.pin = NoAccount
    BY <1>1 DEF PinReleasedFor, Pools, Ids
  <1> HIDE DEF released
  <1>3. moved \in Pools /\ moved.pin = NoAccount
    BY <1>2 DEF Pools
  <1> HIDE DEF moved
  <1>4. Saved(moved).pin = NoAccount
    BY <1>3 DEF Saved, Pools
  <1>5. SetActive(p, a) \in {released, Saved(moved)}
    BY DEF SetActive, free, released, moved
  <1>6. RememberActive(p, a).pin = NoAccount
    BY DEF RememberActive, Pools
  <1>7. SetActive(p, a) \in Pools /\ RememberActive(p, a) \in Pools
    BY SetActiveSteers, RememberSteers DEF Steers
  <1> QED BY <1>2, <1>4, <1>5, <1>6, <1>7 DEF Moved

\* Replacing and improving, seen as choices of accounts.
ReplacementOf(p, a, scope) ==
    LET b == LowestUsage(Eligible(p, scope, a))
    IN  IF Selectable(a, scope) \/ b = NoAccount THEN a ELSE b

PreemptionOf(p, a, scope) ==
    LET b == Preemption(p, a, scope) IN IF b = NoAccount THEN a ELSE b

SwitchOf(p, a, scope) == IF HasHeadroom(a) THEN a ELSE LowerUsage(p, a, scope)

FailoverOf(p, a, scope) ==
    LET b == LowestUsage(Eligible(p, scope, a))
    IN  IF ShouldFailover(a) /\ b # NoAccount THEN b ELSE a

\* c goes on to d, which has account a and still no pin.
LeadsTo(c, a) == c.account = a /\ c.pool \in Pools /\ c.pool.pin = NoAccount

\* The replacement, with and without a move of the pool.
LEMMA ReplacedLeads ==
    ASSUME Settled, NEW c, NEW a \in Accounts, LeadsTo(c, a), NEW scope,
           NEW p, p.pin = NoAccount
    PROVE  LeadsTo(Replaced(c, scope), ReplacementOf(p, a, scope))
  <1> DEFINE b == LowestUsage(Eligible(p, scope, a))
             q == Moved(c.pool, scope, SetActive(c.pool, b))
  <1>1. c.account = a /\ a # NoAccount /\ c.pool \in Pools /\ c.pool.pin = p.pin
    BY RoutingAssumption DEF LeadsTo
  <1>2. LowestUsage(Eligible(c.pool, scope, c.account)) = b
    BY <1>1, PinDecides
  <1>3. b \in Ids
    BY LowestServes DEF Chosen, Serving, Ids
  <1>4. Replaced(c, scope) = IF Selectable(a, scope) \/ b = NoAccount THEN c ELSE Choice(b, q)
    BY <1>1, <1>2 DEF Replaced
  <1>5. ReplacementOf(p, a, scope) = IF Selectable(a, scope) \/ b = NoAccount THEN a ELSE b
    BY DEF ReplacementOf
  <1> HIDE DEF b
  <1>6. q \in Pools /\ q.pin = NoAccount
    BY <1>1, <1>3, MovesUnpinned
  <1> HIDE DEF q
  <1> QED BY <1>1, <1>4, <1>5, <1>6 DEF LeadsTo, Choice

\* The preemption, likewise.
LEMMA PreemptedLeads ==
    ASSUME Settled, NEW c, NEW a \in Accounts, LeadsTo(c, a), NEW scope,
           NEW p, p.pin = NoAccount
    PROVE  LeadsTo(Preempted(c, scope), PreemptionOf(p, a, scope))
  <1> DEFINE b == Preemption(p, a, scope)
             q == Moved(c.pool, scope, RememberActive(c.pool, b))
  <1>1. c.account = a /\ c.pool \in Pools /\ c.pool.pin = p.pin
    BY DEF LeadsTo
  <1>2. Preemption(c.pool, c.account, scope) = b
    BY <1>1, PinDecides
  <1>3. b \in Ids
    BY PreemptionServes DEF Serving, Ids
  <1>4. Preempted(c, scope) = IF b = NoAccount THEN c ELSE Choice(b, q)
    BY <1>2 DEF Preempted
  <1>5. PreemptionOf(p, a, scope) = IF b = NoAccount THEN a ELSE b
    BY DEF PreemptionOf
  <1> HIDE DEF b
  <1>6. q \in Pools /\ q.pin = NoAccount
    BY <1>1, <1>3, MovesUnpinned
  <1> HIDE DEF q
  <1> QED BY <1>1, <1>4, <1>5, <1>6 DEF LeadsTo, Choice

\* The switch for usage, likewise.
LEMMA AutoSwitchedLeads ==
    ASSUME Settled, NEW c, NEW a \in Accounts, LeadsTo(c, a), NEW scope,
           NEW p, p.pin = NoAccount
    PROVE  LeadsTo(AutoSwitched(c, scope), SwitchOf(p, a, scope))
  <1> DEFINE b == LowerUsage(p, a, scope)
             q == Moved(c.pool, scope, SetActive(c.pool, b))
  <1>1. c.account = a /\ c.pool \in Pools /\ c.pool.pin = p.pin
    BY DEF LeadsTo
  <1>2. LowerUsage(c.pool, c.account, scope) = b
    BY <1>1, PinDecides
  <1>3. b \in Ids
    BY LowerServes DEF Serving, Ids
  <1>4. AutoSwitched(c, scope) = IF HasHeadroom(a) \/ b = a THEN c ELSE Choice(b, q)
    BY <1>1, <1>2 DEF AutoSwitched
  <1>5. SwitchOf(p, a, scope) = IF HasHeadroom(a) THEN a ELSE b
    BY DEF SwitchOf
  <1> HIDE DEF b
  <1>6. q \in Pools /\ q.pin = NoAccount
    BY <1>1, <1>3, MovesUnpinned
  <1> HIDE DEF q
  <1> QED BY <1>1, <1>4, <1>5, <1>6 DEF LeadsTo, Choice

\* Under quota the alternate is the account with the lowest usage.
LEMMA TrippingAgrees ==
    ASSUME Settled, strategy = "quota", NEW c, NEW a \in Accounts, LeadsTo(c, a), NEW scope,
           NEW p, p.pin = NoAccount
    PROVE  Tripping(c, scope).account = FailoverOf(p, a, scope)
  <1> DEFINE b == LowestUsage(Eligible(p, scope, a))
             other == Alternate(c.pool, a, scope)
  <1>1. c.account = a /\ c.pool.pin = p.pin
    BY DEF LeadsTo
  <1>2. other.account = b
    <2>1. Eligible(c.pool, scope, a) = Eligible(p, scope, a)
      BY <1>1, PinDecides
    <2>2. strategy # "round-robin" /\ strategy # "fill-first"
      OBVIOUS
    <2>3. other = Choice(b, c.pool)
      BY <2>1, <2>2 DEF Alternate
    <2> QED BY <2>3 DEF Choice
  <1>3. FailoverOf(p, a, scope) = IF ShouldFailover(a) /\ b # NoAccount THEN b ELSE a
    BY DEF FailoverOf
  <1> HIDE DEF b
  <1>4. FailedOver(c, scope, ShouldFailover(a)).account =
          IF ~ShouldFailover(a) \/ other.account = NoAccount THEN a ELSE other.account
    <2> HIDE DEF other
    <2>1. Alternate(c.pool, c.account, scope) = other
      BY <1>1 DEF other
    <2> QED BY <1>1, <2>1 DEF FailedOver, Choice
  <1> QED BY <1>1, <1>2, <1>3, <1>4 DEF Tripping

\* Each choice is an account again.
LEMMA ChoicesAreAccounts ==
    ASSUME Settled, NEW p, NEW a \in Accounts, NEW scope
    PROVE  /\ ReplacementOf(p, a, scope) \in Accounts
           /\ PreemptionOf(p, a, scope) \in Accounts
           /\ SwitchOf(p, a, scope) \in Accounts
  <1>1. ReplacementOf(p, a, scope) \in Accounts
    <2> DEFINE b == LowestUsage(Eligible(p, scope, a))
    <2>1. Chosen(b, Serving(scope) \ {a})
      BY LowestServes
    <2>2. ReplacementOf(p, a, scope) = IF Selectable(a, scope) \/ b = NoAccount THEN a ELSE b
      BY DEF ReplacementOf
    <2> HIDE DEF b
    <2> QED BY <2>1, <2>2 DEF Chosen, Serving
  <1>2. PreemptionOf(p, a, scope) \in Accounts
    <2> DEFINE b == Preemption(p, a, scope)
    <2>1. b \in Serving(scope) \cup {NoAccount}
      BY PreemptionServes
    <2>2. PreemptionOf(p, a, scope) = IF b = NoAccount THEN a ELSE b
      BY DEF PreemptionOf
    <2> HIDE DEF b
    <2> QED BY <2>1, <2>2 DEF Serving
  <1>3. SwitchOf(p, a, scope) \in Accounts
    BY LowerServes DEF SwitchOf, Serving
  <1> QED BY <1>1, <1>2, <1>3

ImprovementOf(p, a, scope) ==
    FailoverOf(p, SwitchOf(p, PreemptionOf(p, a, scope), scope), scope)

\* The three improvements arrive where they arrive without moving.
LEMMA ImprovedAgrees ==
    ASSUME Settled, strategy = "quota", NEW c, NEW a \in Accounts, LeadsTo(c, a), NEW scope,
           NEW p, p.pin = NoAccount
    PROVE  Improved(c, scope).account = ImprovementOf(p, a, scope)
  <1> DEFINE b == PreemptionOf(p, a, scope)
             d == Preempted(c, scope)
             e == AutoSwitched(d, scope)
             x == SwitchOf(p, b, scope)
  <1>1. b \in Accounts /\ LeadsTo(d, b)
    BY ChoicesAreAccounts, PreemptedLeads
  <1> HIDE DEF b, d
  <1>2. x \in Accounts /\ LeadsTo(e, x)
    BY <1>1, ChoicesAreAccounts, AutoSwitchedLeads
  <1> HIDE DEF x, e
  <1>3. Tripping(e, scope).account = FailoverOf(p, x, scope)
    BY <1>2, TrippingAgrees
  <1> QED BY <1>3 DEF Improved, ImprovementOf, b, d, e, x

\* What both answer for the account a that the active one is replaced by.
AnswerOf(p, a, scope) ==
    IF ~Selectable(a, scope)
    THEN IF HasConfigured(a) /\ a \notin paused THEN a ELSE NoAccount
    ELSE ImprovementOf(p, a, scope)

\* The preview by usage answers with these choices.
LEMMA UsagePreviewed ==
    ASSUME Settled, NEW p \in Pools, p.pin = NoAccount, Active(p) # NoAccount, NEW scope
    PROVE  PreviewByUsage(p, scope) =
             AnswerOf(p, ReplacementOf(p, Active(p), scope), scope)
  <1> DEFINE c == Choice(Active(p), p)
             a == ReplacementOf(p, Active(p), scope)
             b == PreemptionOf(p, a, scope)
             x == SwitchOf(p, b, scope)
  <1>1. Active(p) \in Accounts /\ LeadsTo(c, Active(p))
    BY DEF Active, LeadsTo, Choice, Pools, Ids
  <1> HIDE DEF c
  <1>2. Replaced(c, scope).account = a
    BY <1>1, ReplacedLeads DEF LeadsTo
  <1> HIDE DEF a
  <1>3. PreviewByUsage(p, scope) =
          IF ~Selectable(a, scope)
          THEN IF HasConfigured(a) /\ a \notin paused THEN a ELSE NoAccount
          ELSE FailoverOf(p, x, scope)
    BY <1>2 DEF PreviewByUsage, c, PreemptionOf, SwitchOf, FailoverOf
  <1> QED BY <1>3 DEF AnswerOf, ImprovementOf, a

\* So does the resolution, which a rotating strategy only asks when nobody can
\* serve.
LEMMA UsageAgrees ==
    ASSUME Settled, NEW p \in Pools, NEW q \in Pools, NEW t, NEW scope,
           p.pin = NoAccount, q.pin = NoAccount,
           Active(p) # NoAccount, Active(q) = Active(p),
           strategy = "quota" \/ Eligible(q, scope, NoAccount) = {}
    PROVE  ByUsage(q, t, scope).account = PreviewByUsage(p, scope)
  <1> DEFINE started == Started(q, scope)
             c == Replaced(started, scope)
             a == ReplacementOf(p, Active(p), scope)
             next == Improved(c, scope)
  <1>1. Active(p) \in Accounts
    BY DEF Active, Pools, Ids
  <1>2. started = Choice(Active(p), q)
    BY DEF Started
  <1>3. LeadsTo(started, Active(p))
    BY <1>2 DEF LeadsTo, Choice
  <1>4. a \in Accounts /\ a # NoAccount
    BY <1>1, ChoicesAreAccounts, RoutingAssumption
  <1> HIDE DEF started
  <1>5. LeadsTo(c, a)
    BY <1>1, <1>3, ReplacedLeads
  <1> HIDE DEF c, a
  <1>6. c.account = a
    BY <1>5 DEF LeadsTo
  <1>7. CASE ~Selectable(a, scope)
    <2>1. ByUsage(q, t, scope) =
            IF HasConfigured(a) /\ a \notin paused
            THEN Resolution("selected", a, c.pool) ELSE Resolution("none", NoAccount, c.pool)
      BY <1>4, <1>6, <1>7 DEF ByUsage, c, started
    <2>2. ByUsage(q, t, scope).account = AnswerOf(p, a, scope)
      BY <1>7, <2>1 DEF Resolution, AnswerOf
    <2> QED BY <2>2, UsagePreviewed DEF a
  <1>8. CASE Selectable(a, scope)
    <2>1. strategy = "quota"
      BY <1>4, <1>8, EligibleServes DEF Serving
    <2>2. ByUsage(q, t, scope) =
            Resolution("selected", next.account, Bind(next.pool, t, next.account, scope))
      BY <1>4, <1>6, <1>8 DEF ByUsage, c, started
    <2>3. next.account = ImprovementOf(p, a, scope)
      BY <1>4, <1>5, <2>1, ImprovedAgrees
    <2> HIDE DEF next
    <2>4. ByUsage(q, t, scope).account = AnswerOf(p, a, scope)
      BY <1>8, <2>2, <2>3 DEF Resolution, AnswerOf
    <2> QED BY <2>4, UsagePreviewed DEF a
  <1> QED BY <1>7, <1>8

\* The same, for every strategy.
LEMMA UnboundAgrees ==
    ASSUME Settled, strategy \in Strategies, NEW p \in Pools, NEW q \in Pools, NEW t,
           NEW scope \in AffinityScopes,
           p.pin = NoAccount, Active(p) # NoAccount,
           q.pin = p.pin, q.active = p.active, q.cursor = p.cursor, q.ring = p.ring
    PROVE  ResolveUnbound(q, t, scope).account =
             LET ids == Eligible(p, scope, NoAccount)
             IN  IF strategy = "quota" \/ ids = {} THEN PreviewByUsage(p, scope)
                 ELSE IF strategy = "round-robin"
                 THEN Picked(p.ring[RingKey(scope)], ids, rank)
                 ELSE FillFirst(p, scope)
  <1> DEFINE ids == Eligible(p, scope, NoAccount)
  <1>1. Active(q) = Active(p)
    BY DEF Active
  <1>2. Eligible(q, scope, NoAccount) = ids
    BY PinDecides
  <1>3. CASE strategy = "quota" \/ ids = {}
    BY <1>1, <1>2, <1>3, UsageAgrees DEF ResolveUnbound
  <1>4. CASE ~(strategy = "quota" \/ ids = {}) /\ strategy = "round-robin"
    <2> HIDE DEF ids
    <2> DEFINE a == Picked(p.ring[RingKey(scope)], ids, rank)
    <2>1. ByRing(q, t, scope).account = a
      BY <1>2 DEF ByRing, Resolution
    <2> QED BY <1>2, <1>4, <2>1 DEF ResolveUnbound, ids
  <1>5. CASE ~(strategy = "quota" \/ ids = {}) /\ strategy # "round-robin"
    <2>1. FillFirst(q, scope) = FillFirst(p, scope)
      BY <1>1, <1>2 DEF FillFirst
    <2>2. InOrder(q, t, scope).account = FillFirst(q, scope)
      BY DEF InOrder, Resolution
    <2> QED BY <1>2, <1>5, <2>1, <2>2 DEF ResolveUnbound
  <1> QED BY <1>3, <1>4, <1>5

\* Where nothing is pinned and memory and disk know the same binding, the preview
\* names the account that the resolution then selects, under every strategy.
THEOREM PreviewTellsTheAccount == RoutingSpec => []PreviewAgreesAtRest
<1>1. RoutingInv => PreviewAgreesAtRest
  <2> SUFFICES ASSUME Routable, NEW t \in Threads \cup {NoThread}, NEW scope \in ModelScopes,
                      pool.pin = NoAccount, Active(pool) # NoAccount,
                      t # NoThread =>
                        pool.affinity[t][scope].account = pool.owned[t][scope].account
               PROVE  \/ Resolve(pool, t, scope).status = "expired"
                      \/ Preview(pool, t, scope) = Resolve(pool, t, scope).account
    BY DEF RoutingInv, PreviewAgreesAtRest
  <2> DEFINE entry == Entry(pool, t, scope)
             left == IF entry.account = NoAccount THEN pool ELSE Unassigned(pool, t, scope)
             ids == Eligible(pool, scope, NoAccount)
  <2>1. /\ Settled /\ strategy \in Strategies /\ pool \in Pools /\ scope \in AffinityScopes
        /\ NoAccount \notin configured
    BY RoutableIsSettled, ScopesOfRouting, RoutingAssumption DEF Routable
  <2>2. Moved(pool, scope, DrainedPinReleased(pool)) = pool
    BY DEF Moved, DrainedPinReleased
  <2>3. Restored(pool, t, scope) = pool
    <3>1. CASE t = NoThread
      BY <3>1 DEF Restored
    <3>2. CASE t # NoThread
      <4>1. ~(/\ pool.affinity[t][scope].account = NoAccount
              /\ pool.owned[t][scope].account \in configured)
        BY <2>1, <3>2
      <4> QED BY <3>2, <4>1 DEF Restored
    <3> QED BY <3>1, <3>2
  <2>4. Resolve(pool, t, scope) =
          CASE Expired(entry) ->
                 Resolution("expired", entry.account, Unassigned(pool, t, scope))
            [] Reusable(entry, scope) ->
                 Resolution("selected", entry.account, Touched(pool, t, scope))
            [] OTHER -> ResolveUnbound(left, t, scope)
    BY <2>2, <2>3, Zenon DEF Resolve
  <2>5. CASE Expired(entry)
    <3>1. ~Reusable(entry, scope)
      BY <2>5 DEF Reusable
    <3> HIDE DEF entry, left
    <3> QED BY <2>4, <2>5, <3>1 DEF Resolution
  <2>6. CASE ~Expired(entry) /\ Reusable(entry, scope)
    <3>1. Preview(pool, t, scope) = entry.account
      BY <2>6 DEF Preview
    <3> HIDE DEF entry, left
    <3> QED BY <2>4, <2>6, <3>1 DEF Resolution
  <2>7. CASE ~Expired(entry) /\ ~Reusable(entry, scope)
    <3>1. /\ left \in Pools
          /\ left.pin = pool.pin /\ left.active = pool.active /\ left.cursor = pool.cursor
          /\ left.ring = pool.ring
      <4>1. CASE entry.account = NoAccount
        BY <2>1, <4>1
      <4>2. CASE entry.account # NoAccount
        <5>1. t \in Threads /\ Free(pool, t, scope)
          BY <2>7, <4>2, UnboundTypes DEF Entry, Free
        <5> QED BY <2>1, <4>2, <5>1, UnassignedBinds DEF Binds
      <4> QED BY <4>1, <4>2
    <3>2. Resolve(pool, t, scope) = ResolveUnbound(left, t, scope)
      <4> HIDE DEF entry, left
      <4> QED BY <2>4, <2>7
    <3> HIDE DEF left
    <3>3. ResolveUnbound(left, t, scope).account =
            IF strategy = "quota" \/ ids = {} THEN PreviewByUsage(pool, scope)
            ELSE IF strategy = "round-robin"
            THEN Picked(pool.ring[RingKey(scope)], ids, rank)
            ELSE FillFirst(pool, scope)
      BY <2>1, <3>1, UnboundAgrees
    <3>4. Preview(pool, t, scope) =
            CASE strategy = "quota" \/ ids = {} -> PreviewByUsage(pool, scope)
              [] strategy = "round-robin" /\ ids # {} ->
                   Picked(pool.ring[RingKey(scope)], ids, rank)
              [] OTHER -> FillFirst(pool, scope)
      BY <2>7, Zenon DEF Preview
    <3> HIDE DEF ids
    <3>5. CASE strategy = "quota" \/ ids = {}
      <4>1. ~(strategy = "round-robin" /\ ids # {})
        BY <3>5
      <4> QED BY <3>2, <3>3, <3>4, <3>5, <4>1
    <3>6. CASE ~(strategy = "quota" \/ ids = {})
      BY <3>2, <3>3, <3>4, <3>6
    <3> QED BY <3>5, <3>6
  <2> QED BY <2>5, <2>6, <2>7
<1> QED BY <1>1, RoutingInvHolds, PTL

=============================================================================
