---------------------------- MODULE CodexRouting ----------------------------
(***************************************************************************)
(* Which account of the Codex pool a request gets                          *)
(* (src/src/codex/routing.ts): eligibility with its priority tiers, the    *)
(* three rotation strategies, the active account with its operator's pin   *)
(* and automatic cursor, the bindings of threads in memory and on disk,    *)
(* and what an outcome, a retry, a pause or a selection does to them.      *)
(*                                                                         *)
(* Selection runs without an await, so it is written as functions of the   *)
(* pool record it reads and writes; the actions conjoin one of them to an  *)
(* action of CodexHealth, whose half they complete.                        *)
(***************************************************************************)
EXTENDS CodexHealth, RotationRing

CONSTANTS
    Threads,
    Strategies,        \* strategies the operator may choose
    Priorities,        \* selection orders the operator may give
    Usages,            \* usage scores the upstream may report
    Alphabet,          \* place of an account in the order of localeCompare
    StickyLimit,       \* config.accountPoolStickyLimit
    AutoSwitch,        \* config.autoSwitchThreshold, 0 disables
    AffinityTtl,       \* idle time after which a binding expires
    ReevalInterval     \* how often a used binding is written to disk again

\* CODEX_UNKNOWN_USAGE_SCORE: above every known score.
UnknownUsage == 101

\* A request without a thread id, which is bound to nothing.
NoThread == "none"

ASSUME RoutingAssumption ==
    /\ IsFiniteSet(Accounts)
    /\ Strategies \subseteq {"quota", "round-robin", "fill-first"}
    /\ Priorities \subseteq Int /\ 0 \in Priorities
    /\ Usages \subseteq 0..100
    /\ \A a \in Accounts : Alphabet[a] \in 1..Cardinality(Accounts)
    /\ \A a, b \in Accounts : Alphabet[a] = Alphabet[b] => a = b
    /\ StickyLimit \in 1..100 /\ AutoSwitch \in 0..100
    /\ AffinityTtl \in Durations /\ ReevalInterval \in Nat
    /\ NoAccount \notin Accounts /\ NoThread \notin Threads

VARIABLES
    pool,              \* see PoolTypeOK
    paused, priority, strategy,
    rank,              \* place in config.codexAccounts; Main is first
    usage,             \* quota score of an account
    route              \* what a request remembers of its routing

settings == <<paused, priority, strategy, rank, usage>>
routingVars == <<vars, pool, settings, route>>

\* Threads bind per quota scope; "none" is the unscoped binding.
AffinityScopes == Scopes \cup {"none"}

Unbound == [account |-> NoAccount, login |-> 0, usedAt |-> 0, checkedAt |-> 0]
Unowned == [account |-> NoAccount, login |-> 0, at |-> 0]

\* active, pin: the configuration in memory, saved: on disk.  cursor: the
\* automatic runtimeActiveCodexAccountId.  owned: the native ownership file.
PoolTypeOK ==
    LET ids == Accounts \cup {NoAccount}
    IN  /\ DOMAIN pool = {"active", "pin", "cursor", "saved", "ring", "affinity", "owned"}
        /\ {pool.active, pool.pin, pool.cursor} \subseteq ids
        /\ pool.saved \in [active : ids, pin : ids]
        /\ \A s \in Scopes :
             LET ring == pool.ring[s]
             IN  /\ ring.made \in BOOLEAN /\ ring.active \in ids
                 /\ ring.successes \in 0..(StickyLimit - 1)
                 /\ DOMAIN ring.weights \subseteq Accounts
                 /\ \A a \in DOMAIN ring.weights : ring.weights[a] \in Int
        /\ \A t \in Threads, s \in AffinityScopes :
             /\ pool.affinity[t][s] \in
                  [account : ids, login : Nat, usedAt : Nat, checkedAt : Nat]
             /\ pool.owned[t][s] \in [account : ids, login : Nat, at : Nat]

Unrouted == [thread |-> NoThread, fixed |-> FALSE, retryOf |-> NoLease]

-----------------------------------------------------------------------------
(* Eligibility.                                                            *)

Independent(scope) == scope = "spark"

RingKey(scope) == IF Independent(scope) THEN "spark" ELSE "shared"

\* Mutant: a pause is not looked at.
SelectableThoughPaused(a, scope) ==
    CoolingSlot(a, scope) = "none" /\ ~SoftAvoided(health[a]["account"]) /\ Usable(a)

Selectable(a, scope) ==
    /\ a \notin paused
    /\ CoolingSlot(a, scope) = "none"
    /\ ~SoftAvoided(health[a]["account"])
    /\ Usable(a)

HasHeadroom(a) ==
    AutoSwitch = 0 \/ usage[a] = UnknownUsage \/ usage[a] < AutoSwitch

Headroom == {a \in Accounts : HasHeadroom(a)}

Eligible(p, scope, excluded) ==
    SelectPriorityTier({a \in Accounts \ {excluded} : Selectable(a, scope)},
                       priority, Headroom, p.pin)

LowestUsage(ids) ==
    IF ids = {} THEN NoAccount
    ELSE Foremost(ids, [a \in ids |-> -usage[a]], rank)

\* Of the others, the one with the lowest usage, if that is lower than active's.
LowerUsage(p, active, scope) ==
    LET Lower(best) ==
            IF best # NoAccount /\ usage[best] < usage[active] THEN best ELSE active
    IN  Lower(LowestUsage(Eligible(p, scope, active)))

\* The streak still counts when the soft avoid is over.
ShouldFailover(a) ==
    LET h == health[a]["account"]
    IN  /\ FailoverThreshold > 0
        /\ h.lastFailureAt = Never \/ now - h.lastFailureAt <= FailureWindow
        /\ h.failures >= FailoverThreshold

HasConfigured(a) == IF a = Main THEN Usable(Main) ELSE a \in configured

-----------------------------------------------------------------------------
(* The active account, its pin and the cursor.                             *)

Active(p) == IF p.cursor # NoAccount THEN p.cursor ELSE p.active

Saved(p) == [p EXCEPT !.saved = [active |-> p.active, pin |-> p.pin]]

\* The pin ends when routing moves to another account.
PinReleasedFor(p, a) == [p EXCEPT !.pin = IF @ = a THEN a ELSE NoAccount]

\* Mutant: the new selection is not written.
SetActiveUnsaved(p, a) == [PinReleasedFor([p EXCEPT !.cursor = NoAccount], a)
                            EXCEPT !.active = a]

SetActive(p, a) ==
    LET released == PinReleasedFor([p EXCEPT !.cursor = NoAccount], a)
    IN  IF p.active = a /\ released.pin = p.pin THEN released
        ELSE Saved([released EXCEPT !.active = a])

RememberActive(p, a) == [p EXCEPT !.cursor = a]

\* Mutant: every strategy persists the account it moves to.
PromoteSaved(p, a) == SetActive(p, a)

\* Only the quota strategy persists a move; for the others the release of the
\* pin is in memory too.
Promote(p, a) ==
    IF strategy = "quota" THEN SetActive(p, a)
    ELSE RememberActive(PinReleasedFor(p, a), a)

\* A pin ends when its account is drained or not selectable at all, never for a
\* cooldown or a soft avoid.
DrainedPinReleased(p) ==
    IF p.pin # NoAccount /\ (~Usable(p.pin) \/ p.pin \in paused \/ ~HasHeadroom(p.pin))
    THEN Saved([p EXCEPT !.pin = NoAccount]) ELSE p

-----------------------------------------------------------------------------
(* The strategies.                                                         *)

\* The alphabetical cycle of the configured accounts, from after on.
Distance(after, a) ==
    IF after \in configured /\ Alphabet[a] <= Alphabet[after]
    THEN Alphabet[a] + Cardinality(Accounts) ELSE Alphabet[a]

\* pickNextFillFirstCodexAccount: those without headroom only when all are.
NextInOrder(after, ids) ==
    IF ids = {} THEN NoAccount
    ELSE LET open == IF ids \cap Headroom # {} THEN ids \cap Headroom ELSE ids
         IN  CHOOSE a \in open : \A b \in open : Distance(after, a) <= Distance(after, b)

FillFirst(p, scope) ==
    LET FirstOf(ids) == IF Active(p) \in ids \cap Headroom THEN Active(p)
                        ELSE NextInOrder(Active(p), ids)
    IN  FirstOf(Eligible(p, scope, NoAccount))

RingPicked(p, scope, ids) ==
    [p EXCEPT !.ring[RingKey(scope)] = AfterPick(@, ids, StickyLimit, rank)]

Choice(a, p) == [account |-> a, pool |-> p]

\* pickAlternateCodexAccount.
Alternate(p, excluded, scope) ==
    LET From(ids) ==
            CASE strategy = "round-robin" ->
                   Choice(Picked(p.ring[RingKey(scope)], ids, rank),
                          RingPicked(p, scope, ids))
              [] strategy = "fill-first" -> Choice(NextInOrder(excluded, ids), p)
              [] OTHER -> Choice(LowestUsage(ids), p)
    IN  From(Eligible(p, scope, excluded))

\* The higher tier that regained headroom, unless a live pin forbids it.
Preemption(p, active, scope) ==
    LET Over(ids) ==
            IF \/ ids = {} \/ active \in ids
               \/ p.pin \in ids \cap Headroom
               \/ priority[Foremost(ids, [a \in ids |-> 0], rank)] <= priority[active]
            THEN NoAccount
            ELSE LowestUsage(ids \cap Headroom)
    IN  Over(Eligible(p, scope, NoAccount))

\* Mutant: a request of the independent scope moves the shared account as well.
MovedAlways(p, scope, moved) == moved

\* An independent scope decides for its own request and moves nothing shared.
Moved(p, scope, moved) == IF Independent(scope) THEN p ELSE moved

Preempted(c, scope) ==
    LET To(a) == IF a = NoAccount THEN c
                 ELSE Choice(a, Moved(c.pool, scope, RememberActive(c.pool, a)))
    IN  To(Preemption(c.pool, c.account, scope))

AutoSwitched(c, scope) ==
    LET To(best) == IF HasHeadroom(c.account) \/ best = c.account THEN c
                    ELSE Choice(best, Moved(c.pool, scope, SetActive(c.pool, best)))
    IN  To(LowerUsage(c.pool, c.account, scope))

\* tripped: the streak of c's account has reached the threshold.
FailedOver(c, scope, tripped) ==
    LET To(other) == IF other.account = NoAccount THEN Choice(c.account, other.pool)
                     ELSE Choice(other.account,
                                 Moved(other.pool, scope, Promote(other.pool, other.account)))
    IN  IF tripped THEN To(Alternate(c.pool, c.account, scope)) ELSE c

-----------------------------------------------------------------------------
(* Bindings of threads.                                                    *)

\* chatgptAccountId of the native login, replacedAt of a stored credential.
Login(a) == IF a = Main THEN identity[Main] ELSE credential[a].lineage

Expired(entry) == entry.account # NoAccount /\ now - entry.usedAt > AffinityTtl

HealthyBinding(entry, scope) ==
    /\ entry.account # NoAccount
    /\ credential[entry.account].live /\ entry.login = Login(entry.account)
    /\ Selectable(entry.account, scope)
    /\ ~ShouldFailover(entry.account)

Reusable(entry, scope) == ~Expired(entry) /\ HealthyBinding(entry, scope)

Owned(p, t, a, scope) ==
    [p EXCEPT !.owned[t][scope] = [account |-> a, login |-> Login(a), at |-> now]]

\* Every binding first drops the expired ones, of any thread, from memory.
Bind(p, t, a, scope) ==
    IF t = NoThread \/ ~credential[a].live THEN p
    ELSE Owned([p EXCEPT !.affinity = [u \in Threads |-> [s \in AffinityScopes |->
             IF u = t /\ s = scope
             THEN [account |-> a, login |-> Login(a), usedAt |-> now, checkedAt |-> now]
             ELSE IF Expired(p.affinity[u][s]) THEN Unbound ELSE p.affinity[u][s]]]],
             t, a, scope)

\* A binding that memory does not have comes back from the ownership file.
Restored(p, t, scope) ==
    IF t = NoThread THEN p
    ELSE LET owner == p.owned[t][scope]
         IN  IF /\ p.affinity[t][scope].account = NoAccount
                /\ owner.account \in configured
                /\ now - owner.at <= AffinityTtl
                /\ owner.login = Login(owner.account)
             THEN Bind(p, t, owner.account, scope) ELSE p

Unassigned(p, t, scope) ==
    [p EXCEPT !.affinity[t][scope] = Unbound, !.owned[t][scope] = Unowned]

Touched(p, t, scope) ==
    LET entry == p.affinity[t][scope]
        used == [p EXCEPT !.affinity[t][scope].usedAt = now]
    IN  IF now - entry.checkedAt < ReevalInterval THEN used
        ELSE Owned([used EXCEPT !.affinity[t][scope].checkedAt = now],
                   t, entry.account, scope)

\* Mutant: only memory is cleared.
UnboundInMemory(p, a) ==
    [p EXCEPT !.affinity = [t \in Threads |-> [s \in AffinityScopes |->
        IF p.affinity[t][s].account = a THEN Unbound ELSE p.affinity[t][s]]]]

\* Mutant: every thread is unbound, whatever its account.
UnboundEverywhere(p, a) ==
    [p EXCEPT !.affinity = [t \in Threads |-> [s \in AffinityScopes |-> Unbound]],
              !.owned = [t \in Threads |-> [s \in AffinityScopes |-> Unowned]]]

\* clearThreadAccountMapForAccount.
UnboundFrom(p, a) ==
    [p EXCEPT
        !.affinity = [t \in Threads |-> [s \in AffinityScopes |->
            IF p.affinity[t][s].account = a THEN Unbound ELSE p.affinity[t][s]]],
        !.owned = [t \in Threads |-> [s \in AffinityScopes |->
            IF a \in {p.affinity[t][s].account, p.owned[t][s].account}
            THEN Unowned ELSE p.owned[t][s]]]]

NoBindings(entry) == [t \in Threads |-> [s \in AffinityScopes |-> entry]]

-----------------------------------------------------------------------------
(* resolveCodexAccountForThreadDetailed and its preview.                   *)

Resolution(status, a, p) == [status |-> status, account |-> a, pool |-> p]

\* Round-robin counts the assignment at once, whatever becomes of the request.
ByRing(p, t, scope) ==
    LET Given(ids, a) ==
            Resolution("selected", a,
                [Bind(RingPicked(Moved(p, scope, RememberActive(p, a)), scope, ids),
                      t, a, scope)
                   EXCEPT !.ring[RingKey(scope)] = NoteSuccess(@, a, StickyLimit)])
        Drawn(ids) == Given(ids, Picked(p.ring[RingKey(scope)], ids, rank))
    IN  Drawn(Eligible(p, scope, NoAccount))

InOrder(p, t, scope) ==
    LET Given(a) == Resolution("selected", a,
                        Bind(Moved(p, scope, RememberActive(p, a)), t, a, scope))
    IN  Given(FillFirst(p, scope))

\* The first of active and its replacements that can serve.
Started(p, scope) ==
    LET From(a) == IF Active(p) # NoAccount THEN Choice(Active(p), p)
                   ELSE IF a = NoAccount THEN Choice(NoAccount, p)
                   ELSE Choice(a, Moved(p, scope, SetActive(p, a)))
    IN  From(LowestUsage(Eligible(p, scope, NoAccount)))

Replaced(c, scope) ==
    LET By(a) == IF Selectable(c.account, scope) \/ a = NoAccount THEN c
                 ELSE Choice(a, Moved(c.pool, scope, SetActive(c.pool, a)))
    IN  IF c.account = NoAccount THEN c
        ELSE By(LowestUsage(Eligible(c.pool, scope, c.account)))

Tripping(c, scope) == FailedOver(c, scope, ShouldFailover(c.account))

Improved(c, scope) == Tripping(AutoSwitched(Preempted(c, scope), scope), scope)

\* An account that cannot serve now is still the answer when there is no other:
\* its cooldown may admit a probe.  What Improved returns can always serve.
ByUsage(p, t, scope) ==
    LET Given(c) == Resolution("selected", c.account, Bind(c.pool, t, c.account, scope))
        Answer(c) ==
            CASE c.account = NoAccount -> Resolution("none", NoAccount, p)
              [] c.account # NoAccount /\ ~Selectable(c.account, scope) ->
                   IF HasConfigured(c.account) /\ c.account \notin paused
                   THEN Resolution("selected", c.account, c.pool)
                   ELSE Resolution("none", NoAccount, c.pool)
              [] OTHER -> Given(Improved(c, scope))
    IN  Answer(Replaced(Started(p, scope), scope))

ResolveUnbound(p, t, scope) ==
    IF strategy = "quota" \/ Eligible(p, scope, NoAccount) = {}
    THEN ByUsage(p, t, scope)
    ELSE IF strategy = "round-robin" THEN ByRing(p, t, scope)
    ELSE InOrder(p, t, scope)

Entry(p, t, scope) == IF t = NoThread THEN Unbound ELSE p.affinity[t][scope]

Resolve(p, t, scope) ==
    LET After(restored, entry) ==
            CASE Expired(entry) ->
                   Resolution("expired", entry.account, Unassigned(restored, t, scope))
              [] Reusable(entry, scope) ->
                   Resolution("selected", entry.account, Touched(restored, t, scope))
              [] OTHER ->
                   ResolveUnbound(IF entry.account = NoAccount THEN restored
                                  ELSE Unassigned(restored, t, scope), t, scope)
        From(restored) == After(restored, Entry(restored, t, scope))
    IN  From(Restored(Moved(p, scope, DrainedPinReleased(p)), t, scope))

\* Mutant: the preview knows nothing of a higher tier that came back.
PreviewWithoutPreemption(p, scope) ==
    IF Active(p) = NoAccount THEN LowestUsage(Eligible(p, scope, NoAccount))
    ELSE Tripping(AutoSwitched(Replaced(Choice(Active(p), p), scope), scope), scope).account

\* previewCodexAccountForRequest, which changes nothing on its way.
PreviewByUsage(p, scope) ==
    LET Tripped(a, other) == IF ShouldFailover(a) /\ other # NoAccount THEN other ELSE a
        Switched(a) == Tripped(a, LowestUsage(Eligible(p, scope, a)))
        Kept(a) == Switched(IF HasHeadroom(a) THEN a ELSE LowerUsage(p, a, scope))
        Preempting(a, b) == Kept(IF b = NoAccount THEN a ELSE b)
        Answer(a) ==
            IF ~Selectable(a, scope)
            THEN IF HasConfigured(a) /\ a \notin paused THEN a ELSE NoAccount
            ELSE Preempting(a, Preemption(p, a, scope))
    IN  IF Active(p) = NoAccount THEN LowestUsage(Eligible(p, scope, NoAccount))
        ELSE Answer(Replaced(Choice(Active(p), p), scope).account)

Preview(p, t, scope) ==
    LET Unbinding(ids) ==
            CASE strategy = "quota" \/ ids = {} -> PreviewByUsage(p, scope)
              [] strategy = "round-robin" /\ ids # {} ->
                   Picked(p.ring[RingKey(scope)], ids, rank)
              [] OTHER -> FillFirst(p, scope)
        Of(entry) == IF Reusable(entry, scope) THEN entry.account
                     ELSE Unbinding(Eligible(p, scope, NoAccount))
    IN  Of(Entry(p, t, scope))

-----------------------------------------------------------------------------
(* Requests.                                                               *)

RoutingInit ==
    /\ Init
    /\ pool = [active |-> NoAccount, pin |-> NoAccount, cursor |-> NoAccount,
               saved |-> [active |-> NoAccount, pin |-> NoAccount],
               ring |-> [s \in Scopes |-> NoRing],
               affinity |-> NoBindings(Unbound), owned |-> NoBindings(Unowned)]
    /\ paused = {}
    /\ priority = [a \in Accounts |-> 0]
    /\ strategy \in Strategies
    /\ rank = [a \in Accounts |-> IF a = Main THEN 0 ELSE Alphabet[a]]
    /\ usage = [a \in Accounts |-> UnknownUsage]
    /\ route = [r \in Requests |-> Unrouted]

Routed(r, thread, fixed, origin) ==
    route' = [route EXCEPT ![r] = [thread |-> thread, fixed |-> fixed, retryOf |-> origin]]

\* A request of a thread: the pool decides, then the cooldown is looked at.
AdmitThread(r, t, scope) ==
    /\ request[r].state = "idle"
    /\ \E resolution \in {Resolve(pool, t, scope)} :
         /\ resolution.status = "selected"
         /\ Admit(r, resolution.account, scope) \/ AdmitProbe(r, resolution.account, scope)
         /\ pool' = resolution.pool
    /\ Routed(r, t, FALSE, NoLease)
    /\ UNCHANGED settings

\* Nobody serves the request, but what the decision moved stays moved.
Refuse(t, scope) ==
    /\ \E resolution \in {Resolve(pool, t, scope)} :
         /\ \/ resolution.status # "selected"
            \/ /\ resolution.status = "selected"
               /\ \E slot \in {CoolingSlot(resolution.account, scope)} :
                    slot # "none" /\ ~CanProbe(health[resolution.account][slot])
         /\ pool' = resolution.pool
    /\ UNCHANGED <<vars, settings, route>>

\* An exact account binding neither asks the pool nor takes a probe's lease.
AdmitFixed(r, a, scope) ==
    /\ a \notin paused
    /\ Usable(a)
    /\ Admit(r, a, scope)
    /\ Routed(r, NoThread, TRUE, NoLease)
    /\ UNCHANGED <<pool, settings>>

Retries(q, r) == route[q].retryOf = r /\ request[q].state \in {"auth", "sent"}

\* r was answered 429 or 400; q tries another account, once, before the outcome
\* of r is recorded.
Retry(q, r) ==
    /\ request[q].state = "idle"
    /\ request[r].state = "sent" /\ ~route[r].fixed
    /\ route[r].retryOf = NoLease
    /\ \A other \in Requests : ~Retries(other, r)
    /\ \E alternate \in {Alternate(pool, request[r].account, request[r].scope)} :
         /\ alternate.account # NoAccount
         /\ \/ Admit(q, alternate.account, request[r].scope)
            \/ AdmitProbe(q, alternate.account, request[r].scope)
         /\ pool' = alternate.pool
    /\ Routed(q, route[r].thread, FALSE, r)
    /\ UNCHANGED settings

\* Only a first attempt checks the account again when its token is there.
Authenticate(r) ==
    /\ \/ TokenReady(r, route[r].retryOf = NoLease) /\ UNCHANGED route
       \/ /\ TokenRejected(r) /\ route[r].retryOf = NoLease
          /\ Routed(r, NoThread, FALSE, NoLease)
       \/ /\ \E fatal \in BOOLEAN : TokenFailed(r, fatal)
          /\ Routed(r, NoThread, FALSE, NoLease)
    /\ UNCHANGED <<pool, settings>>

\* r waits for the token of its retry, q for the outcome of the first attempt.
Waiting(r) ==
    \/ \E q \in Requests : Retries(q, r) /\ request[q].state = "auth"
    \/ \E first \in Requests : route[r].retryOf = first /\ request[first].state = "sent"

Retried(r) == \E q \in Requests : Retries(q, r)

\* The account the retry of r was sent to.
PromoteAccountId(r) ==
    IF Retried(r) THEN request[CHOOSE q \in Requests : Retries(q, r)].account
    ELSE NoAccount

\* What a 429 does to routing: nothing for an exact binding or when the spark
\* group alone is out of quota, otherwise threads leave the account and the
\* shared pool, when it is at the account, moves to the retry's or the next.
AfterQuota(r, source) ==
    LET a == request[r].account
        scope == request[r].scope
        To(other) == IF other.account = NoAccount THEN other.pool
                     ELSE Promote(other.pool, other.account)
        Failed(p) ==
            IF Active(p) # a THEN p
            ELSE IF PromoteAccountId(r) \notin {NoAccount, a}
            THEN To(Choice(PromoteAccountId(r), p))
            ELSE To(Alternate(p, a, scope))
    IN  IF route[r].fixed \/ QuotaSlot(r, source) = "spark" THEN pool
        ELSE IF Independent(scope) THEN UnboundFrom(pool, a)
        ELSE Failed([UnboundFrom(pool, a) EXCEPT !.ring["shared"] = NoteFailure(@, a)])

\* The streak that trips failover unbinds everybody, and moves the shared pool.
AfterStreak(r) ==
    LET a == request[r].account
        scope == request[r].scope
        Cleared(p) == IF Independent(scope) \/ Active(p) # a THEN p
                      ELSE FailedOver(Choice(a, p), scope, TRUE).pool
    IN  IF route[r].fixed \/ ~FailoverReady(Streak(health[a]["account"])) THEN pool
        ELSE Cleared(UnboundFrom(pool, a))

Outcome(r) ==
    /\ ~Waiting(r)
    /\ \/ (Neutral(r) \/ Dropped(r) \/ Abandon(r)) /\ UNCHANGED pool
       \/ ~Retried(r) /\ Success(r) /\ UNCHANGED pool
       \/ /\ ~Retried(r) /\ Credential(r)
          /\ pool' = UnboundFrom(pool, request[r].account)
       \/ \E q \in QuotaHints(r) : Quota(r, q[1], q[2]) /\ pool' = AfterQuota(r, q[1])
       \/ ~Retried(r) /\ Transient(r) /\ pool' = AfterStreak(r)
    /\ Routed(r, NoThread, FALSE, NoLease)
    /\ UNCHANGED settings

-----------------------------------------------------------------------------
(* The operator and the configuration.  Every write saves all of it.       *)

\* reconcileCodexActiveAfterExclusion.
ExclusionReconciled(p, a) ==
    LET Without(x) == IF x = a THEN NoAccount ELSE x
        dropped == [p EXCEPT !.active = Without(@), !.pin = Without(@)]
        To(other) == IF other.account = NoAccount THEN other.pool
                     ELSE Promote(other.pool, other.account)
    IN  IF Active(p) = a \/ (Active(p) = NoAccount /\ a = Main)
        THEN To(Alternate([dropped EXCEPT !.cursor = NoAccount], a, "none"))
        ELSE dropped

Pause(a) ==
    /\ a \in configured \ paused
    /\ paused' = paused \cup {a}
    /\ pool' = Saved(ExclusionReconciled(UnboundFrom(pool, a), a))
    /\ UNCHANGED <<vars, priority, strategy, rank, usage, route>>

Unpause(a) ==
    /\ a \in paused
    /\ paused' = paused \ {a}
    /\ pool' = Saved(pool)
    /\ UNCHANGED <<vars, priority, strategy, rank, usage, route>>

\* resetCodexRoutingForManualSelection, the routing half.
SelectionReset(p, a) ==
    [p EXCEPT !.cursor = NoAccount, !.ring = [s \in Scopes |-> Seeded(a)],
              !.affinity = NoBindings(Unbound), !.owned = NoBindings(Unowned)]

\* "Use this account now", or back to automatic selection.
Select(a) ==
    /\ a \in configured \ paused
    /\ SelectManually(a)
    /\ \/ pool' = Saved(SelectionReset([pool EXCEPT !.active = a, !.pin = a], a))
       \/ /\ a = Main
          /\ pool' = Saved(SelectionReset(
               [pool EXCEPT !.active = NoAccount, !.pin = NoAccount], Main))
    /\ UNCHANGED <<settings, route>>

SetPriority(a, n) ==
    /\ a \in configured
    /\ priority' = [priority EXCEPT ![a] = n]
    /\ pool' = Saved([pool EXCEPT !.pin = NoAccount])
    /\ UNCHANGED <<vars, paused, strategy, rank, usage, route>>

SetStrategy(s) ==
    /\ s # strategy
    /\ strategy' = s
    /\ pool' = Saved(pool)
    /\ UNCHANGED <<vars, paused, priority, rank, usage, route>>

RingsReconciled(p, ids) ==
    [p EXCEPT !.ring = [s \in Scopes |-> ReconcileRing(p.ring[s], ids)]]

\* The cursor may stay at the account that was deleted.
Remove(a, ok) ==
    /\ RemoveAccount(a, ok)
    /\ paused' = paused \ {a}
    /\ priority' = [priority EXCEPT ![a] = 0]
    /\ usage' = [usage EXCEPT ![a] = UnknownUsage]
    /\ pool' = RingsReconciled(Saved(UnboundFrom(
         [pool EXCEPT !.active = IF @ = a THEN NoAccount ELSE @,
                      !.pin = IF @ = a THEN NoAccount ELSE @], a)), configured')
    /\ UNCHANGED <<strategy, rank, route>>

Add(a, ok) ==
    /\ AddAccount(a, ok)
    /\ rank' = [b \in Accounts |->
         IF b = a THEN Cardinality({c \in configured : c # Main}) + 1
         ELSE IF b \in configured \ {Main}
         THEN Cardinality({c \in configured \ {Main} : rank[c] <= rank[b]})
         ELSE 0]
    /\ pool' = RingsReconciled(Saved(pool), configured')
    /\ UNCHANGED <<paused, priority, strategy, usage, route>>

SwitchMain ==
    /\ SwitchMainIdentity
    /\ pool' = UnboundFrom(pool, Main)
    /\ usage' = [usage EXCEPT ![Main] = UnknownUsage]
    /\ UNCHANGED <<paused, priority, strategy, rank, route>>

\* Usage arrives with responses and with the quota refresh of the dashboard.
ReportUsage(a, u) ==
    /\ a \in configured
    /\ usage[a] # u
    /\ usage' = [usage EXCEPT ![a] = u]
    /\ UNCHANGED <<vars, pool, paused, priority, strategy, rank, route>>

\* What touches health or credentials and not the routing.
Elsewhere ==
    /\ \/ \E a \in Accounts : \/ ClearCooldown(a) \/ RefreshCredential(a)
                              \/ Reauthenticate(a)
       \/ \E batch \in SUBSET Accounts : ClaimRecoveryProbes(batch, paused)
       \/ \E a \in Accounts, recovered \in BOOLEAN :
            \E proof \in claim[a].credential .. credential[a].generation :
               Settle(a, recovered, proof)
       \/ Tick
    /\ UNCHANGED <<pool, settings, route>>

ReconcileStores(ok) ==
    /\ Reconcile(ok)
    /\ pool' = RingsReconciled(pool, configured)
    /\ UNCHANGED <<settings, route>>

\* The configuration and the ownership file are read again; the quota cache is
\* written late, so that some of it may be missing.
RestartRouting ==
    /\ Restart
    /\ pool' = [pool EXCEPT !.active = pool.saved.active, !.pin = pool.saved.pin,
                            !.cursor = NoAccount, !.ring = [s \in Scopes |-> NoRing],
                            !.affinity = NoBindings(Unbound)]
    /\ \E known \in SUBSET Accounts :
         usage' = [a \in Accounts |-> IF a \in known THEN usage[a] ELSE UnknownUsage]
    /\ route' = [r \in Requests |-> Unrouted]
    /\ UNCHANGED <<paused, priority, strategy, rank>>

\* Another request, after a retry of the last has ended too.
Reuse(r) ==
    /\ Recycle(r)
    /\ ~Retried(r)
    /\ UNCHANGED <<pool, settings, route>>

RequestRouting ==
    \/ \E r \in Requests, t \in Threads \cup {NoThread}, scope \in ModelScopes :
         AdmitThread(r, t, scope)
    \/ \E t \in Threads \cup {NoThread}, scope \in ModelScopes : Refuse(t, scope)
    \/ \E r \in Requests, a \in Accounts, scope \in ModelScopes : AdmitFixed(r, a, scope)
    \/ \E q, r \in Requests : Retry(q, r)
    \/ \E r \in Requests : Authenticate(r) \/ Outcome(r) \/ Reuse(r)

OperatorRouting ==
    \/ \E a \in Accounts : Pause(a) \/ Unpause(a) \/ Select(a)
    \/ \E a \in Accounts, n \in Priorities : SetPriority(a, n)
    \/ \E s \in Strategies : SetStrategy(s)
    \/ \E a \in Accounts, ok \in BOOLEAN : Remove(a, ok) \/ Add(a, ok)
    \/ \E ok \in BOOLEAN : ReconcileStores(ok)
    \/ SwitchMain
    \/ \E a \in Accounts, u \in Usages : ReportUsage(a, u)

RoutingNext == RequestRouting \/ OperatorRouting \/ Elsewhere \/ RestartRouting

RoutingSpec == RoutingInit /\ [][RoutingNext]_routingVars

-----------------------------------------------------------------------------
(* Properties.                                                             *)

RoutingTypeOK ==
    /\ TypeOK
    /\ PoolTypeOK
    /\ paused \subseteq configured
    /\ priority \in [Accounts -> Priorities] /\ strategy \in Strategies
    /\ rank \in [Accounts -> 0..Cardinality(Accounts)]
    /\ \A a, b \in configured : rank[a] = rank[b] => a = b
    /\ usage \in [Accounts -> 0..100 \cup {UnknownUsage}]
    /\ route \in [Requests -> [thread : Threads \cup {NoThread}, fixed : BOOLEAN,
                               retryOf : Requests \cup {NoLease}]]

SparkStep ==
    \/ \E t \in Threads \cup {NoThread} : Refuse(t, "spark")
    \/ /\ \E r \in Requests : /\ request'[r] # request[r]
                              /\ "spark" \in {request[r].scope, request'[r].scope}
       /\ ~Restart

\* "An independent quota group must not move the shared cursor at all": nothing
\* that a spark request decides, retries or is answered moves the active
\* account, the pin, the cursor or the ring of the shared pool.
IndependentScopeIsContained ==
    [][SparkStep => /\ Active(pool') = Active(pool)
                    /\ pool'.active = pool.active /\ pool'.pin = pool.pin
                    /\ pool'.saved = pool.saved
                    /\ pool'.ring["shared"] = pool.ring["shared"]]_routingVars

\* "Healthy bound tasks keep affinity": a binding that could go on is only ended
\* by what befalls its own account (a 429, a failure streak, a quarantine, a
\* pause, a removal, another login), by a manual selection or by a restart;
\* never by usage, order, strategy, or a late outcome on another account.
StickyUntilCause ==
    [][\A t \in Threads, s \in AffinityScopes : \A entry \in {pool.affinity[t][s]} :
         (/\ HealthyBinding(entry, s) /\ ~Expired(entry)
          /\ pool'.affinity[t][s].account # entry.account)
           => \/ ~HealthyBinding(entry, s)'
              \/ written'[entry.account] # written[entry.account]
              \/ \E a \in Accounts : Select(a)
              \/ Restart]_routingVars

\* No thread is bound to, or after a restart finds its way back to, an account
\* that was paused or deleted.
ExcludedIsUnbound ==
    \A t \in Threads, s \in AffinityScopes :
        {pool.affinity[t][s].account, pool.owned[t][s].account}
            \subseteq (configured \ paused) \cup {NoAccount}

\* A paused account gets no request, not even from a retry whose first attempt
\* was sent before the pause.
PausedGetsNoRequest ==
    [][\A r \in Requests :
         (request[r].state = "idle" /\ request'[r].state = "auth")
           => request'[r].account \notin paused]_routingVars

\* The selection that a restart would find is the one in force.
SelectionIsSaved == pool.saved.active = pool.active

\* "Automatic strategy picks never sync-write config; only manual selection
\* persists active": the rotating strategies leave the saved selection to the
\* operator, who changes it by a selection, a pause or a removal.
RotationNeverPersists ==
    [][(strategy # "quota" /\ pool'.saved.active # pool.saved.active)
         => \/ \E a \in Accounts : Select(a) \/ Pause(a)
            \/ configured' # configured]_routingVars

\* "Mirrors resolveCodexAccountForThreadDetailed account choice", where nothing
\* is pinned, a shared account is active, and memory knows every binding.
PreviewAgreesAtRest ==
    \A t \in Threads \cup {NoThread}, scope \in ModelScopes :
        (/\ pool.pin = NoAccount /\ Active(pool) # NoAccount
         /\ t # NoThread => pool.affinity[t][scope].account = pool.owned[t][scope].account)
          => \E resolution \in {Resolve(pool, t, scope)} :
                \/ resolution.status = "expired"
                \/ Preview(pool, t, scope) = resolution.account

=============================================================================
