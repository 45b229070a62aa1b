----------------------------- MODULE CodexHealth -----------------------------
(***************************************************************************)
(* Upstream health of the Codex account pool (src/src/codex/routing.ts):   *)
(* hard quota cooldowns, the probe leases that let one request through a   *)
(* cooldown, transient failure streaks with their soft avoids, and the     *)
(* generations that keep a late writer from touching a newer state.        *)
(*                                                                         *)
(* Every account has three health records, the slots: one for the whole    *)
(* account (`upstreamHealth`) and one per quota scope                      *)
(* (`quotaScopedHealth`).  A request resolves its credential               *)
(* (auth-context.ts), is sent, and later records exactly one outcome; a    *)
(* background worker claims and settles recovery probes (auth-api.ts).     *)
(* All of these interleave at the `await`s, which is where the actions     *)
(* below are cut.                                                          *)
(*                                                                         *)
(* This module is the health half of the handlers.  Which account a        *)
(* request is routed to, and what an outcome does to affinity, cursor and  *)
(* ring, is CodexRouting, which conjoins its half to these actions; here   *)
(* a request may be routed to any account.                                 *)
(***************************************************************************)
EXTENDS Integers, FiniteSets

CONSTANTS
    Accounts,          \* ids in config.codexAccounts, and "__main__"
    Main,              \* the id of the native login; need not be in Accounts
    Requests,          \* each models one attempt at a time
    ModelScopes,       \* quota scopes of the models asked for; "none": no model
    NoLease,
    RetryAfters,       \* Retry-After delays, clamped to 24 h by the parser
    ResetDelays,       \* delays to a quota reset, clamped to 15 min
    DefaultCooldown,
    ProbeInterval,
    FailureWindow,
    SoftAvoids,        \* the four escalation steps, as a function on 0..3
    FailoverThreshold, \* config.upstreamFailoverThreshold, 0 disables
    ProbeLimit,        \* POOL_QUOTA_REFRESH_CONCURRENCY
    MaxTime,           \* bound on the clock
    MaxAttempts,       \* bound on reconciliations
    MaxReplacements,   \* bound on credential generations
    MaxWrites          \* bound on cooldowns written and failures counted, after
                       \* which no attempt follows another under its identifier

Durations == Nat \ {0}

ASSUME HealthAssumption ==
    /\ ModelScopes \subseteq {"shared", "spark", "none"}
    /\ RetryAfters \subseteq Durations /\ ResetDelays \subseteq Durations
    /\ {DefaultCooldown, ProbeInterval, FailureWindow} \subseteq Durations
    /\ SoftAvoids \in [0..3 -> Durations]
    /\ {FailoverThreshold, ProbeLimit, MaxTime, MaxAttempts, MaxReplacements,
         MaxWrites} \subseteq Nat

\* A claim's lease id is the account with the number of the worker's pass; a
\* request acquires at most one lease, so it names its own.  Both stand for
\* the randomUUID() of the code.
LeaseIds == Requests \cup (Accounts \X Nat)

ASSUME LeaseAssumption ==
    NoLease \notin LeaseIds /\ Requests \cap (Accounts \X Nat) = {}

VARIABLES
    now,
    health,            \* upstreamHealth and quotaScopedHealth
    needsReauth,       \* reauthAccounts
    configured,        \* accounts of the live configuration
    credential,        \* the pool account's stored record
    identity,          \* ghost: which physical login stands behind the id
    attemptSequence, configGeneration, lastReconciled, liveIds,
    request, claim, pass,
    written,           \* ghost: cooldowns ever written to a slot
    lastGrant          \* ghost: when a slot last granted a probe

healthVars == <<health, written, lastGrant>>
generationVars == <<attemptSequence, configGeneration, lastReconciled, liveIds>>
accountVars == <<needsReauth, configured, credential, identity>>
vars == <<now, healthVars, accountVars, generationVars, request, claim, pass>>

Never == -1
Scopes == {"shared", "spark"}
Slots == {"account"} \cup Scopes
Sources == {"none", "retry-after", "reset-derived", "default"}
Time == Nat \cup {Never}

\* A missing map entry and an entry with every field undefined read alike
\* everywhere in the code, so both are this record.
Absent ==
    [failures |-> 0, successes |-> 0, lastFailureAt |-> Never,
     until |-> Never, since |-> Never, source |-> "none", generation |-> 0,
     lease |-> NoLease, leaseGeneration |-> 0, lastProbeAt |-> Never,
     softAvoidUntil |-> Never]

Health ==
    [failures : Nat, successes : Nat, lastFailureAt : Time,
     until : Time, since : Time, source : Sources, generation : Nat,
     lease : LeaseIds \cup {NoLease}, leaseGeneration : Nat,
     lastProbeAt : Time, softAvoidUntil : Time]

\* A request that is not under way keeps nothing but its state.
Resting(state) ==
    [state |-> state, account |-> "none", scope |-> "none", slot |-> "none",
     writerGeneration |-> 0, identity |-> 0, write |-> 0]

-----------------------------------------------------------------------------
(* The health record.                                                      *)

Larger(m, n) == IF m >= n THEN m ELSE n

Cooled(h) == h.until > now

SoftAvoided(h) == h.softAvoidUntil > now

\* Mutant: the pace counts from the cooldown, not from the last probe.
ProbeOriginOfCooldown(h) == h.since

ProbeOrigin(h) == IF h.lastProbeAt # Never THEN h.lastProbeAt ELSE h.since

CanProbe(h) ==
    /\ Cooled(h)
    /\ h.source # "retry-after"
    /\ h.lease = NoLease
    /\ now - ProbeOrigin(h) >= ProbeInterval

Leased(h, id) ==
    [h EXCEPT !.lease = id, !.leaseGeneration = h.generation,
              !.lastProbeAt = now]

\* at is the time of the release: the clock, or the start of the worker's pass.
Released(h, at) ==
    [h EXCEPT !.lease = NoLease, !.leaseGeneration = 0, !.lastProbeAt = at]

Owns(h, id) == h.lease = id

\* Mutant: the owner may clear whatever cooldown it finds.
MayClearAny(h, id) == Owns(h, id)

MayClear(h, id) == Owns(h, id) /\ h.leaseGeneration = h.generation

\* preservedCooldownFields: all but the failure evidence.
Preserved(h) ==
    [h EXCEPT !.failures = 0, !.successes = 0, !.lastFailureAt = Never,
              !.softAvoidUntil = Never]

\* The cooldown is gone but its generation is not: a lease on the old one
\* cannot match the next.
Lifted(h, generation, at) ==
    [h EXCEPT !.until = Never, !.since = Never, !.source = "none",
              !.lease = NoLease, !.leaseGeneration = 0,
              !.generation = generation, !.lastProbeAt = at]

\* Mutant: a new 429 moves the deadline of the record and nothing else.
CooldownInPlace(h, id, delay, source) ==
    [h EXCEPT !.until = now + delay, !.since = now, !.source = source]

Cooldown(h, id, delay, source) ==
    [failures |-> 0, successes |-> 0, lastFailureAt |-> now,
     until |-> now + delay, since |-> now, source |-> source,
     generation |-> h.generation + 1,
     lease |-> IF Owns(h, id) THEN NoLease ELSE h.lease,
     leaseGeneration |-> IF Owns(h, id) THEN 0 ELSE h.leaseGeneration,
     lastProbeAt |-> IF Owns(h, id) THEN now ELSE h.lastProbeAt,
     softAvoidUntil |-> Never]

\* Mutant: whoever concludes gives the lease back.
ReleaseAny(h, id) == Released(h, now)

ReleaseIfOwned(h, id) == IF Owns(h, id) THEN Released(h, now) ELSE h

AfterSuccess(h, id) ==
    LET base == ReleaseIfOwned(h, id)
    IN  CASE Cooled(h) /\ MayClear(h, id) -> Absent
          [] ~(Cooled(h) /\ MayClear(h, id))
               /\ FailoverThreshold > 0 /\ h.failures >= 2 /\ h.successes < 1 ->
               [base EXCEPT !.successes = h.successes + 1]
          [] OTHER -> IF Cooled(h) THEN Preserved(base) ELSE Absent

\* Mutant: a failure counts down.
StreakDown(h) == h.failures - 1

Streak(h) ==
    IF h.lastFailureAt # Never /\ now - h.lastFailureAt > FailureWindow
    THEN 1 ELSE h.failures + 1

Escalation(streak) ==
    LET over == streak - FailoverThreshold
    IN  SoftAvoids[IF over < 0 THEN 0 ELSE IF over > 3 THEN 3 ELSE over]

FailoverReady(streak) == FailoverThreshold > 0 /\ streak >= FailoverThreshold

AfterTransient(h, id) ==
    [Preserved(ReleaseIfOwned(h, id)) EXCEPT
        !.failures = Streak(h),
        !.lastFailureAt = now,
        !.softAvoidUntil =
            IF ~FailoverReady(Streak(h)) THEN Never
            ELSE Larger(h.softAvoidUntil, now + Escalation(Streak(h)))]

-----------------------------------------------------------------------------
(* Admission of a request: resolveCodexAuthContext.                        *)

TypeOK ==
    /\ now \in Nat
    /\ health \in [Accounts -> [Slots -> Health]]
    /\ needsReauth \subseteq Accounts
    /\ configured \subseteq Accounts
    /\ credential \in [Accounts -> [generation : Nat, lineage : Nat, live : BOOLEAN]]
    /\ identity \in [Accounts -> Nat]
    /\ attemptSequence \in Nat /\ configGeneration \in Nat
    /\ lastReconciled \in Nat /\ liveIds \subseteq Accounts
    /\ request \in [Requests ->
         [state : {"idle", "auth", "sent", "done", "abandoned"},
          account : Accounts \cup {"none"}, scope : Scopes \cup {"none"},
          slot : Slots \cup {"none"}, writerGeneration : Nat,
          identity : Nat, write : Nat]]
    /\ \A r \in Requests :
         request[r].state \in {"auth", "sent"} => request[r].account \in Accounts
    /\ claim \in [Accounts ->
         [running : BOOLEAN, slot : Slots, generation : Nat,
          credential : Nat, lineage : Nat, at : Nat, write : Nat]]
    /\ pass \in Nat
    /\ written \in [Accounts -> [Slots -> Nat]]
    /\ lastGrant \in [Accounts -> [Slots -> Time]]

Init ==
    /\ now = 0
    /\ health = [a \in Accounts |-> [s \in Slots |-> Absent]]
    /\ needsReauth = {}
    /\ configured = Accounts
    /\ credential = [a \in Accounts |->
                       [generation |-> 0, lineage |-> 0, live |-> TRUE]]
    /\ identity = [a \in Accounts |-> 0]
    /\ attemptSequence = 1 /\ configGeneration = 1
    /\ lastReconciled = 1 /\ liveIds = Accounts
    /\ request = [r \in Requests |-> Resting("idle")]
    /\ claim = [a \in Accounts |->
                  [running |-> FALSE, slot |-> "account", generation |-> 0,
                   credential |-> 0, lineage |-> 0, at |-> 0, write |-> 0]]
    /\ pass = 0
    /\ written = [a \in Accounts |-> [s \in Slots |-> 0]]
    /\ lastGrant = [a \in Accounts |-> [s \in Slots |-> Never]]

Usable(a) == a \in configured \ needsReauth /\ credential[a].live

\* getCodexQuotaHealthSnapshot: the account-wide cooldown wins.
CoolingSlot(a, scope) ==
    IF Cooled(health[a]["account"]) THEN "account"
    ELSE IF scope # "none" /\ Cooled(health[a][scope]) THEN scope
    ELSE "none"

Set(a, slot, h) == health' = [health EXCEPT ![a][slot] = h]

Admitted(r, a, scope, slot) ==
    request' = [request EXCEPT ![r] =
        [state |-> "auth", account |-> a, scope |-> scope,
         slot |-> slot, writerGeneration |-> configGeneration,
         identity |-> identity[a],
         write |-> IF slot = "none" THEN 0 ELSE written[a][slot]]]

Admit(r, a, scope) ==
    /\ request[r].state = "idle"
    /\ a \in configured
    /\ CoolingSlot(a, scope) = "none"
    /\ Admitted(r, a, scope, "none")
    /\ UNCHANGED <<now, healthVars, accountVars, generationVars, claim, pass>>

\* Through the cooldown, on a lease.  Without one the request is refused and
\* nothing changes.  Exact account bindings are always refused here.
AdmitProbe(r, a, scope) ==
    LET slot == CoolingSlot(a, scope)
    IN  /\ request[r].state = "idle"
        /\ a \in configured
        /\ slot # "none"
        /\ CanProbe(health[a][slot])
        /\ Set(a, slot, Leased(health[a][slot], r))
        /\ lastGrant' = [lastGrant EXCEPT ![a][slot] = now]
        /\ Admitted(r, a, scope, slot)
        /\ UNCHANGED <<now, written, accountVars, generationVars, claim, pass>>

Done(r) == request' = [request EXCEPT ![r] = Resting("done")]

\* releaseCodexAuthContextProbeLease, a no-op for a request without a lease.
ReleaseLease(r) ==
    LET a == request[r].account
        slot == request[r].slot
    IN  IF slot # "none"
        THEN Set(a, slot, ReleaseIfOwned(health[a][slot], r))
        ELSE UNCHANGED health

\* The token is there (for a pool account after awaiting getValidCodexToken), and
\* the account is still usable, which only the retry of a 429 does not check.
TokenReady(r, checked) ==
    /\ request[r].state = "auth"
    /\ checked => Usable(request[r].account)
    /\ request' = [request EXCEPT ![r].state = "sent"]
    /\ UNCHANGED <<now, healthVars, accountVars, generationVars, claim, pass>>

\* ... or the account stopped being usable while the token was awaited.
TokenRejected(r) ==
    /\ request[r].state = "auth"
    /\ ~Usable(request[r].account)
    /\ ReleaseLease(r)
    /\ Done(r)
    /\ UNCHANGED <<now, written, lastGrant, accountVars, generationVars, claim, pass>>

\* Mutant: the fence compares with the generation that writers capture, which
\* a partly failed reconciliation leaves alone.
FencedByConfig(r) ==
    /\ request[r].writerGeneration < configGeneration
    /\ request[r].account \notin liveIds

\* The writer fence: an outcome captured under an older configuration
\* generation is dropped unless its account is still configured.
Fenced(r) ==
    /\ request[r].writerGeneration < lastReconciled
    /\ request[r].account \notin liveIds

\* getValidCodexToken threw, fatal errors quarantine the pool account; or the
\* native login's token is gone.
TokenFailed(r, fatal) ==
    /\ request[r].state = "auth"
    /\ fatal => request[r].account # Main
    /\ ReleaseLease(r)
    /\ needsReauth' = IF fatal /\ ~Fenced(r)
                      THEN needsReauth \cup {request[r].account}
                      ELSE needsReauth
    /\ Done(r)
    /\ UNCHANGED <<now, written, lastGrant, configured, credential, identity,
                   generationVars, claim, pass>>

\* No outcome is recorded: the client goes away before the response headers
\* (transportFailureResponse answers 499), building the request throws, or a
\* combo defers the reset-derived 429 of a target to its next one.
Abandon(r) ==
    /\ request[r].state = "sent"
    /\ request' = [request EXCEPT ![r] = Resting("abandoned")]
    /\ UNCHANGED <<now, healthVars, accountVars, generationVars, claim, pass>>

\* The identifier of an attempt that is over, and left no lease behind, stands
\* for another one.
Recycle(r) ==
    /\ request[r].state \in {"done", "abandoned"}
    /\ \A a \in Accounts, s \in Slots :
         /\ health[a][s].lease # r
         /\ written[a][s] < MaxWrites /\ health[a][s].failures < MaxWrites
    /\ request' = [request EXCEPT ![r] = Resting("idle")]
    /\ UNCHANGED <<now, healthVars, accountVars, generationVars, claim, pass>>

-----------------------------------------------------------------------------
(* The outcome of a request: recordCodexUpstreamOutcome.                   *)

Records(r) == request[r].state = "sent" /\ ~Fenced(r) /\ Done(r)

Dropped(r) ==
    /\ request[r].state = "sent"
    /\ Fenced(r)
    /\ Done(r)
    /\ UNCHANGED <<now, healthVars, accountVars, generationVars, claim, pass>>

\* The slots of r's account after the scoped probe of r, if any, is released.
ScopedReleased(r) ==
    LET H == health[request[r].account]
    IN  [s \in Slots |-> IF s \in Scopes /\ s = request[r].slot
                         THEN ReleaseIfOwned(H[s], r) ELSE H[s]]

\* A scoped probe that proved recovery drops the scoped record.
ScopedAfterSuccess(h, id) ==
    IF h.until # Never /\ MayClear(h, id) THEN Absent ELSE ReleaseIfOwned(h, id)

Success(r) ==
    LET a == request[r].account
        H == health[a]
    IN  /\ Records(r)
        /\ health' = [health EXCEPT ![a] =
             [s \in Slots |->
                CASE s = "account" -> AfterSuccess(H[s], r)
                  [] s # "account" /\ s = request[r].slot -> ScopedAfterSuccess(H[s], r)
                  [] OTHER -> H[s]]]
        /\ UNCHANGED <<now, written, lastGrant, accountVars, generationVars, claim, pass>>

\* Classes "caller" and "neutral": only an owned probe is concluded.
Neutral(r) ==
    LET a == request[r].account
    IN  /\ Records(r)
        /\ health' = [health EXCEPT ![a] =
             [ScopedReleased(r) EXCEPT !["account"] = ReleaseIfOwned(@, r)]]
        /\ UNCHANGED <<now, written, lastGrant, accountVars, generationVars, claim, pass>>

\* 401 and 403 quarantine the account; its cooldowns and leases are moot.
Credential(r) ==
    LET a == request[r].account
    IN  /\ Records(r)
        /\ health' = [health EXCEPT ![a] =
             [s \in Slots |->
                IF s = "account"
                THEN [Absent EXCEPT !.failures = 1, !.lastFailureAt = now]
                ELSE Absent]]
        /\ needsReauth' = needsReauth \cup {a}
        /\ UNCHANGED <<now, written, lastGrant, configured, credential, identity,
                       generationVars, claim, pass>>

\* What a 429 or 402 says about its delay.  A sidecar call resolves its account
\* without a model and reports the status alone.
QuotaHints(r) ==
    IF request[r].scope = "none" THEN {<<"default", DefaultCooldown>>}
    ELSE {<<"retry-after", d>> : d \in RetryAfters}
           \cup {<<"reset-derived", d>> : d \in ResetDelays}
           \cup {<<"default", DefaultCooldown>>}

\* The slot a 429 is charged to: a quota reset of a known scope stays in it.
QuotaSlot(r, source) ==
    IF source = "reset-derived" /\ request[r].scope # "none"
    THEN request[r].scope ELSE "account"

Quota(r, source, delay) ==
    LET a == request[r].account
        slot == QuotaSlot(r, source)
        H == IF slot = "account" THEN ScopedReleased(r) ELSE health[a]
    IN  /\ Records(r)
        /\ health' = [health EXCEPT ![a] =
             [H EXCEPT ![slot] = Cooldown(@, r, delay, source)]]
        /\ written' = [written EXCEPT ![a][slot] = @ + 1]
        /\ UNCHANGED <<now, lastGrant, accountVars, generationVars, claim, pass>>

Transient(r) ==
    LET a == request[r].account
    IN  /\ Records(r)
        /\ health' = [health EXCEPT ![a] =
             [ScopedReleased(r) EXCEPT !["account"] = AfterTransient(@, r)]]
        /\ UNCHANGED <<now, written, lastGrant, accountVars, generationVars, claim, pass>>

-----------------------------------------------------------------------------
(* The recovery worker: runCodexCooldownRecoveryProbes.                    *)

PoolAccounts == Accounts \ {Main}

\* GET wham/usage takes no scope, so it never proves a spark recovery.
Due(a) ==
    {s \in {"account", "shared"} :
        health[a][s].source = "reset-derived" /\ CanProbe(health[a][s])}

Claimable == {a \in PoolAccounts : Usable(a) /\ Due(a) # {}}

Oldest(a) ==
    CHOOSE s \in Due(a) : \A t \in Due(a) :
        \/ ProbeOrigin(health[a][s]) < ProbeOrigin(health[a][t])
        \/ ProbeOrigin(health[a][s]) = ProbeOrigin(health[a][t])
              /\ (s = "account" \/ s = t)

Idle == \A a \in Accounts : ~claim[a].running

\* One pass at a time.  Up to ProbeLimit of the longest waiting accounts are
\* claimed, and each claim remembers the credential it will have to prove.  The
\* excluded accounts are paused (CodexRouting); here they may be any.
ClaimRecoveryProbes(batch, excluded) ==
    /\ Idle
    /\ batch \subseteq Claimable \ excluded
    /\ batch # {}
    /\ Cardinality(batch) <= ProbeLimit
    /\ \A a \in Claimable \ (excluded \cup batch) :
         /\ Cardinality(batch) = ProbeLimit
         /\ \A b \in batch : ProbeOrigin(health[b][Oldest(b)])
                              <= ProbeOrigin(health[a][Oldest(a)])
    /\ pass' = pass + 1
    /\ health' = [a \in Accounts |-> [s \in Slots |->
         IF a \in batch /\ s = Oldest(a)
         THEN Leased(health[a][s], <<a, pass'>>) ELSE health[a][s]]]
    /\ lastGrant' = [a \in Accounts |-> [s \in Slots |->
         IF a \in batch /\ s = Oldest(a) THEN now ELSE lastGrant[a][s]]]
    /\ claim' = [a \in Accounts |->
         IF a \in batch
         THEN [running |-> TRUE, slot |-> Oldest(a),
               generation |-> health[a][Oldest(a)].generation,
               credential |-> credential[a].generation,
               lineage |-> credential[a].lineage,
               at |-> now, write |-> written[a][Oldest(a)]]
         ELSE claim[a]]
    /\ UNCHANGED <<now, written, accountVars, generationVars, request>>

CredentialLive(a, g) == credential[a].live /\ credential[a].generation = g

\* The usage was proved under credential generation proof: the one claimed, or
\* the one the probe's own refresh made of it.
ProofFenced(a, proof) ==
    /\ CredentialLive(a, proof)
    /\ \/ proof = claim[a].credential
       \/ /\ proof = claim[a].credential + 1
          /\ credential[a].lineage = claim[a].lineage

CooldownFenced(a) ==
    LET h == health[a][claim[a].slot]
    IN  h.generation = claim[a].generation /\ h.leaseGeneration = claim[a].generation

\* settleCodexQuotaRecoveryProbe; the worker passes the time of its pass.
Settle(a, recovered, proof) ==
    LET slot == claim[a].slot
        h == health[a][slot]
    IN  /\ claim[a].running
        /\ claim' = [claim EXCEPT ![a].running = FALSE]
        /\ CASE ~Owns(h, <<a, pass>>) -> UNCHANGED health
             [] Owns(h, <<a, pass>>)
                  /\ ~(recovered /\ CooldownFenced(a) /\ ProofFenced(a, proof)) ->
                  Set(a, slot, Released(h, claim[a].at))
             [] OTHER ->
                  Set(a, slot, IF slot = "account"
                               THEN Lifted(h, claim[a].generation + 1, claim[a].at)
                               ELSE Absent)
        /\ UNCHANGED <<now, written, lastGrant, accountVars, generationVars,
                       request, pass>>

-----------------------------------------------------------------------------
(* The operator, and the configuration.                                    *)

\* clearCodexAccountCooldown, "the quota window moved".
ClearCooldown(a) ==
    /\ health' = [health EXCEPT ![a] = [s \in Slots |->
         IF Cooled(health[a][s])
         THEN Lifted(health[a][s], health[a][s].generation + 1, now)
         ELSE health[a][s]]]
    /\ UNCHANGED <<now, written, lastGrant, accountVars, generationVars,
                   request, claim, pass>>

\* resetCodexRoutingForManualSelection, the health half.
SelectManually(a) ==
    /\ Set(a, "account", Preserved(health[a]["account"]))
    /\ UNCHANGED <<now, written, lastGrant, accountVars, generationVars,
                   request, claim, pass>>

\* A reconciliation always reaches the two stores modelled here; it moves the
\* generation writers capture only when no other store's callback threw.
Reconciled(ids, ok) ==
    /\ attemptSequence' = attemptSequence + 1
    /\ configGeneration' = IF ok THEN attemptSequence' ELSE configGeneration
    /\ lastReconciled' = attemptSequence'
    /\ liveIds' = ids

\* The stores forget every account that is not configured any more.
ForgetHealth(ids) ==
    [a \in Accounts |-> IF a \in ids THEN health[a] ELSE [s \in Slots |-> Absent]]

\* A config write that leaves the accounts alone still reconciles the stores.
Reconcile(ok) ==
    /\ attemptSequence < MaxAttempts
    /\ Reconciled(configured, ok)
    /\ health' = ForgetHealth(configured)
    /\ needsReauth' = needsReauth \cap configured
    /\ UNCHANGED <<now, written, lastGrant, configured, credential, identity,
                   request, claim, pass>>

\* DELETE /api/codex-auth/accounts: deleteCodexAccount, save, reconcile.
RemoveAccount(a, ok) ==
    /\ attemptSequence < MaxAttempts
    /\ a \in configured \ {Main}
    /\ configured' = configured \ {a}
    /\ credential' = [credential EXCEPT
         ![a] = [generation |-> @.generation + 1, lineage |-> @.lineage,
                 live |-> FALSE]]
    /\ Reconciled(configured', ok)
    /\ health' = ForgetHealth(configured')
    /\ needsReauth' = needsReauth \cap configured'
    /\ UNCHANGED <<now, written, lastGrant, identity, request, claim, pass>>

\* POST /api/codex-auth/accounts: the operator may use a deleted id again, for
\* another login.
AddAccount(a, ok) ==
    /\ attemptSequence < MaxAttempts
    /\ a \notin configured
    /\ configured' = configured \cup {a}
    /\ credential' = [credential EXCEPT
         ![a] = [generation |-> @.generation + 1, lineage |-> @.lineage + 1,
                 live |-> TRUE]]
    /\ identity' = [identity EXCEPT ![a] = @ + 1]
    /\ Reconciled(configured', ok)
    /\ health' = ForgetHealth(configured')
    /\ needsReauth' = (needsReauth \ {a}) \cap configured'
    /\ UNCHANGED <<now, written, lastGrant, request, claim, pass>>

\* Another login is found behind __main__, or the native profile is switched:
\* its alias-keyed state is purged.  No reconciliation.
SwitchMainIdentity ==
    /\ Main \in Accounts
    /\ identity[Main] < MaxReplacements
    /\ identity' = [identity EXCEPT ![Main] = @ + 1]
    /\ health' = [health EXCEPT ![Main] = [s \in Slots |-> Absent]]
    /\ needsReauth' = needsReauth \ {Main}
    /\ UNCHANGED <<now, written, lastGrant, configured, credential,
                   generationVars, request, claim, pass>>

\* The two ways a stored credential's generation moves while it stays live: a
\* token refresh keeps the lineage, a new sign-in starts one.
RefreshCredential(a) ==
    /\ a \in PoolAccounts /\ credential[a].live
    /\ credential[a].generation < MaxReplacements
    /\ credential' = [credential EXCEPT ![a].generation = @ + 1]
    /\ UNCHANGED <<now, healthVars, needsReauth, configured, identity,
                   generationVars, request, claim, pass>>

Reauthenticate(a) ==
    /\ a \in PoolAccounts \cap configured
    /\ credential[a].generation < MaxReplacements
    /\ credential' = [credential EXCEPT
         ![a] = [generation |-> @.generation + 1, lineage |-> @.lineage + 1,
                 live |-> TRUE]]
    /\ needsReauth' = needsReauth \ {a}
    /\ UNCHANGED <<now, healthVars, configured, identity, generationVars,
                   request, claim, pass>>

\* The process ends, at whatever point, and another starts: what is in memory is
\* gone, requests and claims included.  The generations start over in the code;
\* nothing they could be compared with is left, so they count on here.
Restart ==
    /\ health' = [a \in Accounts |-> [s \in Slots |-> Absent]]
    /\ needsReauth' = {}
    /\ request' = [r \in Requests |->
         IF request[r].state \in {"auth", "sent"} THEN Resting("abandoned")
         ELSE request[r]]
    /\ claim' = [a \in Accounts |-> [claim[a] EXCEPT !.running = FALSE]]
    /\ configGeneration' = attemptSequence
    /\ lastReconciled' = attemptSequence
    /\ liveIds' = configured
    /\ UNCHANGED <<now, written, lastGrant, configured, credential, identity,
                   attemptSequence, pass>>

Tick ==
    /\ now < MaxTime
    /\ now' = now + 1
    /\ UNCHANGED <<healthVars, accountVars, generationVars, request, claim, pass>>

-----------------------------------------------------------------------------

RequestNext(r) ==
    \/ \E a \in Accounts, scope \in ModelScopes :
         Admit(r, a, scope) \/ AdmitProbe(r, a, scope)
    \/ \E checked \in BOOLEAN : TokenReady(r, checked)
    \/ TokenRejected(r)
    \/ \E fatal \in BOOLEAN : TokenFailed(r, fatal)
    \/ Abandon(r)
    \/ Recycle(r)
    \/ Dropped(r)
    \/ Success(r)
    \/ Neutral(r)
    \/ Credential(r)
    \/ \E q \in QuotaHints(r) : Quota(r, q[1], q[2])
    \/ Transient(r)

WorkerNext ==
    \/ \E batch, excluded \in SUBSET Accounts : ClaimRecoveryProbes(batch, excluded)
    \/ \E a \in Accounts, recovered \in BOOLEAN :
         \E proof \in claim[a].credential .. credential[a].generation :
            Settle(a, recovered, proof)

OperatorNext ==
    \/ \E a \in Accounts :
         \/ ClearCooldown(a) \/ SelectManually(a)
         \/ RefreshCredential(a) \/ Reauthenticate(a)
    \/ \E a \in Accounts, ok \in BOOLEAN : RemoveAccount(a, ok) \/ AddAccount(a, ok)
    \/ \E ok \in BOOLEAN : Reconcile(ok)
    \/ SwitchMainIdentity

Next ==
    \/ \E r \in Requests : RequestNext(r)
    \/ WorkerNext
    \/ OperatorNext
    \/ Restart
    \/ Tick

Spec == Init /\ [][Next]_vars

-----------------------------------------------------------------------------
(* Properties.                                                             *)

\* A step that may end any cooldown of a: the operator's reset, a credential
\* failure (the account is quarantined instead), a removal, another login, a
\* restart.
Overruled(a) ==
    \/ ClearCooldown(a)
    \/ Restart
    \/ \E r \in Requests : request[r].account = a /\ Credential(r)
    \/ a \notin configured'
    \/ identity'[a] # identity[a]

\* The probe that holds the lease of a's slot concludes in this step.
HolderConcludes(a, slot) ==
    LET lease == health[a][slot].lease
    IN  \/ /\ lease \in Requests
          /\ request[lease].state \in {"auth", "sent"}
          /\ request'[lease].state = "done"
       \/ /\ lease = <<a, pass>>
          /\ claim[a].running
          /\ ~claim'[a].running

\* ... and proves that the upstream quota recovered: it was granted against the
\* very cooldown the slot now has, and a claim still speaks for the login it
\* was made under.
HolderProves(a, slot) ==
    LET lease == health[a][slot].lease
    IN  \/ /\ lease \in Requests
          /\ Success(lease)
          /\ request[lease].write = written[a][slot]
       \/ /\ lease = <<a, pass>>
          /\ claim[a].running /\ ~claim'[a].running
          /\ claim[a].write = written[a][slot]
          /\ claim[a].lineage = credential[a].lineage

\* A hard cooldown outlives every late, unrelated or outdated answer: before its
\* time it is ended only by an overruling step or by the probe let through this
\* same cooldown (routing.ts, probeMayClearCooldown and settle's fences).
CooldownEndsForCause ==
    [][\A a \in Accounts, slot \in Slots :
         (Cooled(health[a][slot]) /\ now' = now /\ ~(health'[a][slot].until > now'))
           => Overruled(a) \/ HolderProves(a, slot)]_vars

\* While a slot is cooled its lease is given up only by the probe that holds it
\* or by an overruling step: nobody consumes somebody else's probe (the guards
\* on ownsProbeLease in recordCodexUpstreamOutcome).
LeaseSurvivesOthers ==
    [][\A a \in Accounts, slot \in Slots :
         LET h == health[a][slot]
         IN  (Cooled(h) /\ h.lease # NoLease /\ health'[a][slot].lease # h.lease)
               => Overruled(a) \/ HolderConcludes(a, slot)]_vars

\* Two probes of one slot are granted at least an interval apart, whatever
\* outcomes, resets, claims and new cooldowns come between them (the comment of
\* CODEX_QUOTA_PROBE_INTERVAL_MS).
ProbesArePaced ==
    [][\A a \in Accounts, slot \in Slots :
         lastGrant'[a][slot] # lastGrant[a][slot] =>
            \/ lastGrant[a][slot] = Never
            \/ now - lastGrant[a][slot] >= ProbeInterval]_vars

\* A lease that would pass the generation check was granted against the cooldown
\* its slot has now, however often the record was deleted and its generation
\* restarted in between.
LeaseMatchesCooldown ==
    \A a \in Accounts, slot \in Slots :
        LET h == health[a][slot]
        IN  /\ h.lease \in Requests /\ request[h.lease].state \in {"auth", "sent"} =>
                 /\ request[h.lease].account = a /\ request[h.lease].slot = slot
                 /\ h.leaseGeneration <= h.generation
                 /\ h.leaseGeneration = h.generation =>
                      request[h.lease].write = written[a][slot]
            /\ h.lease = <<a, pass>> /\ claim[a].running =>
                 /\ claim[a].slot = slot
                 /\ h.leaseGeneration = h.generation => claim[a].write = written[a][slot]

\* An account that left the configuration leaves no health and no quarantine
\* behind, not even through the outcome of a request that was in flight (the
\* writer fences of recordCodexUpstreamOutcome and markAccountNeedsReauth).
RemovedStaysForgotten ==
    \A a \in Accounts \ configured :
        a \notin needsReauth /\ \A slot \in Slots : health[a][slot] = Absent

=============================================================================
