# CodexCommander in TLA+

CodexCommander (the repository this directory belongs to) is a local proxy between Codex clients and upstream model
providers. Its difficult part is the **account pool**: many requests in flight, whose late answers move shared
cooldowns, selections, bindings and credentials, while an operator, a recovery worker, other processes and restarts
change the same state. Around it stand two stores that must survive a crash: the responses a later request continues
from, and the native Codex login, which may be switched only while nobody uses it; and the logins of other providers
are refreshed with grants that may be used once. These modules model the pool, both stores, the gate in front of the
native login and the refresh of an Anthropic login, check them with TLC and prove with TLAPS what holds for all constants.

Paths below are relative to `src/src` unless they start with `docs-site` or `tests`. `PROJECT.json` maps every
definition to the lines it stands for, and lists hazards and theorems.

## 1. Inventory

| component | state | operations | interacts with | hard because |
|---|---|---|---|---|
| **Account health** (`codex/routing.ts`, `codex/auth-context.ts`) | per account and quota scope: cooldown, its source and generation, probe lease, failure streak, soft avoid; `reauthAccounts`; writer generations | admit, probe, record an outcome, release, claim and settle recovery probes, reset, reconcile | requests report outcomes; the worker of `codex/auth-api.ts`; `lib/state-store-sweeper.ts` | outcomes arrive late, in any order, for accounts that were reset, refreshed or removed |
| **Pool rotation** (`codex/pool-rotation.ts`) | a ring per pool key: active account, count, credits | pick, note success or failure, seed, reconcile; priority tiers | called by routing | long sequences of draws over changing lists |
| **Pool routing** (`codex/routing.ts`, `codex/auth-context.ts`, `server/responses/core.ts`) | active account (configuration and disk), pin, runtime cursor, rings, thread affinity, ownership file of the native login | resolve, preview, retry, promote, pause, select, remove, restart | health, rotation, credentials | choice, await and effect are apart; memory, configuration and file may differ |
| **Credential store and refresh** (`codex/account-store.ts`) | `codex-accounts.json`, flights of a process, lock files | read, save, compare-and-save, tombstone, refresh | every request with a pool account; other processes | single flight per process, files between processes, takeover by joined callers |
| **Provider logins** (`oauth/store.ts`, `oauth/index.ts`) | `auth.json`, refresh intents, lock files, flights of a process | refresh, merge, flag, log in, remove | requests to other providers; other processes | a grant is spent by use: a crash between dispatch and save, flights that are replaced, locks that grow old |
| Token guardian (`oauth/token-guardian.ts`) | backoff | sweep, reconcile | provider logins | a background caller beside the requests |
| **Native profiles** (`codex/native-profile-manager.ts`) | `auth.json`, the encrypted vault, the journal of a switch | switch, undo, recover, roll back, import | native Codex and its user write `auth.json` too | two files are exchanged while any write may fail and the process may die |
| **Server lifecycle** (`server/lifecycle.ts`, `codex/native-profile-startup.ts`, `codex/native-profile-api.ts`) | turns, their selections and claims of the native login, the scoped drain, the recovery gate, the shutdown | admit, select, claim, fence, converge, sweep, seal, shut down | every turn; the switch | a gate that several asynchronous actors open and close; drains that wait for turns |
| **Response state** (`responses/state.ts`, `responses/spill-store.ts`) | responses in memory, spill files, the queue of files to remove, the snapshot and its writers | remember, expand, evict, sweep, write, follow up, flush, load | requests with `previous_response_id` | memory and two kinds of files change at different times, and every write may fail |
| Start lock and process lifecycle (`server/proxy-start-lock.ts`, `cli/proxy-lifecycle.ts`) | lock file, delegation | acquire, delegate, reclaim, stop | command line, service, app | several starters, dead owners |
| Codex integration (`codex/codex-write-lock.ts`, `transition-state.ts`, `journal.ts`) | user's Codex configuration, journal, transition record | inject, restore, retire | start and stop of the proxy | a crash between any two files |
| Convergence (`codex/convergence.ts`, `boot-fence.ts`) | candidate catalogs, generations | prepare, revalidate, commit | write lock | validated state is stale when committed |
| Storage maintenance (`storage/*`) | mutation slot, run generation, worker | run, cancel, restore | management API | one slot, three kinds of jobs |
| Combos (`combos/failover.ts`), sweeper (`lib/state-store-sweeper.ts`) | target cooldowns; generation, pending retries | cool, reconcile, sweep | configuration changes | rows outlive what they are about |
| Retries and relays (`lib/upstream-retry.ts`, `server/relay-eager.ts`) | attempts, buffers | send, retry, relay | health | retries race with disconnects |
| Adapters, router, sidecars, usage, management API, CLI, tray, GUI, app, docs | mostly none that is shared | translation, lookup, display | | data rather than behaviour |

What makes each modelled component correct:

- **health**: a cooldown ends before its time only for a cause; a probe lease belongs to one holder and one cooldown;
  probes are paced; nothing of a removed account returns.
- **rotation**: sticky runs end, shares are even, nobody who is eligible waits for ever, tiers are respected.
- **routing**: a healthy binding stays; excluded accounts are not bound, not even on disk; a paused account gets no
  request; an independent quota group moves nothing shared; the selection on disk is the one in force; rotating
  strategies do not write it; the preview agrees with the decision.
- **refresh**: a live generation names the credential that was handed out; a newer login survives older refreshes;
  one flight per grant; no entry or lock is left behind; every call is answered.
- **provider logins**: a grant is sent once; a late answer, refusal or flag leaves a newer login alone.
- **responses**: a request is continued from the last version remembered or, after a restart, from the last snapshot,
  never from another; a file is removed only when no row, here or in the snapshot, names it, and none is forgotten;
  memory stays below its cap; what was remembered reaches the disk.
- **native login**: an exchange loses no login, whatever fails; it happens while no turn uses the login; the fence and
  the shutdown end.

## 2. Modules

```
RotationRing            operators on a ring and on tiers (no state)
                                                    ── RotationRing_proofs (what they return)
 ├─ PoolRotation        one ring in use            ── PoolRotation_proofs, MCPoolRotation
 └─ CodexRouting        EXTENDS CodexHealth, RotationRing; composes both with the operator's calls
                                                    ── CodexRouting_proofs, MCCodexRouting
CodexHealth             health of accounts         ── CodexHealth_proofs, MCCodexHealth
CredentialRefresh       account-store.ts           ── CredentialRefresh_proofs, MCCredentialRefresh
OAuthRefresh            oauth/index.ts, oauth/store.ts  ── OAuthRefresh_proofs, MCOAuthRefresh
ResponseCache           what the store of responses promises (abstract)
 └─ ResponseState       implements it              ── ResponseState_proofs, MCResponseState
LoginExchange           what a switch of logins promises (abstract)
 └─ NativeSwitch        implements it: auth.json, vault, journal
     └─ NativeGate      EXTENDS NativeSwitch: turns, drains, gate, shutdown around it
                                                    ── NativeGate_proofs, MCNativeGate
```

**CodexHealth.** `health[a][slot]` is the record of `upstreamHealth` (slot `"account"`) or `quotaScopedHealth` (slots
`"shared"`, `"spark"`). A request goes `idle -> auth -> sent -> done`: it is admitted (`Admit`, `AdmitProbe`, the
checks of `resolveCodexAuthContext`), its token is awaited (`TokenReady`, `TokenRejected`, `TokenFailed`), and its
outcome is recorded (`Success`, `Neutral`, `Credential`, `Quota`, `Transient`: the branches of
`recordCodexUpstreamOutcome`), dropped by the writer fence (`Dropped`) or never recorded (`Abandon`). The recovery
worker is `ClaimRecoveryProbes` and `Settle`, one usage call per claimed account between them. Generations
(`attemptSequence`, `configGeneration`, `lastReconciled`, `liveIds`) are those of the sweeper and the fences.
`identity`, `written` and `lastGrant` are ghosts for the properties.

**RotationRing / PoolRotation.** A list of ids is a set with a rank that gives its order. `PoolRotation` lets any
configured set be eligible at every draw, which covers all that health, pauses and priority can leave over; its ghosts
count waiting, runs and shares.

**CodexRouting** adds to `CodexHealth` the pool state (`pool.active`, `pin`, `cursor`, `saved`, `ring`, `affinity`,
`owned`), the settings and what a request remembers of its routing. Each of its request actions conjoins an action of
`CodexHealth` with what routing does in the same callback: `AdmitThread` = resolution by affinity, strategy,
preemption, auto-switch and failover (`Resolve`) and `Admit`; `Retry` = the alternate of a failed attempt;
`Outcome` = `recordCodexUpstreamOutcome` with rebinding and promotion. `Preview` is `previewCodexAccountForRequest`,
written from its own code and compared with `Resolve`. `RestartRouting` forgets memory and keeps `saved` and `owned`.

**CredentialRefresh.** A caller of `getValidCodexToken` answers from the record, joins the flight of its process, or
flies itself: `CreateLock` / `MeetLock` / `JudgeLock` / `ReclaimLock` (lock file, each a separate system call for other
processes), `Locked` (re-read under the lock), `Answer` (token endpoint: external), `Receive` / `Adopt` (compare and
save), `Close` (unlink, clear the flight, settle the promise), `Resume` (a joined caller takes over). `Interrupt`
and `GiveUp` are the 30 s signal, the replacement of a stale flight, and the deadline for the lock. A process runs one
callback at a time (`Free`, `Turn`): no other caller of the process comes between steps that the code takes without an
await, while other processes may.

**OAuthRefresh.** A flight `f` of `resolveAccessSnapshotForAccount` (`Ask`: it replaces one that is too old, whose
name and dispatch it remembers in `replaced` and `replacedSent`) takes the lock file of the account (`CreateLock`,
`VerifyLock`, and for one that has been there for too long `JudgeLock`, `UnlinkLock`), then does
`refreshAnthropicAccountWithLock`: `ReadAccount`, `Examine` (what an intent file found there means: flag the account,
give up, or go on), `Intend` (writes its own intent), `Dispatch` (the grant leaves), `Answer` (external), `Merge` or
`Refuse` (compare and save, compare and flag), `Clear`; `Release` and `RemoveLock` give the lock back and `Settle`
flags the account if a new login is asked for. A credential is a number, and `login` the one it descends from.
Steps between which the code does not await exclude the rest of their process (`Synchronous`, `Free`), not other
processes and crashes. `robbed` is a ghost: the flight's lock file was removed by name while it counted on it.

**ResponseState.** `row[i]` is the entry of an id: its payload (`"resident"`), a stub that names a file (`"spill"`), a
tombstone for a payload that could not be written (`"spill-failed"`). A version stands for a response's content and its
creation time. `Remember` is `rememberResponseState` with its admission, its eviction by count and bytes and its prune;
`Expand` the reading of a chain, `BudgetEvict` the call of the memory budget, `Sweep` the timer. Each takes the set of
ids whose spill fails. The snapshot has one writer at a time (`writer`, and `waiting` for those queued in
`persistGate`): `BeginWrite` takes its picture, `Rename` puts it in place, `Stable` / `Again` / `Unstable` ask whether
the rows moved meanwhile, `FollowUp` asks for another write. `Free` holds the other handlers back in those turns of one
promise chain that nothing of them can enter. `Flush` is the one of the shutdown; `Crash` may happen at any step,
loses memory, and may leave a file that was published and not yet named; `Load` starts from the snapshot and removes
the orphans. File names are the least free number where the code has a process counter with a retry on `EEXIST`.

**ResponseCache** is its abstract specification: what a request would be continued from (`known`), the picture being
written (`taken`) and the one on disk (`saved`) may each forget, and know nothing but the version remembered last or,
after `Restart`, the one on disk. `ResponseState!ImplementsCache` is the refinement, with `known` read off the rows and
the files that exist.

**NativeSwitch.** An operation (`op`) carries its plan, the sequence of writes of `Plans`: `switch`, its `undo`, and
the four branches of `recoverLocked` (`rollback`, `withdraw`, `finish`, `preserve`). `Operate` reads and chooses the
plan, or does the next write, each a step of its own, since others act and the process may die between them; every
write may fail, before or after it has taken effect. `Outside` is native Codex and its user, who refresh the login in
use, sign in over it or sign out (external). **LoginExchange** is what all of that promises: an `Exchange` changes the
active login and no payload, only `SignIn` may leave an identity with an older one, and a login that is unknown is
never exchanged.

**NativeGate** composes the switch with who may use the login: turns that are admitted, select and claim
(`ClaimMainProfile`), the drains of a switch and of an update, the management request (`AcquireNativeDrain` …
`EndRequest`), the convergence of a started server (`Converge`, `FirstSweep`), the periodic `StageSweep`, sealing for an
update, shutdown (`BeginShutdown`, `EndTurns`, `Stop`) and `Restart`. The purge that the code makes with a switch is
`CodexHealth!SwitchMainIdentity`.

## 3. Runs

Each line: what the run asks, its bounds and why they suffice.

| run | asks | bounds |
|---|---|---|
| `health_probes` | `LeaseMatchesCooldown`, `CooldownEndsForCause`, `LeaseSurvivesOthers`, `ProbesArePaced` under late outcomes, claims, resets, refreshes | 1 account, 3 attempts, clock 0..5 with tick = 2.5 min; default cooldown 1 < probe interval 2 < reset-derived 4, third soft avoid beyond the failure window. Three attempts give a holder, a stranger and a late one |
| `health_lifecycle` | `RemovedStaysForgotten` over removal, re-addition, another native login, failing reconciliation | a pool account and the native login, 2 requests, 1 replacement, both kinds of model scope |
| `rotation_runs` | `RunsEnd`, `EvenShare`, `NobodyStarves` | 3 accounts, limit 2, 2 removals: with 3 accounts one may be absent while two draw |
| `routing_strategies` | `RotationNeverPersists`, `PreviewAgreesAtRest` for the three strategies | 2 accounts, 2 tiers, usage 90 against 80. `OneConcernAtATime` keeps order and usage with quota and changes of strategy with the rotating ones |
| `routing_contained` | `IndependentScopeIsContained`, `PausedGetsNoRequest`, `StickyUntilCause` | 2 requests in flight, one of each quota group, with retries and pauses |
| `routing_durable` | `ExcludedIsUnbound`, `SelectionIsSaved` as time passes and over removals and restarts | a pool account and the native login, a failed request and its retries, clock 0..2 with a lifetime of bindings of 1 |
| `refresh_flights` | `GenerationNamesCredential`, `OneFlightPerGrant`, `NothingLeftBehind`, `NewerLoginStays` | 2 processes, 2 callers, 1 account, 2 tokens beyond the first, limits of 0 with a clock of 0..1: one tick makes a lock or a flight stale |
| `refresh_answered` | `EveryCallIsAnswered` (liveness) | 2 accounts with one grant, 2 callers of one process; crash included |
| `oauth_intents` | `NeverReplayed`, `LateAnswersYield` | 2 processes, 3 flights (each name is used once), 2 credentials beyond the first, limits of 0 with a clock of 0..1: a flight that sends and dies, one that is replaced, and one that finds what they left |
| `response_chain` | `AtRestMemoryIsSaved`, `SnapshotKeepsItsFiles`, `NoFileForgotten`, `FlushSavesOrLeavesAWriter`, `EventuallySaved` (liveness) | 1 id with 3 versions, one size that stays in memory and one that spills at once, a second rewrite, 2 queued writers, shutdown and crash: a version behind each of the row, the writer's picture and the snapshot |
| `response_evictions` | `WithinCap`, `StubsHaveFiles`, `ImplementsCache` (refinement) | 2 ids in a memory for one, sizes below, at and above what the cap and the snapshot take, crash without shutdown. Eviction by count is met by rows of least size only and stays in `response_chain` |
| `native_main` | `AloneWithTheLogin`, `ImplementsExchange` (refinement), `DrainEnds`, `ShutdownEnds` (liveness) | 2 profiles, a stranger's login, 2 logins of each, 1 turn, which may be a survivor of the drain as well as a newcomer: every plan is interrupted after every write |

Six of these also check the type invariant of their module; that of `PoolRotation` is proved. Every property
has a mutant in `PROJECT.json`: an operator that stands before the definition it would replace and changes it the way a
plausible slip would. Bounds are constants (`MaxTime`, `MaxAttempts`, `MaxReplacements`, `MaxWrites`, `MaxRemovals`,
`MaxTokens`, `MaxVersion`, `MaxWaiting`, `MaxLogins`) that stop an action, never a property. Deadlock is checked in
every run but `oauth_intents`, where nothing is left to do once every flight has been used, the credentials are issued
and the clock has run out. Symmetry is used only in runs without liveness properties.

**Fairness.** Where properties are about safety, none is assumed. A JavaScript process takes its due callbacks in turn,
and that is all the rest assumes:

- `CredentialRefresh!FairSpec`: `SF(Flight(c))` and `WF(Resume(c))`, since a callback that is due again and again (the
  process is free again and again) is run; `SF(GiveUp(c))`, since the loop that waits for the lock looks at the signal
  and the deadline in every round. `Interrupt` is what the 30 s signal of a flight guarantees. Nothing is assumed of
  the upstream, the clock or the operator.
- `ResponseState!Fairness`: `WF(TimerFires)` and `WF(Writing)`, the persist timer and the promise chain of a write,
  which succeeds or fails.
- `NativeGate!Progress`: the operation that holds the lock goes on or fails; the request that waits probes or meets its
  deadline (`GiveUp`) and ends; the convergence and the first sweep of a started server; the steps of a shutdown, whose
  deadline needs no turn to end. Nobody has to begin a switch, a turn or a shutdown, and no turn has to end.

## 4. Proofs

TLAPS checks all of them; constants are arbitrary within the named assumptions of the modules (`HealthAssumption`,
`RotationAssumption`, `RoutingAssumption`, `RefreshAssumption`, `ResponseAssumption`, `SwitchAssumption`,
`TurnsAssumption`, `OAuthAssumption`). They ask for no more than the program has: accounts are finitely many and ranked
without ties, `NoAccount` and `NoThread` are none of them, limits are numbers, a queue has room for one file and a write
for one attempt. Two theorems or groups of theorems have a hypothesis of their own, named below.

**Every invariant and every action property that a run checks is also a theorem**, `RunsEnd` to `AloneWithTheLogin`,
and so are the three refinements (`ImplementsCache`, `ImplementsExchange`, routing implements health). What is only
model-checked is liveness (end of this section).

**Health** (`CodexHealth_proofs`).

- `TypeCorrect`: the type invariant, action by action; `TypeOK` is inductive.
- `RemovalIsFinal` (`RemovedStaysForgotten`). By itself the property is not inductive: a
  late outcome of a request admitted before the removal would write. The strengthening says that whatever may still
  write about an account outside the configuration is fenced: its writer generation is older than the one that the
  removal reconciled, and the account is not among the live ids. It is preserved because a removal moves the generation
  also where a store fails to reconcile.
- `LeasesNameTheirCooldown` (`LeaseMatchesCooldown`), `OnlyCauseEndsCooldowns` (`CooldownEndsForCause`),
  `OnlyHoldersReturnLeases` (`LeaseSurvivesOthers`), `ProbesKeepTheirDistance` (`ProbesArePaced`). First, what any step
  may do to one record and on whose authority (`SlotStep`: leave it, grant, return, end, recharge) is proved action by
  action; the four theorems follow from it with no action in sight. The inductive `LeaseInv` says of every record that
  its lease was granted in this very slot, and against the cooldown it has now if the generations agree
  (`HeldByRequest`, `HeldByClaim`), that an identifier which left a lease behind is not used again, that no lease is of
  a pass to come, and that the time the pace is counted from is never before the last grant (`PacedFrom`): without it
  a record that was rewritten could be probed again at once.

**Rotation** (`RotationRing_proofs`, `PoolRotation_proofs`).

- Operator lemmas, shared with routing: the choice of `smoothWeightedIndex` is one of its list and none beats it
  (`ForemostIsBest`), draws, notes, seeds and reconciliations keep a ring well formed (`AfterPickType`, `NoteSuccessType`,
  `ReconcileType`, …), and `TierIsServed`: what `selectPriorityTier` returns for every list, priority, headroom and pin.
- `RingTypeCorrect`, `CountIsTheRun` (`RunInStep`), `StickyRunsEnd` (`RunsEnd`): the count of a
  ring equals the length of the run of its active account and stays below the limit; a run ends with the ring released.
- `SharesAreEven` (`EvenShare`): in a round among n accounts of which k have had their turn, everybody has k credits, less
  n for those who had it (`Round`); so the next draw goes to one that had none, and after n turns all credits are 0.
- `EverybodyHasATurn` (`NobodyStarves`), for two accounts or more: who stays eligible waits for at most 2n - 3 draws, plus
  two for every removal. A bound for single accounts is not inductive. The invariant bounds the credits of *every set*
  of j accounts by j(n - j) on either side, plus j for every removal (`Level`). A draw adds to a set what its eligible
  members get and takes n' from the winner, n' being how many are eligible. A set without the winner that rises has room: were it at its bound, the set
  with the winner, who has more than each of the eligible members, would be beyond its own (`RisesBelow`, and
  `FallsAbove` for a set with the winner). Since a winner may also have just as many credits and an earlier place, credits are scaled
  and tilted by the order of the configuration (`Tilted`), which leaves the winner strictly ahead and sums to nothing;
  the bound is then strict, which is what makes it 2n - 3. Who waits collects a credit per draw, from no lower than
  the lowest a single account may have to no higher than the highest (`FairFor`). TLC has checked the bounds of all sets for three accounts.

**Routing** (`CodexRouting_proofs`).

- `RoutingImplementsHealth`: every step of the composed specification is a step of `CodexHealth`
  or a stutter. One lemma per group of actions; the mapping is the identity, since `CodexRouting` extends the state.
  `RoutingForgetsRemoved` is the consequence for the whole pool.
- `RoutingTypeCorrect`, `SelectionStaysSaved` (`SelectionIsSaved`), `ExcludedHasNoBinding` (`ExcludedIsUnbound`),
  `BindingsEndForCause` (`StickyUntilCause`), `RotationSavesNothing` (`RotationNeverPersists`), `PauseHolds`
  (`PausedGetsNoRequest`), `SparkIsContained` (`IndependentScopeIsContained`). The decisions are functions of the pool
  record, nested as in the code. Each part either steers (`Steers`: active account, pin, cursor, rings) or binds
  (`Binds`: affinity and ownership); what both keep composes along a resolution (`Onward`), and what an outcome or an
  exclusion does befalls one account (`Befalls`). From these every action is `Orderly`, and the properties follow. The invariant
  `RoutingInv` is `Routable` (types; a request in flight has a scope of the configuration; ranks without ties, the
  native login first; settings in range), `InSync` (the selection on disk is the one in force) and `Open` (every binding,
  in memory and on disk, is to an account that is configured and not paused). `StickyUntilCause` needs `Open`, since a resolution would
  drop a binding to an excluded account; `RotationNeverPersists` needs `InSync`, since a save would otherwise carry along an
  older difference.
- `PreviewTellsTheAccount` (`PreviewAgreesAtRest`): the preview, which the code writes as a second, read-only algorithm,
  gives the account that a resolution would choose in every state, by cases along both.

**Credentials** (`CredentialRefresh_proofs`), for any number of processes, accounts and callers.

- `RefreshTypeCorrect`, `GenerationsName`, `OneFlight`. `OneFlightPerGrant` needs that a flight which has not been aborted stands at its own place among the
  `flights` of its process (`HoldsItsPlace`), else a second one could take the place unseen.
  `GenerationNamesCredential` needs `Named`: what a flight or a caller was handed is never ahead of the record, and is
  its credential if it has its generation. It is what the fence of every save preserves, since a record that changes
  gets a higher generation.
- `CallsLeaveNothing` (`NothingLeftBehind`): every lock file and every place is that of a call which is still at a stage
  that gives it back, and who has joined waits for such a flight (`LocksHeld`, `PlacesHeld`, `JoinsFlight`).
- `NewerLoginsStay` (`NewerLoginStays`): there is one assignment of logins to grants (`Logins`) by which every
  record, answer and outcome carries the login its grant descends from, and a flight never holds one that is newer than the record's;
  so the save that matches a record cannot go back to an older login.

**Responses** (`ResponseState_proofs`), for any ids, sizes and limits.

- `StoreImplementsCache`: `Spec => ImplementsCache`. The invariant
  `CacheInv` says of rows, picture and snapshot alike that they hold no version beyond the one remembered last
  (`Remembered`), and that where a picture or the snapshot names a file, the row has not the same version still in
  memory (`Apart`): otherwise the file that is published for the row could bring back what the picture had lost. Then `Load`,
  `Expand`, `Sweep`, `BudgetEvict` and `Stable` forget, `Remember` remembers, `BeginWrite` and `Again` take, `Rename`
  saves, `Crash` restarts, and the rest stutters.
- `StoreTypeCorrect` (`TypeOK`), `SnapshotsKeepTheirFiles`, `StubsKeepTheirFiles` (`StubsHaveFiles`),
  `FilesAreRemembered` (`NoFileForgotten`). What a handler does to rows and files is a chain of small steps
  (admission, demotions, deletions, supersession, prune); the chain is followed by two relations, `Prunes` (memory is
  freed: files go with their rows, and come with stubs) and `Handles` (also a file that is replaced, which waits in the
  queue or is pushed out of it), which compose. `StoreInv` adds to `CacheInv` that rows and order fit (`Neat`), that
  the queue is within its length, and that what waits in it is older than what its id has now (`Behind`): without it a
  removal could take a file that is in use.
- `StoreStaysWithinCap` (`WithinCap`), `RestingMemoryIsSaved` (`AtRestMemoryIsSaved`), `FlushLeavesNothing`
  (`FlushSavesOrLeavesAWriter`), under the hypothesis `StubsAreSmall`: a stub or a tombstone is not larger than a response it may
  replace. The code does not guarantee it (section 6), so it is a hypothesis and no assumption of the module; with
  it, `CapInv` bounds rows, picture and snapshot alike, since each becomes the rows after a restart, and `MatchInv` says what a
  writer's picture and the snapshot are worth at every stage: what was read and nobody is going to read again is what there
  is, unless another write is due (`Due`).
- Sums and eviction loops are recursive functions over sets and sequences. `Keep` is one because the library's
  `SelectSeq` is opaque to the provers.

**Native login** (`NativeGate_proofs`).

- `SwitchExchangesLogins`: `FairGateSpec => ImplementsExchange`. The invariant `SwitchInv` relates
  the three files at every step of every plan (`FilesAgree`, `OpAgrees`): which phase the journal has, whose login
  `auth.json` holds and what the vault keeps of both sides; and says that copies only age (`CopiesAge`). `replace` and
  `restore` exchange, `Import` imports, `RefreshLogin` refreshes, signing in and out is `SignIn`, and every other write
  stutters: the abstract state sees the vault through the journal.
- `LoginUsedAlone` (`AloneWithTheLogin`), `GateTypeCorrect`: `GateInv` adds that an operation which
  writes is that of the startup or of a request that still holds its drain, begun when no turn counted (`Driven`,
  `Fenced`), and that what the startup finds to be recovered keeps the gate closed, so that nothing is claimed before
  it has been (`Closed`).

**Provider logins** (`OAuthRefresh_proofs`), for any number of processes, flights and credentials.

- `NeverSentTwice` (`NeverReplayed`), `AnswersYield` (`LateAnswersYield`), `OAuthTypeCorrect`.
  `Base` holds always; its part `Numbered` says that credentials
  are stored in the order of their numbers, so that an answer that still matches cannot belong to an older login, and
  `ReplacedIsStill` that a flight replaced before it had sent its grant never will. `Safe` holds until a flight loses
  its lock file: a grant that was sent is either no longer usable or its intent is there and names its flight
  (`Accounted`), the flights under the lock hold it (`HoldsLock`), and `Ready` is what they may rely on at each stage.
  That no grant is sent twice is not inductive without it: `Dispatch` needs that no sent grant is the one in its
  intent, which was found out when the intent of another flight was examined. Most steps do not touch what anybody
  relies on (`Ordinary`); the others belong to the holder of the lock, and then nobody else relies on anything (`Alone`).

**Only model-checked**: `EveryCallIsAnswered`, `EventuallySaved`, `DrainEnds`, `ShutdownEnds`. Liveness under fairness
and `ENABLED` are beyond the installed provers. So are the library's induction theorems, which take an operator as a
parameter; where a proof needs induction over data (sums of sizes and of credits, loops of evictions, a best member of a
list) it is done over a set of sets or numbers instead, by a least counterexample (`SubsetInduction`, `SubsetsGrow`,
`NatSets`). There is no RECURSIVE operator.

## 5. What the models leave out

- Of routing: eviction of affinities beyond 2048, the native-main fence, the batch that clears exhausted pauses,
  failures to write the ownership file (`codex/native-ownership.ts:41` swallows them), the debounce of the quota cache.
- Of refresh: error classes and messages, validation marks, hardening and parsing of files. Grants may be refreshed
  more than once by the model's endpoint; nothing checked relies on grants being spent.
- Of the Anthropic refresh: the adoption of Claude Code's own credential (`newerClaudeCredential`), corrupt intent files
  (which flag the account), the limit of 32 flights, forced refreshes after a 401, callers that join a flight, the
  outer retry after a stale flight, the providers whose locks have no intents, the token guardian. A change of the
  store is one step, as the lock of `auth.json` makes it.
- Of responses: payloads that cannot be measured, recovery of stale temporary files, the limits of the removal of
  orphans, removals that fail, damaged or oversized snapshots and envelopes, `responses/reasoning-replay-cache.ts`.
  `Sizes` are at least that of a stub: the code does not prune again when a stub is larger than what it replaces.
- Of the native login: invalid journals with their quarantine and block marker, staging directories and their leases
  (a sweep is safe or not), other homes and their owners, shared claims, Codex being started after the check for its
  process, the limit of 256 turns, claims of management work.
- Wording, logging, headers and bodies everywhere. Quota scores are numbers on either side of the threshold.
- The components with status `not_modelled` in `PROJECT.json`, with reasons there.

## 6. Where code and statements disagree

Met while modelling; no run is spent on these:

- The gate of the native login is opened over a journal that waits to be recovered, although
  `codex/native-profile-startup.ts:304` says that it closes "after a live transaction leaves recovery state behind" and
  `native-profile-api.ts:129` that it "remains fail closed". A sweep that fails replaces the reason `recovery-pending`,
  and the next one that succeeds opens the gate without asking for a journal (`native-profile-startup.ts:150-153`); the
  sweep that ends the startup opens it over a state that was probed before the sweep was awaited (`:189-192`). `FirstSweep` and `StageSweep` do this
  in the model; no login is lost by it.
- A refresh intent that was marked `staleOwner` answers every later refresh with an error that calls itself retryable
  (`oauth/index.ts:91-94`, `:671`), though no retry ends it: only a new login does, and the account is not flagged for
  one (`tests/oauth-refresh.test.ts:386`: "stays retryable").
- A transient failure of a refresh keeps its intent, so that the next attempt flags the account for a new login, although
  `tests/oauth-refresh.test.ts:366` says that transient failures do not mark it. The grant may have been spent, so
  `NeverReplayed` needs this.
- Whether a flight was replaced is asked after its intent was written (`oauth/index.ts:694-695`): an intent of a flight
  that never sent its grant, found by another process or by the second flight that replaces it, flags the account.
- A lock of the store that cannot be had leaves a flight whose answer came with nothing stored: the intent stays, and
  the account is flagged with the next attempt.
- A lock file older than 120 s (a computer that slept), or one removed by its name between two looks of another
  process, can be taken from a running flight; then a grant may be sent twice, since the intent was read before. Hence
  the condition in `NeverReplayed`.
- A probe of an account-wide cooldown that is answered by a scoped 429 records its outcome and keeps the account's
  lease until the next interval, although `codex/routing.ts:1754` says that a failed probe concludes its lease
  (`routing.ts:1740`).
- The account of a retry is promoted after its token was awaited, also if it was paused meanwhile
  (`codex/routing.ts:1783` against `docs-site/.../configuration/providers.md:158`).
- Each caller that joined a refresh saves its result again, so the generation handed to the earlier ones is dead
  (`codex/account-store.ts:459` against `codex/routing.ts:544`); their requests are refused with 401 although the stored
  credential is the one they hold.
- The flush of a shutdown asks for the persist timer only after it has waited: a change whose timer fired during the
  wait is queued behind it and the flush returns (`responses/state.ts:706` against `:703-705`). Hence
  `FlushSavesOrLeavesAWriter`.
- The file of a row that is deleted goes at once, also if the snapshot names it (`responses/state.ts`, `deleteEntry`): after a
  crash the row is back and its file is missing, which a request is told.
- Eviction by the memory budget may leave more in memory than its cap, although `responses/state.ts:284-286` says that
  the "hard-cap invariant must hold on EVERY mutation path": a stub carries a file name and a digest, so it can be
  larger than a short response, and the eviction does not prune after it has put one in (`:772-793`). With responses of
  size 1, stubs of 2 and a cap of 2, TLC finds it in four steps: load, remember two, evict. Hence the
  hypothesis `StubsAreSmall` of three theorems.
- An evicted row moves to the end of the order, so that eviction by count and the newest-first choice of the snapshot
  take it for the newest.
- A shutdown releases the leases of aborted turns whose handlers still run with the login they read; a switch that
  waits then sees nobody. That is why `AloneWithTheLogin` speaks of admitted turns.
- A lock file that has been created and not yet written counts as stale, and a stale one is removed by its name, so two
  processes can both hold the lock of a grant (`codex/account-store.ts:384-398`); the generation comparison keeps the
  store consistent. The holder also removes the file by name, whoever owns it by then.
- A grant that the upstream rotated is lost when the save meets a busy mutation lock, or at a crash or a timeout.
- A flight whose account was logged in again while it waited returns the new login's credential (`account-store.ts:483`),
  and a joined caller of a sibling account takes that over.
- Timeouts and network errors of a refresh mark the account for reauthentication, which the docs reserve for terminal
  failures.
- A client that disconnects while its probe is being sent leaves the lease until the next interval
  (`server/responses/core.ts:1961`).
- A further failure after the failure window rewrites the record without a soft avoid that is still running
  (`routing.ts:1805`).
- A pin or a priority that changes leaves the cursor above the pinned tier until the next draw (`routing.ts:1325`).
- A failing write of the ownership file is swallowed, so that a binding that was ended returns with a restart
  (`codex/native-ownership.ts:41`).
- Affinities beyond 2048 are evicted by last use, so that a bound thread loses its account for no cause
  (`routing.ts:902`); the model never has that many.
- The outcome of a request of the previous native login reaches the new one (`routing.ts:1602` against
  `account-lifecycle.ts:35`).
- `structure/` and the providers page differ on whether affinity survives a restart; the code persists the native
  login's. The dashboard guide says long threads may be rebound by usage; the code keeps healthy owners
  (`routing.ts:1523`).

## 7. Plan

Built: health, rotation, routing, refresh, responses, the native login and its gate, Anthropic refreshes. The twelve
runs are used; a new module takes the place of a run whose properties are proved (`refresh_flights`,
`oauth_intents` first). In order:

1. **StartLock** (`proxy-start-lock.ts`): at most one owner, delegation to the service.
2. **CodexTransition** (`codex-write-lock.ts`, `journal.ts`): after any crash the user's configuration is restored.
3. **StorageSlot** (the slot that whoever calls may release, `storage/storage-mutation-coordinator.ts:85`),
   **Convergence**, **ComboFailover**, **UpstreamAttempts**, the token guardian: small modules.
4. **Proofs** of what these modules add; of the modules there are, every safety property is proved. Left open there:
   the liveness properties, and a bound of the waiting for a ring that loses accounts without end.
