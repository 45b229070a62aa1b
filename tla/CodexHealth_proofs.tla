------------------------- MODULE CodexHealth_proofs --------------------------
(* Proofs about CodexHealth, for any accounts, requests, durations and bounds. *)
EXTENDS CodexHealth, TLAPS

-----------------------------------------------------------------------------
(* What the operators on a health record return.                             *)

\* A deleted record is a health record.
LEMMA AbsentType == Absent \in Health
BY DEF Absent, Health, Time, Never, Sources

\* Clearing failure evidence keeps the type.
LEMMA PreservedType ==
    ASSUME NEW h \in Health
    PROVE  Preserved(h) \in Health
BY DEF Preserved, Health, Time, Never

\* So do granting, releasing and lifting.
LEMMA RecordTypes ==
    ASSUME NEW h \in Health, NEW id \in LeaseIds, NEW t \in Nat, NEW g \in Nat,
           now \in Nat
    PROVE  /\ Leased(h, id) \in Health
           /\ Released(h, t) \in Health
           /\ Lifted(h, g, t) \in Health
           /\ Preserved(h) \in Health
           /\ ReleaseIfOwned(h, id) \in Health
<1>1. Leased(h, id) \in Health
  BY DEF Leased, Health, Time
<1>2. Released(h, t) \in Health
  BY DEF Released, Health, Time
<1>3. Lifted(h, g, t) \in Health
  BY DEF Lifted, Health, Time, Never, Sources
<1>4. Preserved(h) \in Health
  BY PreservedType
<1>5. ReleaseIfOwned(h, id) \in Health
  <2>1. Released(h, now) \in Health
    BY DEF Released, Health, Time
  <2>2. QED
    BY <2>1 DEF ReleaseIfOwned
<1>6. QED
  BY <1>1, <1>2, <1>3, <1>4, <1>5

\* A new cooldown is a health record.
LEMMA CooldownType ==
    ASSUME NEW h \in Health, NEW id \in LeaseIds, NEW delay \in Durations,
           NEW source \in Sources, now \in Nat
    PROVE  Cooldown(h, id, delay, source) \in Health
BY DEF Cooldown, Owns, Health, Time, Never, Durations

\* So is what a success leaves of one, account-wide or scoped.
LEMMA SuccessType ==
    ASSUME NEW h \in Health, NEW id \in LeaseIds, now \in Nat
    PROVE  /\ AfterSuccess(h, id) \in Health
           /\ ScopedAfterSuccess(h, id) \in Health
<1>1. ReleaseIfOwned(h, id) \in Health
  BY RecordTypes, 0 \in Nat
<1>2. Preserved(ReleaseIfOwned(h, id)) \in Health
  BY <1>1, RecordTypes, 0 \in Nat
<1>3. [ReleaseIfOwned(h, id) EXCEPT !.successes = h.successes + 1] \in Health
  BY <1>1 DEF Health
<1>4. QED
  BY <1>1, <1>2, <1>3, AbsentType DEF AfterSuccess, ScopedAfterSuccess

\* And what a transient failure makes of one.
LEMMA TransientType ==
    ASSUME NEW h \in Health, NEW id \in LeaseIds, now \in Nat
    PROVE  AfterTransient(h, id) \in Health
<1>1. Preserved(ReleaseIfOwned(h, id)) \in Health
  BY RecordTypes, 0 \in Nat
<1>2. Streak(h) \in Nat
  BY DEF Streak, Health
<1>3. Escalation(Streak(h)) \in Nat
  BY <1>2, HealthAssumption DEF Escalation, Durations
<1>4. Larger(h.softAvoidUntil, now + Escalation(Streak(h))) \in Time
  BY <1>3 DEF Larger, Health, Time, Never
<1>5. (IF ~FailoverReady(Streak(h)) THEN Never
       ELSE Larger(h.softAvoidUntil, now + Escalation(Streak(h)))) \in Time
  BY <1>4 DEF Time, Never
<1>6. now \in Time
  BY DEF Time
<1>7. QED
  BY <1>1, <1>2, <1>5, <1>6 DEF AfterTransient, Health
-----------------------------------------------------------------------------
(* Type correctness.                                                         *)

\* Nothing a step may leave alone can spoil a type: stated once for health.
LEMMA SlotType ==
    ASSUME TypeOK, NEW a \in Accounts, NEW s \in Slots
    PROVE  health[a][s] \in Health
BY DEF TypeOK

\* Writing one slot keeps the type of the health map.
LEMMA SetType ==
    ASSUME TypeOK, NEW a \in Accounts, NEW s \in Slots, NEW h \in Health,
           Set(a, s, h)
    PROVE  health' \in [Accounts -> [Slots -> Health]]
BY DEF TypeOK, Set

\* A request that records is over.
LEMMA RecordsType ==
    ASSUME TypeOK, NEW a \in Accounts, NEW H \in [Slots -> Health],
           health' = [health EXCEPT ![a] = H]
    PROVE  health' \in [Accounts -> [Slots -> Health]]
BY DEF TypeOK

\* A request names the lease it takes.
LEMMA RequestIsLease == ASSUME NEW r \in Requests PROVE r \in LeaseIds
BY DEF LeaseIds

\* Admission.
LEMMA AdmitType ==
    ASSUME TypeOK, NEW r \in Requests, NEW a \in Accounts, NEW scope \in ModelScopes,
           Admit(r, a, scope) \/ AdmitProbe(r, a, scope)
    PROVE  TypeOK'
<1>1. CASE Admit(r, a, scope)
  BY <1>1, HealthAssumption
  DEF TypeOK, Admit, Admitted, healthVars, accountVars, generationVars, Scopes, Slots
<1>2. CASE AdmitProbe(r, a, scope)
  <2> DEFINE slot == CoolingSlot(a, scope)
  <2>1. slot \in Slots
    BY <1>2, HealthAssumption DEF AdmitProbe, CoolingSlot, Scopes, Slots
  <2>2. Leased(health[a][slot], r) \in Health
    BY <2>1, SlotType, RecordTypes, RequestIsLease, 0 \in Nat DEF TypeOK
  <2>3. health' \in [Accounts -> [Slots -> Health]]
    BY <1>2, <2>1, <2>2, SetType DEF AdmitProbe
  <2>4. lastGrant' \in [Accounts -> [Slots -> Time]]
    BY <1>2, <2>1 DEF AdmitProbe, TypeOK, Time
  <2>5. written[a][slot] \in Nat
    BY <2>1 DEF TypeOK
  <2>6. /\ request' \in [Requests ->
              [state : {"idle", "auth", "sent", "done", "abandoned"},
               account : Accounts \cup {"none"}, scope : Scopes \cup {"none"},
               slot : Slots \cup {"none"}, writerGeneration : Nat,
               identity : Nat, write : Nat]]
        /\ \A q \in Requests :
              request'[q].state \in {"auth", "sent"} => request'[q].account \in Accounts
    BY <1>2, <2>1, <2>5, HealthAssumption DEF AdmitProbe, Admitted, TypeOK, Scopes
  <2>7. QED
    BY <1>2, <2>3, <2>4, <2>6 DEF AdmitProbe, TypeOK, accountVars, generationVars
<1>3. QED
  BY <1>1, <1>2

RequestRecord ==
    [state : {"idle", "auth", "sent", "done", "abandoned"},
     account : Accounts \cup {"none"}, scope : Scopes \cup {"none"},
     slot : Slots \cup {"none"}, writerGeneration : Nat,
     identity : Nat, write : Nat]

InFlight(r) == request[r].state \in {"auth", "sent"}

RequestsOK ==
    /\ request \in [Requests -> RequestRecord]
    /\ \A r \in Requests : InFlight(r) => request[r].account \in Accounts

\* A request that is concluded or given up is typed like any other.
LEMMA DoneType ==
    ASSUME TypeOK, NEW r \in Requests,
           Done(r) \/ (\E state \in {"abandoned", "idle"} :
                         request' = [request EXCEPT ![r] = Resting(state)])
                   \/ (request' = [request EXCEPT ![r].state = "sent"] /\ InFlight(r))
    PROVE  RequestsOK'
<1>0. RequestsOK
  BY DEF TypeOK, RequestsOK, RequestRecord, InFlight
<1>1. \A state \in {"done", "abandoned", "idle"} : Resting(state) \in RequestRecord
  BY DEF Resting, RequestRecord
<1>2. CASE Done(r)
  BY <1>0, <1>1, <1>2 DEF Done, RequestsOK, InFlight, Resting
<1>3. CASE \E state \in {"abandoned", "idle"} :
             request' = [request EXCEPT ![r] = Resting(state)]
  BY <1>0, <1>1, <1>3 DEF RequestsOK, InFlight, Resting
<1>4. CASE request' = [request EXCEPT ![r].state = "sent"] /\ InFlight(r)
  BY <1>0, <1>4 DEF RequestsOK, InFlight, RequestRecord
<1>5. QED
  BY <1>2, <1>3, <1>4

\* Handing a lease back.
LEMMA ReleaseLeaseType ==
    ASSUME TypeOK, NEW r \in Requests, InFlight(r), ReleaseLease(r)
    PROVE  health' \in [Accounts -> [Slots -> Health]]
<1> DEFINE a == request[r].account
           slot == request[r].slot
<1>1. CASE slot = "none"
  BY <1>1 DEF ReleaseLease, TypeOK
<1>2. CASE slot # "none"
  <2>1. a \in Accounts /\ slot \in Slots
    BY <1>2 DEF TypeOK, InFlight
  <2>2. ReleaseIfOwned(health[a][slot], r) \in Health
    BY <2>1, SlotType, RecordTypes, RequestIsLease, 0 \in Nat DEF TypeOK
  <2>3. QED
    BY <1>2, <2>1, <2>2, SetType DEF ReleaseLease
<1>3. QED
  BY <1>1, <1>2

\* The token stage, and requests that leave no outcome.
LEMMA TokenType ==
    ASSUME TypeOK, NEW r \in Requests, NEW fatal \in BOOLEAN,
           NEW checked \in BOOLEAN,
           \/ TokenReady(r, checked) \/ TokenRejected(r) \/ TokenFailed(r, fatal)
           \/ Abandon(r) \/ Recycle(r) \/ Dropped(r)
    PROVE  TypeOK'
<1>1. CASE TokenReady(r, checked)
  <2>1. RequestsOK'
    BY <1>1, DoneType DEF TokenReady, InFlight
  <2>2. QED
    BY <1>1, <2>1 DEF TokenReady, TypeOK, RequestsOK, RequestRecord, InFlight,
                      healthVars, accountVars, generationVars
<1>2. CASE TokenRejected(r)
  <2>1. RequestsOK' /\ health' \in [Accounts -> [Slots -> Health]]
    BY <1>2, DoneType, ReleaseLeaseType DEF TokenRejected, InFlight
  <2>2. QED
    BY <1>2, <2>1 DEF TokenRejected, TypeOK, RequestsOK, RequestRecord, InFlight,
                      accountVars, generationVars
<1>3. CASE TokenFailed(r, fatal)
  <2>1. RequestsOK' /\ health' \in [Accounts -> [Slots -> Health]]
    BY <1>3, DoneType, ReleaseLeaseType DEF TokenFailed, InFlight
  <2>2. needsReauth' \subseteq Accounts
    BY <1>3 DEF TokenFailed, TypeOK
  <2>3. QED
    BY <1>3, <2>1, <2>2 DEF TokenFailed, TypeOK, RequestsOK, RequestRecord, InFlight,
                            generationVars
<1>4. CASE Abandon(r)
  <2>1. RequestsOK'
    BY <1>4, DoneType DEF Abandon
  <2>2. QED
    BY <1>4, <2>1 DEF Abandon, TypeOK, RequestsOK, RequestRecord, InFlight,
                      healthVars, accountVars, generationVars
<1>5. CASE Recycle(r)
  <2>1. RequestsOK'
    BY <1>5, DoneType DEF Recycle
  <2>2. QED
    BY <1>5, <2>1 DEF Recycle, TypeOK, RequestsOK, RequestRecord, InFlight,
                      healthVars, accountVars, generationVars
<1>6. CASE Dropped(r)
  <2>1. RequestsOK'
    BY <1>6, DoneType DEF Dropped
  <2>2. QED
    BY <1>6, <2>1 DEF Dropped, TypeOK, RequestsOK, RequestRecord, InFlight,
                      healthVars, accountVars, generationVars
<1>7. QED
  BY <1>1, <1>2, <1>3, <1>4, <1>5, <1>6

\* The four outcomes that write no cooldown.
LEMMA OutcomeType ==
    ASSUME TypeOK, NEW r \in Requests,
           Success(r) \/ Neutral(r) \/ Credential(r) \/ Transient(r)
    PROVE  TypeOK'
<1> DEFINE a == request[r].account
           H == health[a]
<1>1. a \in Accounts /\ RequestsOK' /\ H \in [Slots -> Health] /\ r \in LeaseIds
  BY DoneType, RequestIsLease
  DEF Success, Neutral, Credential, Transient, Records, TypeOK
<1>2. now \in Nat
  BY DEF TypeOK
<1>3. ScopedReleased(r) \in [Slots -> Health]
  BY <1>1, <1>2, RecordTypes, 0 \in Nat DEF ScopedReleased
<1>4. CASE Success(r)
  <2>1. [s \in Slots |->
           CASE s = "account" -> AfterSuccess(H[s], r)
             [] s # "account" /\ s = request[r].slot -> ScopedAfterSuccess(H[s], r)
             [] OTHER -> H[s]] \in [Slots -> Health]
    BY <1>1, <1>2, SuccessType
  <2>2. health' \in [Accounts -> [Slots -> Health]]
    BY <1>1, <1>4, <2>1, RecordsType DEF Success
  <2>3. QED
    BY <1>1, <1>4, <2>2 DEF Success, TypeOK, RequestsOK, RequestRecord, InFlight,
                            accountVars, generationVars
<1>5. CASE Neutral(r)
  <2>1. [ScopedReleased(r) EXCEPT !["account"] = ReleaseIfOwned(@, r)]
          \in [Slots -> Health]
    BY <1>1, <1>2, <1>3, RecordTypes, 0 \in Nat DEF Slots
  <2>2. health' \in [Accounts -> [Slots -> Health]]
    BY <1>1, <1>5, <2>1, RecordsType DEF Neutral
  <2>3. QED
    BY <1>1, <1>5, <2>2 DEF Neutral, TypeOK, RequestsOK, RequestRecord, InFlight,
                            accountVars, generationVars
<1>6. CASE Credential(r)
  <2>1. [Absent EXCEPT !.failures = 1, !.lastFailureAt = now] \in Health
    BY <1>2, AbsentType DEF Health, Time
  <2>2. [s \in Slots |->
           IF s = "account" THEN [Absent EXCEPT !.failures = 1, !.lastFailureAt = now]
           ELSE Absent] \in [Slots -> Health]
    BY <2>1, AbsentType
  <2>3. health' \in [Accounts -> [Slots -> Health]]
    BY <1>1, <1>6, <2>2, RecordsType DEF Credential
  <2>4. needsReauth' \subseteq Accounts
    BY <1>1, <1>6 DEF Credential, TypeOK
  <2>5. QED
    BY <1>1, <1>6, <2>3, <2>4 DEF Credential, TypeOK, RequestsOK, RequestRecord,
                                  InFlight, generationVars
<1>7. CASE Transient(r)
  <2>1. [ScopedReleased(r) EXCEPT !["account"] = AfterTransient(@, r)]
          \in [Slots -> Health]
    BY <1>1, <1>2, <1>3, TransientType DEF Slots
  <2>2. health' \in [Accounts -> [Slots -> Health]]
    BY <1>1, <1>7, <2>1, RecordsType DEF Transient
  <2>3. QED
    BY <1>1, <1>7, <2>2 DEF Transient, TypeOK, RequestsOK, RequestRecord, InFlight,
                            accountVars, generationVars
<1>8. QED
  BY <1>4, <1>5, <1>6, <1>7

\* A cooldown.
LEMMA QuotaType ==
    ASSUME TypeOK, NEW r \in Requests, NEW q \in QuotaHints(r), Quota(r, q[1], q[2])
    PROVE  TypeOK'
<1> DEFINE a == request[r].account
           slot == QuotaSlot(r, q[1])
           H == IF slot = "account" THEN ScopedReleased(r) ELSE health[a]
<1>1. a \in Accounts /\ RequestsOK' /\ health[a] \in [Slots -> Health] /\ r \in LeaseIds
  BY DoneType, RequestIsLease DEF Quota, Records, TypeOK
<1>2. now \in Nat
  BY DEF TypeOK
<1>3. q[1] \in Sources /\ q[2] \in Durations
  BY HealthAssumption DEF QuotaHints, Sources
<1>4. slot \in Slots
  BY <1>1 DEF QuotaSlot, Slots, TypeOK, Scopes
<1>5. H \in [Slots -> Health]
  BY <1>1, <1>2, RecordTypes, 0 \in Nat DEF ScopedReleased
<1>6. [H EXCEPT ![slot] = Cooldown(@, r, q[2], q[1])] \in [Slots -> Health]
  BY <1>1, <1>2, <1>3, <1>4, <1>5, CooldownType
<1>7. health' \in [Accounts -> [Slots -> Health]]
  BY <1>1, <1>6, RecordsType DEF Quota
<1>8. written' \in [Accounts -> [Slots -> Nat]]
  BY <1>1, <1>4 DEF Quota, TypeOK
<1>9. QED
  BY <1>1, <1>7, <1>8 DEF Quota, TypeOK, RequestsOK, RequestRecord, InFlight,
                          accountVars, generationVars

\* The recovery worker.
LEMMA OldestIsDue ==
    ASSUME TypeOK, NEW a \in Claimable
    PROVE  Oldest(a) \in Due(a) /\ Oldest(a) \in Slots
<1> DEFINE origin(s) == ProbeOrigin(health[a][s])
<1>1. a \in Accounts /\ Due(a) # {} /\ Due(a) \subseteq {"account", "shared"}
  BY DEF Claimable, Due, PoolAccounts
<1>2. \A s \in Due(a) : origin(s) \in Int
  BY <1>1 DEF TypeOK, Slots, Scopes, Health, Time, Never, ProbeOrigin
<1>3. \E s \in Due(a) : \A t \in Due(a) :
         \/ origin(s) < origin(t)
         \/ origin(s) = origin(t) /\ (s = "account" \/ s = t)
  <2> HIDE DEF origin
  <2>1. CASE Due(a) = {"account", "shared"}
    <3>1. CASE origin("account") <= origin("shared")
      BY <1>2, <2>1, <3>1
    <3>2. CASE origin("shared") < origin("account")
      BY <1>2, <2>1, <3>2
    <3>3. QED
      BY <1>2, <2>1, <3>1, <3>2
  <2>2. CASE \E s : Due(a) = {s}
    BY <2>2
  <2>3. QED
    BY <1>1, <2>1, <2>2
<1>4. Oldest(a) \in Due(a)
  BY <1>3 DEF Oldest
<1>5. QED
  BY <1>1, <1>4 DEF Slots, Scopes

\* The recovery worker keeps the types.
LEMMA WorkerType ==
    ASSUME TypeOK, WorkerNext
    PROVE  TypeOK'
<1>1. ASSUME NEW batch \in SUBSET Accounts, NEW excluded \in SUBSET Accounts,
             ClaimRecoveryProbes(batch, excluded)
      PROVE  TypeOK'
  <2>1. batch \subseteq Claimable /\ pass' \in Nat
    BY <1>1 DEF ClaimRecoveryProbes, TypeOK
  <2>2. ASSUME NEW a \in batch PROVE Oldest(a) \in Slots
    BY <2>1, OldestIsDue
  <2>9. ASSUME NEW a \in batch PROVE <<a, pass'>> \in LeaseIds
    BY <2>1 DEF LeaseIds
  <2>3. \A a \in batch, s \in Slots : Leased(health[a][s], <<a, pass'>>) \in Health
    <3>1. SUFFICES ASSUME NEW a \in batch, NEW s \in Slots
                   PROVE  Leased(health[a][s], <<a, pass'>>) \in Health
      OBVIOUS
    <3>2. health[a][s] \in Health /\ now \in Nat
      BY DEF TypeOK
    <3>3. QED
      BY <2>9, <3>2, RecordTypes, 0 \in Nat
  <2>4. health' \in [Accounts -> [Slots -> Health]]
    BY <1>1, <2>3 DEF ClaimRecoveryProbes, TypeOK
  <2>5. lastGrant' \in [Accounts -> [Slots -> Time]]
    BY <1>1 DEF ClaimRecoveryProbes, TypeOK, Time
  <2>6. \A a \in batch : /\ health[a][Oldest(a)].generation \in Nat
                         /\ written[a][Oldest(a)] \in Nat
    BY <2>2 DEF TypeOK, Health
  <2>7. claim' \in [Accounts ->
           [running : BOOLEAN, slot : Slots, generation : Nat,
            credential : Nat, lineage : Nat, at : Nat, write : Nat]]
    BY <1>1, <2>2, <2>6 DEF ClaimRecoveryProbes, TypeOK
  <2>8. QED
    BY <1>1, <2>1, <2>4, <2>5, <2>7 DEF ClaimRecoveryProbes, TypeOK, accountVars, generationVars
<1>2. ASSUME NEW a \in Accounts, NEW recovered \in BOOLEAN,
             NEW proof \in claim[a].credential .. credential[a].generation,
             Settle(a, recovered, proof)
      PROVE  TypeOK'
  <2> DEFINE slot == claim[a].slot
             h == health[a][slot]
  <2>1. slot \in Slots /\ h \in Health /\ now \in Nat /\ claim[a].at \in Nat
          /\ claim[a].generation + 1 \in Nat
    BY DEF TypeOK
  <2>2. /\ Released(h, claim[a].at) \in Health
        /\ Lifted(h, claim[a].generation + 1, claim[a].at) \in Health
    <3> HIDE DEF h
    <3>1. <<a, 0>> \in LeaseIds
      BY 0 \in Nat DEF LeaseIds
    <3>2. QED
      BY <2>1, <3>1, RecordTypes
  <2>3. health' \in [Accounts -> [Slots -> Health]]
    <3>1. UNCHANGED health \/ \E g \in Health : Set(a, slot, g)
      BY <1>2, <2>2, AbsentType DEF Settle
    <3>2. QED
      BY <2>1, <3>1, SetType DEF TypeOK
  <2>4. claim' \in [Accounts ->
           [running : BOOLEAN, slot : Slots, generation : Nat,
            credential : Nat, lineage : Nat, at : Nat, write : Nat]]
    BY <1>2 DEF Settle, TypeOK
  <2>5. QED
    BY <1>2, <2>3, <2>4 DEF Settle, TypeOK, accountVars, generationVars
<1>3. QED
  BY <1>1, <1>2 DEF WorkerNext

\* The operator and the configuration.
LEMMA ForgetType ==
    ASSUME TypeOK, NEW ids, health' = ForgetHealth(ids)
    PROVE  health' \in [Accounts -> [Slots -> Health]]
BY AbsentType DEF ForgetHealth, TypeOK

\* What the configuration does to a stored credential is a credential.
LEMMA CredentialType ==
    ASSUME TypeOK, NEW a \in Accounts,
           \/ credential' = [credential EXCEPT ![a].generation = @ + 1]
           \/ credential' = [credential EXCEPT
                ![a] = [generation |-> @.generation + 1, lineage |-> @.lineage,
                        live |-> FALSE]]
           \/ credential' = [credential EXCEPT
                ![a] = [generation |-> @.generation + 1, lineage |-> @.lineage + 1,
                        live |-> TRUE]]
    PROVE  credential' \in [Accounts -> [generation : Nat, lineage : Nat, live : BOOLEAN]]
<1> DEFINE R == [generation : Nat, lineage : Nat, live : BOOLEAN]
<1>1. credential \in [Accounts -> R]
  BY DEF TypeOK
<1>2. CASE credential' = [credential EXCEPT ![a].generation = @ + 1]
  BY <1>1, <1>2
<1>3. CASE credential' = [credential EXCEPT
                ![a] = [generation |-> @.generation + 1, lineage |-> @.lineage,
                        live |-> FALSE]]
  BY <1>1, <1>3
<1>4. CASE credential' = [credential EXCEPT
             ![a] = [generation |-> @.generation + 1, lineage |-> @.lineage + 1,
                     live |-> TRUE]]
  BY <1>1, <1>4
<1>5. QED
  BY <1>2, <1>3, <1>4

GenerationsOK ==
    /\ attemptSequence \in Nat /\ configGeneration \in Nat
    /\ lastReconciled \in Nat /\ liveIds \subseteq Accounts

\* A reconciliation keeps the types of the generations.
LEMMA ReconciledType ==
    ASSUME TypeOK, NEW ok \in BOOLEAN,
           \/ Reconciled(configured', ok) /\ configured' \subseteq Accounts
           \/ Reconciled(configured, ok)
    PROVE  GenerationsOK'
BY DEF TypeOK, Reconciled, GenerationsOK

\* The operator keeps the types.
LEMMA OperatorType ==
    ASSUME TypeOK, OperatorNext
    PROVE  TypeOK'
<1>0. now \in Nat /\ \A a \in Accounts : health[a] \in [Slots -> Health]
  BY DEF TypeOK
<1>1. ASSUME NEW a \in Accounts, ClearCooldown(a) PROVE TypeOK'
  <2>1. \A s \in Slots : Lifted(health[a][s], health[a][s].generation + 1, now) \in Health
    <3>1. <<a, 0>> \in LeaseIds
      BY 0 \in Nat DEF LeaseIds
    <3>2. ASSUME NEW s \in Slots
          PROVE  health[a][s] \in Health /\ health[a][s].generation + 1 \in Nat
      BY <1>0 DEF Health
    <3>3. QED
      BY <1>0, <3>1, <3>2, RecordTypes
  <2>2. [s \in Slots |->
           IF Cooled(health[a][s])
           THEN Lifted(health[a][s], health[a][s].generation + 1, now)
           ELSE health[a][s]] \in [Slots -> Health]
    BY <1>0, <2>1
  <2>3. health' \in [Accounts -> [Slots -> Health]]
    BY <1>1, <2>2, RecordsType DEF ClearCooldown
  <2>4. QED
    BY <1>1, <2>3 DEF ClearCooldown, TypeOK, accountVars, generationVars
<1>2. ASSUME NEW a \in Accounts, SelectManually(a) PROVE TypeOK'
  <2>0. health[a]["account"] \in Health
    BY <1>0 DEF Slots
  <2>1. Preserved(health[a]["account"]) \in Health
    BY <2>0, PreservedType
  <2>2. health' \in [Accounts -> [Slots -> Health]]
    BY <1>2, <2>1, SetType DEF SelectManually, Slots
  <2>3. QED
    BY <1>2, <2>2 DEF SelectManually, TypeOK, accountVars, generationVars
<1>3. ASSUME NEW a \in Accounts, RefreshCredential(a) \/ Reauthenticate(a)
      PROVE  TypeOK'
  <2>1. credential' \in [Accounts -> [generation : Nat, lineage : Nat, live : BOOLEAN]]
    BY <1>3, CredentialType DEF RefreshCredential, Reauthenticate
  <2>2. QED
    BY <1>3, <2>1 DEF RefreshCredential, Reauthenticate, TypeOK, healthVars, generationVars
<1>4. ASSUME NEW a \in Accounts, NEW ok \in BOOLEAN, RemoveAccount(a, ok)
      PROVE  TypeOK'
  <2>1. health' \in [Accounts -> [Slots -> Health]]
    BY <1>4, ForgetType DEF RemoveAccount
  <2>2. credential' \in [Accounts -> [generation : Nat, lineage : Nat, live : BOOLEAN]]
    BY <1>4, CredentialType DEF RemoveAccount
  <2>3. configured' \subseteq Accounts /\ needsReauth' \subseteq Accounts
    BY <1>4 DEF RemoveAccount, TypeOK
  <2>4. GenerationsOK'
    BY <1>4, <2>3, ReconciledType DEF RemoveAccount
  <2>5. QED
    BY <1>4, <2>1, <2>2, <2>3, <2>4 DEF RemoveAccount, TypeOK, GenerationsOK
<1>5. ASSUME NEW a \in Accounts, NEW ok \in BOOLEAN, AddAccount(a, ok)
      PROVE  TypeOK'
  <2>1. health' \in [Accounts -> [Slots -> Health]]
    BY <1>5, ForgetType DEF AddAccount
  <2>2. credential' \in [Accounts -> [generation : Nat, lineage : Nat, live : BOOLEAN]]
    BY <1>5, CredentialType DEF AddAccount
  <2>3. identity' \in [Accounts -> Nat]
    BY <1>5 DEF AddAccount, TypeOK
  <2>4. configured' \subseteq Accounts /\ needsReauth' \subseteq Accounts
    BY <1>5 DEF AddAccount, TypeOK
  <2>5. GenerationsOK'
    BY <1>5, <2>4, ReconciledType DEF AddAccount
  <2>6. QED
    BY <1>5, <2>1, <2>2, <2>3, <2>4, <2>5 DEF AddAccount, TypeOK, GenerationsOK
<1>6. ASSUME NEW ok \in BOOLEAN, Reconcile(ok) PROVE TypeOK'
  <2>1. health' \in [Accounts -> [Slots -> Health]]
    BY <1>6, ForgetType DEF Reconcile
  <2>2. QED
    BY <1>6, <2>1, ReconciledType DEF Reconcile, TypeOK, GenerationsOK
<1>7. CASE SwitchMainIdentity
  <2>1. [s \in Slots |-> Absent] \in [Slots -> Health]
    BY AbsentType
  <2>2. health' \in [Accounts -> [Slots -> Health]]
    BY <1>7, <2>1, RecordsType DEF SwitchMainIdentity
  <2>3. QED
    BY <1>7, <2>2 DEF SwitchMainIdentity, TypeOK, generationVars
<1>8. QED
  BY <1>1, <1>2, <1>3, <1>4, <1>5, <1>6, <1>7 DEF OperatorNext

LEMMA TypeInit == Init => TypeOK
BY AbsentType DEF Init, TypeOK, Resting, Time, Never, Slots

LEMMA TypeStep == TypeOK /\ [Next]_vars => TypeOK'
<1> SUFFICES ASSUME TypeOK, [Next]_vars PROVE TypeOK'
  OBVIOUS
<1>1. ASSUME NEW r \in Requests, RequestNext(r) PROVE TypeOK'
  <2>1. ASSUME NEW a \in Accounts, NEW scope \in ModelScopes,
               Admit(r, a, scope) \/ AdmitProbe(r, a, scope)
        PROVE  TypeOK'
    BY <2>1, AdmitType
  <2>2. CASE \/ \E checked \in BOOLEAN : TokenReady(r, checked)
             \/ TokenRejected(r) \/ Abandon(r) \/ Recycle(r) \/ Dropped(r)
             \/ \E fatal \in BOOLEAN : TokenFailed(r, fatal)
    BY <2>2, TokenType
  <2>3. CASE Success(r) \/ Neutral(r) \/ Credential(r) \/ Transient(r)
    BY <2>3, OutcomeType
  <2>4. CASE \E q \in QuotaHints(r) : Quota(r, q[1], q[2])
    BY <2>4, QuotaType
  <2>5. QED
    BY <1>1, <2>1, <2>2, <2>3, <2>4 DEF RequestNext
<1>2. CASE Tick
  BY <1>2 DEF Tick, TypeOK, healthVars, accountVars, generationVars
<1>3. CASE UNCHANGED vars
  BY <1>3 DEF vars, TypeOK, healthVars, accountVars, generationVars
<1>4. CASE Restart
  <2>1. health' \in [Accounts -> [Slots -> Health]]
    BY <1>4, AbsentType DEF Restart
  <2>2. RequestsOK'
    BY <1>4 DEF Restart, Resting, TypeOK, RequestsOK, RequestRecord, InFlight
  <2>3. claim' \in [Accounts ->
          [running : BOOLEAN, slot : Slots, generation : Nat,
           credential : Nat, lineage : Nat, at : Nat, write : Nat]]
    BY <1>4 DEF Restart, TypeOK
  <2>4. QED
    BY <1>4, <2>1, <2>2, <2>3 DEF Restart, TypeOK, RequestsOK, RequestRecord, InFlight
<1>5. QED
  BY <1>1, <1>2, <1>3, <1>4, WorkerType, OperatorType DEF Next

\* Every reachable state has the types of TypeOK: in particular every record of
\* the health map is a record, and every lease names a request or a claim.
THEOREM TypeCorrect == Spec => []TypeOK
BY TypeInit, TypeStep, PTL DEF Spec

-----------------------------------------------------------------------------
(* A removed account stays forgotten.                                        *)

\* Why the writer fence works: the stores' live set is the configuration, and a
\* request for an account outside it was admitted under an older generation.
FenceInv ==
    /\ liveIds = configured
    /\ lastReconciled = attemptSequence
    /\ configGeneration <= lastReconciled
    /\ \A r \in Requests :
         InFlight(r) =>
            /\ request[r].writerGeneration <= lastReconciled
            /\ request[r].account \notin configured => Fenced(r)

\* RemovedStaysForgotten alone is not inductive; with the fence it is.
RemovalInv == FenceInv /\ RemovedStaysForgotten

\* Nothing is removed at the start.
LEMMA RemovalInit == Init => RemovalInv
BY DEF Init, RemovalInv, FenceInv, RemovedStaysForgotten, Resting, InFlight

\* A request's step leaves the others alone, and itself unless it comes to rest.
Progress(q) ==
    InFlight(q)' =>
       /\ InFlight(q) /\ request'[q].account = request[q].account
       /\ request'[q].writerGeneration = request[q].writerGeneration

\* Whatever becomes of r, no request does anything but come to rest.
LEMMA ProgressKept ==
    ASSUME TypeOK, NEW r \in Requests,
           \/ Done(r)
           \/ \E state \in {"abandoned", "idle"} :
                request' = [request EXCEPT ![r] = Resting(state)]
           \/ InFlight(r) /\ request' = [request EXCEPT ![r].state = "sent"]
    PROVE  \A q \in Requests : Progress(q)
<1>1. CASE Done(r)
  BY <1>1 DEF Done, Resting, TypeOK, InFlight, Progress
<1>2. CASE \E state \in {"abandoned", "idle"} :
             request' = [request EXCEPT ![r] = Resting(state)]
  BY <1>2 DEF Resting, TypeOK, InFlight, Progress
<1>3. CASE InFlight(r) /\ request' = [request EXCEPT ![r].state = "sent"]
  BY <1>3 DEF TypeOK, InFlight, Progress
<1>4. QED
  BY <1>1, <1>2, <1>3

\* Steps that neither change the configuration nor admit a request keep the
\* fence: no request in flight changes its account or its generation.
LEMMA FenceKept ==
    ASSUME TypeOK, FenceInv,
           UNCHANGED <<configured, generationVars>>,
           \A r \in Requests : Progress(r)
    PROVE  FenceInv'
BY DEF FenceInv, Fenced, generationVars, Progress

\* A step that leaves the records of removed accounts alone keeps them empty.
LEMMA ForgottenKept ==
    ASSUME RemovedStaysForgotten, configured' = configured,
           \A a \in Accounts \ configured : a \notin needsReauth' \/ a \in needsReauth,
           \A a \in Accounts \ configured : health'[a] = health[a]
    PROVE  RemovedStaysForgotten'
BY DEF RemovedStaysForgotten

\* Releasing a lease that an absent record cannot hold changes nothing.
LEMMA ReleaseForgotten ==
    ASSUME TypeOK, RemovedStaysForgotten, NEW r \in Requests, InFlight(r), ReleaseLease(r)
    PROVE  \A a \in Accounts \ configured : health'[a] = health[a]
<1> DEFINE b == request[r].account
           slot == request[r].slot
<1>1. CASE slot = "none"
  BY <1>1 DEF ReleaseLease
<1>2. CASE slot # "none" /\ b \in configured
  BY <1>2 DEF ReleaseLease, Set, TypeOK
<1>3. CASE slot # "none" /\ b \notin configured
  <2>1. b \in Accounts /\ slot \in Slots
    BY <1>3 DEF TypeOK, InFlight
  <2>2. health[b][slot].lease = NoLease
    BY <1>3, <2>1 DEF RemovedStaysForgotten, Absent
  <2>3. ReleaseIfOwned(health[b][slot], r) = health[b][slot]
    BY <2>2, LeaseAssumption, RequestIsLease DEF ReleaseIfOwned, Owns
  <2>4. [health[b] EXCEPT ![slot] = health[b][slot]] = health[b]
    BY <2>1 DEF TypeOK
  <2>5. health'[b] = health[b]
    BY <1>3, <2>1, <2>3, <2>4 DEF ReleaseLease, Set, TypeOK
  <2>6. \A a \in Accounts : a # b => health'[a] = health[a]
    BY <1>3 DEF ReleaseLease, Set, TypeOK
  <2>7. QED
    BY <2>5, <2>6
<1>4. QED
  BY <1>1, <1>2, <1>3

\* A request, at whatever stage, leaves the forgotten accounts forgotten.
LEMMA RemovalRequest ==
    ASSUME TypeOK, RemovalInv, NEW r \in Requests, RequestNext(r)
    PROVE  RemovalInv'
<1> DEFINE b == request[r].account
<1>0. FenceInv /\ RemovedStaysForgotten
  BY DEF RemovalInv
<1>1. ASSUME NEW a \in Accounts, NEW scope \in ModelScopes,
             Admit(r, a, scope) \/ AdmitProbe(r, a, scope)
      PROVE  RemovalInv'
  <2>1. a \in configured /\ UNCHANGED <<accountVars, generationVars>>
    BY <1>1 DEF Admit, AdmitProbe
  <2>2. \E slot : Admitted(r, a, scope, slot)
    BY <1>1 DEF Admit, AdmitProbe
  <2>3. FenceInv'
    BY <1>0, <2>1, <2>2 DEF FenceInv, Fenced, Admitted, InFlight, TypeOK, RequestRecord,
                            accountVars, generationVars
  <2>4. \A c \in Accounts \ configured : health'[c] = health[c]
    BY <1>1, <2>1 DEF Admit, AdmitProbe, Set, TypeOK, healthVars
  <2>5. QED
    BY <1>0, <2>1, <2>3, <2>4, ForgottenKept DEF RemovalInv, accountVars
<1>2. CASE \/ \E checked \in BOOLEAN : TokenReady(r, checked)
           \/ TokenRejected(r) \/ Abandon(r) \/ Recycle(r) \/ Dropped(r)
           \/ \E fatal \in BOOLEAN : TokenFailed(r, fatal)
  <2>1. UNCHANGED <<configured, generationVars>>
    BY <1>2 DEF TokenReady, TokenRejected, TokenFailed, Abandon, Recycle, Dropped,
                accountVars, generationVars
  <2>2. FenceInv'
    <3>1. \A q \in Requests : Progress(q)
      BY <1>2, ProgressKept DEF TokenReady, TokenRejected, TokenFailed, Abandon, Recycle, Dropped,
                                InFlight
    <3>2. QED
      BY <1>0, <2>1, <3>1, FenceKept
  <2>3. \A a \in Accounts \ configured : health'[a] = health[a]
    BY <1>0, <1>2, ReleaseForgotten
    DEF TokenReady, TokenRejected, TokenFailed, Abandon, Recycle, Dropped, healthVars, InFlight
  <2>4. \A a \in Accounts \ configured : a \notin needsReauth' \/ a \in needsReauth
    BY <1>0, <1>2 DEF TokenReady, TokenRejected, TokenFailed, Abandon, Recycle, Dropped,
                      accountVars, FenceInv, InFlight
  <2>5. QED
    BY <1>0, <2>1, <2>2, <2>3, <2>4, ForgottenKept DEF RemovalInv
<1>3. CASE \/ Success(r) \/ Neutral(r) \/ Credential(r) \/ Transient(r)
           \/ \E q \in QuotaHints(r) : Quota(r, q[1], q[2])
  <2>1. UNCHANGED <<configured, generationVars>> /\ Records(r)
    BY <1>3 DEF Success, Neutral, Credential, Transient, Quota, accountVars, generationVars
  <2>2. b \in configured
    BY <1>0, <2>1 DEF FenceInv, Records, InFlight, TypeOK
  <2>3. FenceInv'
    <3>1. \A q \in Requests : Progress(q)
      BY <2>1, ProgressKept DEF Records
    <3>2. QED
      BY <1>0, <2>1, <3>1, FenceKept
  <2>4. \A a \in Accounts \ configured : health'[a] = health[a]
    BY <1>3, <2>2 DEF Success, Neutral, Credential, Transient, Quota, TypeOK
  <2>5. \A a \in Accounts \ configured : a \notin needsReauth' \/ a \in needsReauth
    BY <1>3, <2>2 DEF Success, Neutral, Credential, Transient, Quota, accountVars
  <2>6. QED
    BY <1>0, <2>1, <2>3, <2>4, <2>5, ForgottenKept DEF RemovalInv
<1>4. QED
  BY <1>1, <1>2, <1>3 DEF RequestNext

\* So does the worker, whose claims may have outlived their account.
LEMMA RemovalWorker ==
    ASSUME TypeOK, RemovalInv, WorkerNext
    PROVE  RemovalInv'
<1>0. FenceInv /\ RemovedStaysForgotten
  BY DEF RemovalInv
<1>1. UNCHANGED <<accountVars, generationVars, request>>
  BY DEF WorkerNext, ClaimRecoveryProbes, Settle
<1>2. FenceInv'
  BY <1>0, <1>1 DEF FenceInv, Fenced, InFlight, accountVars, generationVars
<1>3. ASSUME NEW batch \in SUBSET Accounts, NEW excluded \in SUBSET Accounts,
             ClaimRecoveryProbes(batch, excluded)
      PROVE  \A a \in Accounts \ configured : health'[a] = health[a]
  <2> SUFFICES ASSUME NEW a \in Accounts \ configured PROVE health'[a] = health[a]
    OBVIOUS
  <2>1. a \notin batch
    BY <1>3 DEF ClaimRecoveryProbes, Claimable, Usable
  <2>2. health'[a] = [s \in Slots |-> health[a][s]]
    BY <1>3, <2>1 DEF ClaimRecoveryProbes
  <2>3. QED
    BY <2>2 DEF TypeOK
<1>4. ASSUME NEW b \in Accounts, NEW recovered \in BOOLEAN,
             NEW proof \in claim[b].credential .. credential[b].generation,
             Settle(b, recovered, proof)
      PROVE  \A a \in Accounts \ configured : health'[a] = health[a]
  <2> DEFINE slot == claim[b].slot
  <2>1. slot \in Slots
    BY DEF TypeOK
  <2>2. CASE b \in configured
    <3>1. UNCHANGED health \/ \E g : Set(b, slot, g)
      BY <1>4 DEF Settle
    <3>2. QED
      BY <2>2, <3>1 DEF Set, TypeOK
  <2>3. CASE b \notin configured
    <3>1. health[b][slot].lease = NoLease
      BY <1>0, <2>1, <2>3 DEF RemovedStaysForgotten, Absent
    <3>2. <<b, pass>> \in LeaseIds
      BY DEF LeaseIds, TypeOK
    <3>3. ~Owns(health[b][slot], <<b, pass>>)
      BY <3>1, <3>2, LeaseAssumption DEF Owns
    <3>4. UNCHANGED health
      BY <1>4, <3>3 DEF Settle
    <3>5. QED
      BY <3>4
  <2>4. QED
    BY <2>2, <2>3
<1>5. \A a \in Accounts \ configured : health'[a] = health[a]
  BY <1>3, <1>4 DEF WorkerNext
<1>6. QED
  BY <1>0, <1>1, <1>2, <1>5, ForgottenKept DEF RemovalInv, accountVars

\* So do the operator and the configuration.
LEMMA RemovalOperator ==
    ASSUME TypeOK, RemovalInv, OperatorNext
    PROVE  RemovalInv'
<1>0. FenceInv /\ RemovedStaysForgotten
  BY DEF RemovalInv
<1>1. ASSUME NEW a \in Accounts,
             \/ ClearCooldown(a) \/ SelectManually(a)
             \/ RefreshCredential(a) \/ Reauthenticate(a) \/ SwitchMainIdentity
      PROVE  RemovalInv'
  <2>1. UNCHANGED <<configured, generationVars, request>>
    BY <1>1 DEF ClearCooldown, SelectManually, RefreshCredential, Reauthenticate,
                SwitchMainIdentity, accountVars, generationVars
  <2>2. FenceInv'
    BY <1>0, <2>1 DEF FenceInv, Fenced, InFlight, generationVars
  <2>3. needsReauth' \subseteq needsReauth
    BY <1>1 DEF ClearCooldown, SelectManually, RefreshCredential, Reauthenticate,
                SwitchMainIdentity, accountVars
  <2>4. \A b \in Accounts \ configured, s \in Slots : health'[b][s] = Absent
    <3> SUFFICES ASSUME NEW b \in Accounts \ configured, NEW s \in Slots
                 PROVE  health'[b][s] = Absent
      OBVIOUS
    <3>1. health[b][s] = Absent
      BY <1>0 DEF RemovedStaysForgotten
    <3>2. CASE ClearCooldown(a)
      <4>1. ~Cooled(health[b][s])
        BY <3>1 DEF Cooled, Absent, Never, TypeOK
      <4>2. QED
        BY <3>1, <3>2, <4>1 DEF ClearCooldown, TypeOK
    <3>3. CASE SelectManually(a)
      <4>1. Preserved(Absent) = Absent
        <5>1. /\ Absent.failures = 0 /\ Absent.successes = 0
              /\ Absent.lastFailureAt = Never /\ Absent.softAvoidUntil = Never
          BY DEF Absent
        <5>2. QED
          BY <5>1, AbsentType DEF Preserved, Health
      <4>2. QED
        BY <3>1, <3>3, <4>1 DEF SelectManually, Set, TypeOK, Slots
    <3>4. CASE RefreshCredential(a) \/ Reauthenticate(a)
      BY <3>1, <3>4 DEF RefreshCredential, Reauthenticate, healthVars
    <3>5. CASE SwitchMainIdentity
      BY <3>1, <3>5 DEF SwitchMainIdentity, TypeOK
    <3>6. QED
      BY <1>1, <3>2, <3>3, <3>4, <3>5
  <2>5. QED
    BY <1>0, <2>1, <2>2, <2>3, <2>4 DEF RemovalInv, RemovedStaysForgotten
<1>2. ASSUME NEW ok \in BOOLEAN,
             \/ Reconcile(ok)
             \/ \E a \in Accounts : RemoveAccount(a, ok) \/ AddAccount(a, ok)
      PROVE  RemovalInv'
  <2>1. /\ Reconciled(configured', ok)
        /\ health' = ForgetHealth(configured')
        /\ needsReauth' \subseteq configured'
        /\ UNCHANGED request
    BY <1>2 DEF Reconcile, RemoveAccount, AddAccount
  <2>2. FenceInv'
    BY <1>0, <2>1 DEF FenceInv, Fenced, InFlight, Reconciled, TypeOK, RequestRecord
  <2>3. RemovedStaysForgotten'
    BY <2>1 DEF RemovedStaysForgotten, ForgetHealth
  <2>4. QED
    BY <2>2, <2>3 DEF RemovalInv
<1>3. CASE SwitchMainIdentity
  <2>1. Main \in Accounts
    BY <1>3 DEF SwitchMainIdentity
  <2>2. QED
    BY <1>1, <1>3, <2>1
<1>4. QED
  BY <1>1, <1>2, <1>3 DEF OperatorNext

LEMMA RemovalStep == TypeOK /\ RemovalInv /\ [Next]_vars => RemovalInv'
<1> SUFFICES ASSUME TypeOK, RemovalInv, [Next]_vars PROVE RemovalInv'
  OBVIOUS
<1>1. CASE Tick \/ UNCHANGED vars
  BY <1>1 DEF Tick, vars, healthVars, accountVars, generationVars, RemovalInv,
              FenceInv, Fenced, InFlight, RemovedStaysForgotten
<1>2. CASE Restart
  <2>1. \A r \in Requests : ~InFlight(r)'
    BY <1>2 DEF Restart, Resting, InFlight
  <2>2. FenceInv'
    BY <1>2, <2>1 DEF Restart, RemovalInv, FenceInv, TypeOK
  <2>3. RemovedStaysForgotten'
    BY <1>2 DEF Restart, RemovedStaysForgotten
  <2>4. QED
    BY <2>2, <2>3 DEF RemovalInv
<1>3. QED
  BY <1>1, <1>2, RemovalRequest, RemovalWorker, RemovalOperator DEF Next

\* No outcome, lease, claim or failure of an in-flight request leaves anything
\* behind for an account that was deleted in the meantime.
THEOREM RemovalIsFinal == Spec => []RemovedStaysForgotten
<1>1. RemovalInv => RemovedStaysForgotten
  BY DEF RemovalInv
<1>2. QED
  BY <1>1, RemovalInit, RemovalStep, TypeCorrect, PTL DEF Spec

-----------------------------------------------------------------------------
(* Probe leases and cooldowns: who may end a cooldown, who may give a lease  *)
(* back, and how far apart probes are.  A record can be deleted and its      *)
(* generation restarted at any time, so none of this follows from the        *)
(* generations alone.                                                        *)
(*                                                                           *)
(* The argument has two halves.  SlotStep says, slot by slot, all that a     *)
(* step can do to a record and on whose authority; that every step of Next   *)
(* is one is proved action by action.  From it follow, with no action in     *)
(* sight, the inductive invariant LeaseInv and the action properties.        *)

\* A lease held by a request was granted to it in this very slot, and, while
\* the generations agree, against the cooldown the slot has now; one left behind
\* keeps the request's identifier from being used again.
HeldByRequest(a, s) ==
    LET h == health[a][s]
    IN  \A r \in Requests : h.lease = r =>
          /\ request[r].state # "idle"
          /\ InFlight(r) =>
               /\ request[r].account = a /\ request[r].slot = s
               /\ h.leaseGeneration = h.generation => request[r].write = written[a][s]

\* No lease is of a pass to come, and the lease of a running claim of this pass
\* is where the claim says it is; nothing was granted in that slot since.
HeldByClaim(a, s) ==
    LET h == health[a][s]
    IN  /\ \A b \in Accounts, n \in Nat : h.lease = <<b, n>> => n <= pass
        /\ (h.lease = <<a, pass>> /\ claim[a].running) =>
             /\ claim[a].slot = s
             /\ h.leaseGeneration = h.generation => claim[a].write = written[a][s]
             /\ lastGrant[a][s] <= claim[a].at

\* The origin a probe's pace is counted from is never before the last grant,
\* whatever became of the record in between.
PacedFrom(a, s) ==
    LET h == health[a][s]
    IN  /\ lastGrant[a][s] <= now
        /\ h.lastProbeAt # Never => lastGrant[a][s] <= h.lastProbeAt
        /\ (h.lastProbeAt = Never /\ h.until # Never) => lastGrant[a][s] <= h.since

SlotInv(a, s) ==
    /\ health[a][s].leaseGeneration <= health[a][s].generation
    /\ HeldByRequest(a, s)
    /\ HeldByClaim(a, s)
    /\ PacedFrom(a, s)

\* A credential of the generation a claim remembers is of its lineage.
ClaimInv(a) ==
    claim[a].running =>
        /\ claim[a].credential <= credential[a].generation
        /\ claim[a].credential = credential[a].generation
             => claim[a].lineage = credential[a].lineage

LeaseInv ==
    /\ \A a \in Accounts, s \in Slots : SlotInv(a, s)
    /\ \A a \in Accounts : ClaimInv(a)

-----------------------------------------------------------------------------
(* What a step may do to a slot.                                             *)

\* All that leases are judged by stays.
Kept(h, g) ==
    /\ g.lease = h.lease /\ g.leaseGeneration = h.leaseGeneration
    /\ g.generation = h.generation /\ g.lastProbeAt = h.lastProbeAt
    /\ g.until = h.until /\ g.since = h.since

\* The lease is taken back and the cooldown stays.
Freed(h, g, at) ==
    /\ g.lease = NoLease /\ g.leaseGeneration = 0
    /\ g.generation = h.generation /\ g.lastProbeAt = at
    /\ g.until = h.until /\ g.since = h.since

\* The lease goes with the cooldown, and takes the pace with it.
Gone(g) ==
    /\ g.lease = NoLease /\ g.leaseGeneration = 0
    /\ g.until = Never /\ g.lastProbeAt = Never

\* A new cooldown is put over the old one.
Recharges(h, g, id) ==
    /\ g.generation = h.generation + 1 /\ g.until > now /\ g.since = now
    /\ ~Owns(h, id) => /\ g.lease = h.lease /\ g.leaseGeneration = h.leaseGeneration
                       /\ g.lastProbeAt = h.lastProbeAt
    /\ Owns(h, id) => g.lease = NoLease /\ g.leaseGeneration = 0 /\ g.lastProbeAt = now

\* What every outcome but a success or a cooldown leaves of a record.
Handed(h, g, id) ==
    \/ Kept(h, g)
    \/ (Owns(h, id) /\ Freed(h, g, now))

\* What a success leaves of one.
Concluded(h, g, id) ==
    \/ Handed(h, g, id)
    \/ (Gone(g) /\ (Cooled(h) => MayClear(h, id)))

\* Handing a lease back gives it up only for its owner.
LEMMA ReleaseHands ==
    ASSUME NEW h \in Health, NEW id \in LeaseIds
    PROVE  Handed(h, ReleaseIfOwned(h, id), id)
<1>1. CASE Owns(h, id)
  BY <1>1 DEF ReleaseIfOwned, Released, Handed, Freed, Health
<1>2. CASE ~Owns(h, id)
  BY <1>2 DEF ReleaseIfOwned, Handed, Kept
<1>3. QED
  BY <1>1, <1>2

\* So does what a transient failure does besides.
LEMMA TransientHands ==
    ASSUME NEW h \in Health, NEW id \in LeaseIds, now \in Nat
    PROVE  Handed(h, AfterTransient(h, id), id)
<1> DEFINE base == ReleaseIfOwned(h, id)
<1>1. base \in Health
  BY RecordTypes, 0 \in Nat
<1>2. Handed(h, base, id)
  BY ReleaseHands
<1> HIDE DEF base
<1> DEFINE soft == IF ~FailoverReady(Streak(h)) THEN Never
                   ELSE Larger(h.softAvoidUntil, now + Escalation(Streak(h)))
           left(n, t, u) == [Preserved(base) EXCEPT !.failures = n, !.lastFailureAt = t,
                                                    !.softAvoidUntil = u]
<1>3. \A n, t, u : Handed(h, left(n, t, u), id)
  BY <1>1, <1>2 DEF Handed, Kept, Freed, Health, Preserved
<1>4. AfterTransient(h, id) = left(Streak(h), now, soft)
  BY Zenon DEF AfterTransient, base
<1> HIDE DEF left
<1>5. QED
  BY <1>3, <1>4

\* A success may drop the record, but while it is cooled only for an owner whose
\* lease is of the generation the record has.
LEMMA SuccessConcludes ==
    ASSUME NEW h \in Health, NEW id \in LeaseIds, now \in Nat
    PROVE  /\ Concluded(h, AfterSuccess(h, id), id)
           /\ Concluded(h, ScopedAfterSuccess(h, id), id)
<1> DEFINE base == ReleaseIfOwned(h, id)
<1>1. base \in Health
  BY RecordTypes, 0 \in Nat
<1>2. Handed(h, base, id)
  BY ReleaseHands
<1>3. Gone(Absent)
  BY DEF Gone, Absent
<1> HIDE DEF base
<1>4. \A n : Handed(h, [base EXCEPT !.successes = n], id)
  BY <1>1, <1>2 DEF Handed, Kept, Freed, Health
<1>5. Handed(h, Preserved(base), id)
  BY <1>1, <1>2 DEF Handed, Kept, Freed, Health, Preserved
<1>6. Concluded(h, AfterSuccess(h, id), id)
  BY <1>3, <1>4, <1>5 DEF AfterSuccess, Concluded, base
<1>7. Concluded(h, ScopedAfterSuccess(h, id), id)
  BY <1>2, <1>3 DEF ScopedAfterSuccess, Concluded, base
<1>8. QED
  BY <1>6, <1>7

\* A cooldown keeps the lease of whoever did not report it.
LEMMA CooldownCharges ==
    ASSUME NEW h \in Health, NEW id, NEW delay \in Durations, NEW source, now \in Nat
    PROVE  Recharges(h, Cooldown(h, id, delay, source), id)
BY DEF Recharges, Cooldown, Owns, Durations

-----------------------------------------------------------------------------
(* The steps of a slot, and that every step of the system is one.            *)

Untouched(a, s) ==
    /\ Kept(health[a][s], health'[a][s])
    /\ lastGrant'[a][s] = lastGrant[a][s]
    /\ written'[a][s] = written[a][s]

\* A probe is let through, and the request or claim that gets the lease knows
\* which slot and which of its cooldowns it is for.
Granted(a, s) ==
    LET h == health[a][s]
        g == health'[a][s]
    IN  /\ CanProbe(h) /\ lastGrant'[a][s] = now
        /\ g.generation = h.generation /\ g.leaseGeneration = h.generation
        /\ g.lastProbeAt = now /\ g.until = h.until /\ g.since = h.since
        /\ written'[a][s] = written[a][s]
        /\ \/ \E r \in Requests :
                /\ g.lease = r /\ request'[r].state # "idle"
                /\ request'[r].account = a /\ request'[r].slot = s
                /\ request'[r].write = written[a][s]
           \/ /\ g.lease = <<a, pass'>> /\ pass' = pass + 1
              /\ claim'[a].slot = s /\ claim'[a].write = written[a][s]
              /\ claim'[a].at = now

Returned(a, s) ==
    /\ \E at \in Nat : /\ lastGrant[a][s] <= at
                       /\ Freed(health[a][s], health'[a][s], at)
    /\ lastGrant'[a][s] = lastGrant[a][s]
    /\ HolderConcludes(a, s)

\* The cooldown is over, for one of the three reasons there are.
Ended(a, s) ==
    LET g == health'[a][s]
    IN  /\ g.lease = NoLease /\ g.leaseGeneration = 0 /\ g.until = Never
        /\ g.lastProbeAt = Never \/ lastGrant[a][s] <= g.lastProbeAt
        /\ lastGrant'[a][s] = lastGrant[a][s]
        /\ \/ ~Cooled(health[a][s])
           \/ Overruled(a)
           \/ (HolderConcludes(a, s) /\ HolderProves(a, s))

Recharged(a, s) ==
    /\ \E r \in Requests :
         /\ Recharges(health[a][s], health'[a][s], r)
         /\ Owns(health[a][s], r) => HolderConcludes(a, s)
    /\ lastGrant'[a][s] = lastGrant[a][s]

SlotStep(a, s) ==
    \/ Untouched(a, s)
    \/ (now' = now /\ (Granted(a, s) \/ Returned(a, s) \/ Ended(a, s) \/ Recharged(a, s)))

\* A record that is not written is left as it was.
LEMMA SameSlot ==
    ASSUME NEW a, NEW s, health'[a][s] = health[a][s],
           lastGrant'[a][s] = lastGrant[a][s], written'[a][s] = written[a][s]
    PROVE  SlotStep(a, s)
BY DEF SlotStep, Untouched, Kept

\* The owner of a lease that comes to rest concludes for it.
LEMMA OwnerConcludes ==
    ASSUME TypeOK, NEW r \in Requests, InFlight(r), Done(r), NEW a, NEW s,
           Owns(health[a][s], r)
    PROVE  HolderConcludes(a, s)
<1>1. request'[r].state = "done"
  BY DEF Done, Resting, TypeOK
<1>2. QED
  BY <1>1 DEF HolderConcludes, Owns, InFlight

\* An outcome that hands the record back is a step of its slot.
LEMMA HandedStep ==
    ASSUME TypeOK, LeaseInv, NEW r \in Requests, InFlight(r), Done(r),
           NEW a \in Accounts, NEW s \in Slots,
           Handed(health[a][s], health'[a][s], r), now' = now,
           written'[a][s] = written[a][s], lastGrant'[a][s] = lastGrant[a][s]
    PROVE  SlotStep(a, s)
<1>1. CASE Kept(health[a][s], health'[a][s])
  BY <1>1 DEF SlotStep, Untouched
<1>2. CASE Owns(health[a][s], r) /\ Freed(health[a][s], health'[a][s], now)
  <2>1. HolderConcludes(a, s)
    BY <1>2, OwnerConcludes
  <2>2. lastGrant[a][s] <= now /\ now \in Nat
    BY DEF LeaseInv, SlotInv, PacedFrom, TypeOK
  <2>3. QED
    BY <1>2, <2>1, <2>2 DEF SlotStep, Returned
<1>3. QED
  BY <1>1, <1>2 DEF Handed

\* Handing the lease back, when the token is not to be had.
LEMMA ReleaseStep ==
    ASSUME TypeOK, LeaseInv, NEW r \in Requests, InFlight(r), Done(r), ReleaseLease(r),
           NEW a \in Accounts, NEW s \in Slots, UNCHANGED <<now, written, lastGrant>>
    PROVE  SlotStep(a, s)
<1> DEFINE b == request[r].account
           slot == request[r].slot
<1>0. b \in Accounts
  BY DEF TypeOK, InFlight
<1>1. CASE slot # "none" /\ b = a /\ slot = s
  <2>1. health'[a][s] = ReleaseIfOwned(health[a][s], r)
    BY <1>1 DEF ReleaseLease, Set, TypeOK
  <2>2. Handed(health[a][s], health'[a][s], r)
    BY <2>1, ReleaseHands, RequestIsLease, SlotType
  <2>3. QED
    BY <2>2, HandedStep
<1>2. CASE ~(slot # "none" /\ b = a /\ slot = s)
  <2>1. health'[a][s] = health[a][s]
    BY <1>0, <1>2 DEF ReleaseLease, Set, TypeOK
  <2>2. QED
    BY <2>1, SameSlot
<1>3. QED
  BY <1>1, <1>2

\* Admission.
LEMMA AdmitStep ==
    ASSUME TypeOK, NEW r \in Requests, NEW b \in Accounts, NEW scope \in ModelScopes,
           AdmitProbe(r, b, scope), NEW a \in Accounts, NEW s \in Slots
    PROVE  SlotStep(a, s)
<1> DEFINE slot == CoolingSlot(b, scope)
<1>0. slot \in Slots
  BY HealthAssumption DEF AdmitProbe, CoolingSlot, Scopes, Slots
<1>1. CASE a = b /\ s = slot
  <2>1. /\ health'[a][s] = Leased(health[a][s], r)
        /\ lastGrant'[a][s] = now
        /\ CanProbe(health[a][s])
    BY <1>0, <1>1 DEF AdmitProbe, Set, TypeOK
  <2>2. /\ request'[r].state = "auth" /\ request'[r].account = a
        /\ request'[r].slot = s /\ request'[r].write = written[a][s]
    BY <1>0, <1>1 DEF AdmitProbe, Admitted, TypeOK, Slots, Scopes
  <2>3. health[a][s] \in Health
    BY SlotType
  <2>4. Granted(a, s)
    BY <2>1, <2>2, <2>3 DEF AdmitProbe, Granted, Leased, Health
  <2>5. QED
    BY <2>4 DEF SlotStep, AdmitProbe
<1>2. CASE ~(a = b /\ s = slot)
  <2>1. health'[a][s] = health[a][s] /\ lastGrant'[a][s] = lastGrant[a][s]
    BY <1>0, <1>2 DEF AdmitProbe, Set, TypeOK
  <2>2. QED
    BY <2>1, SameSlot DEF AdmitProbe
<1>3. QED
  BY <1>1, <1>2

\* A success.
LEMMA SuccessStep ==
    ASSUME TypeOK, LeaseInv, NEW r \in Requests, Success(r),
           NEW a \in Accounts, NEW s \in Slots
    PROVE  SlotStep(a, s)
<1> DEFINE b == request[r].account
           h == health[a][s]
           g == health'[a][s]
<1>0. /\ InFlight(r) /\ Done(r) /\ h \in Health /\ r \in LeaseIds /\ now \in Nat
      /\ b \in Accounts /\ UNCHANGED <<now, written, lastGrant>>
  BY SlotType, RequestIsLease DEF Success, Records, InFlight, TypeOK
<1>1. CASE a # b
  <2>1. g = h
    BY <1>0, <1>1 DEF Success, TypeOK
  <2>2. QED
    BY <1>0, <2>1, SameSlot
<1>2. CASE a = b
  <2>1. g \in {h, AfterSuccess(h, r), ScopedAfterSuccess(h, r)}
    BY <1>0, <1>2 DEF Success, TypeOK
  <2>2. Concluded(h, h, r)
    BY DEF Concluded, Handed, Kept
  <2>3. Concluded(h, g, r)
    <3> HIDE DEF h, g
    <3>1. QED
      BY <1>0, <2>1, <2>2, SuccessConcludes
  <2>4. CASE Handed(h, g, r)
    BY <1>0, <2>4, HandedStep
  <2>5. CASE Gone(g) /\ ~Cooled(h)
    BY <1>0, <2>5 DEF SlotStep, Ended, Gone
  <2>6. CASE Gone(g) /\ MayClear(h, r)
    <3>1. HolderConcludes(a, s)
      BY <1>0, <2>6, OwnerConcludes DEF MayClear
    <3>2. h.lease = r /\ h.leaseGeneration = h.generation
      BY <2>6 DEF MayClear, Owns
    <3>3. request[r].write = written[a][s]
      BY <1>0, <3>2 DEF LeaseInv, SlotInv, HeldByRequest
    <3>4. HolderProves(a, s)
      BY <3>2, <3>3 DEF HolderProves
    <3>5. QED
      BY <1>0, <2>6, <3>1, <3>4 DEF SlotStep, Ended, Gone
  <2>7. QED
    BY <2>3, <2>4, <2>5, <2>6 DEF Concluded
<1>3. QED
  BY <1>1, <1>2

\* An outcome that says nothing of the account, a transient failure, or a cooldown.
LEMMA FailureStep ==
    ASSUME TypeOK, LeaseInv, NEW r \in Requests,
           \/ Neutral(r) \/ Transient(r)
           \/ \E q \in QuotaHints(r) : Quota(r, q[1], q[2]),
           NEW a \in Accounts, NEW s \in Slots
    PROVE  SlotStep(a, s)
<1> DEFINE b == request[r].account
           h == health[a][s]
           g == health'[a][s]
<1>0. /\ InFlight(r) /\ Done(r) /\ h \in Health /\ r \in LeaseIds /\ now \in Nat
      /\ b \in Accounts /\ UNCHANGED <<now, lastGrant>>
  BY SlotType, RequestIsLease DEF Neutral, Transient, Quota, Records, InFlight, TypeOK
<1>1. ScopedReleased(r)[s] \in {health[b][s], ReleaseIfOwned(health[b][s], r)}
  BY DEF ScopedReleased
<1>2. Handed(h, h, r) /\ Handed(h, ReleaseIfOwned(h, r), r) /\ Handed(h, AfterTransient(h, r), r)
  <2>1. Handed(h, h, r)
    BY DEF Handed, Kept
  <2>2. QED
    BY <1>0, <2>1, ReleaseHands, TransientHands
<1>3. \A t \in Slots : \A x :
         [ScopedReleased(r) EXCEPT ![t] = x][s] = IF s = t THEN x ELSE ScopedReleased(r)[s]
  BY DEF ScopedReleased
<1>4. ScopedReleased(r)["account"] = health[b]["account"]
  BY DEF ScopedReleased, Slots, Scopes
<1>5. CASE Neutral(r) \/ Transient(r)
  <2>1. UNCHANGED written
    BY <1>5 DEF Neutral, Transient
  <2>2. a = b => \/ g = [ScopedReleased(r) EXCEPT !["account"] = ReleaseIfOwned(@, r)][s]
                 \/ g = [ScopedReleased(r) EXCEPT !["account"] = AfterTransient(@, r)][s]
    BY <1>0, <1>5 DEF Neutral, Transient, TypeOK
  <2>3. a # b => g = h
    BY <1>0, <1>5 DEF Neutral, Transient, TypeOK
  <2>4. g = h \/ g = ReleaseIfOwned(h, r) \/ g = AfterTransient(h, r)
    BY <1>1, <1>3, <1>4, <2>2, <2>3 DEF Slots
  <2>5. Handed(h, g, r)
    BY <1>2, <2>4
  <2>6. QED
    BY <1>0, <2>1, <2>5, HandedStep
<1>6. ASSUME NEW q \in QuotaHints(r), Quota(r, q[1], q[2])
      PROVE  SlotStep(a, s)
  <2> DEFINE slot == QuotaSlot(r, q[1])
             H == IF slot = "account" THEN ScopedReleased(r) ELSE health[b]
  <2>1. slot \in Slots /\ q[2] \in Durations
    BY <1>0, HealthAssumption DEF QuotaHints, QuotaSlot, Slots, TypeOK, Scopes
  <2>2. health' = [health EXCEPT ![b] = [H EXCEPT ![slot] = Cooldown(@, r, q[2], q[1])]]
    BY <1>6 DEF Quota
  <2>3. H[slot] = health[b][slot]
    <3>1. CASE slot = "account"
      BY <1>4, <3>1
    <3>2. CASE slot # "account"
      BY <3>2
    <3>3. QED
      BY <3>1, <3>2
  <2>4. \A x : [H EXCEPT ![slot] = x][s] = IF s = slot THEN x ELSE H[s]
    <3>1. CASE slot = "account"
      BY <1>3, <2>1, <3>1
    <3>2. CASE slot # "account"
      BY <1>0, <2>1, <3>2 DEF TypeOK
    <3>3. QED
      BY <3>1, <3>2
  <2>5. CASE a = b /\ s = slot
    <3>1. g = Cooldown(h, r, q[2], q[1])
      BY <1>0, <2>2, <2>3, <2>5, <2>4 DEF TypeOK
    <3>2. Recharges(h, g, r)
      <4> HIDE DEF h
      <4>1. QED
        BY <1>0, <2>1, <3>1, CooldownCharges
    <3>3. Owns(h, r) => HolderConcludes(a, s)
      BY <1>0, OwnerConcludes
    <3>4. QED
      BY <1>0, <3>2, <3>3 DEF SlotStep, Recharged
  <2>6. CASE ~(a = b /\ s = slot)
    <3>1. written'[a][s] = written[a][s]
      BY <1>0, <1>6, <2>1, <2>6 DEF Quota, TypeOK
    <3>2. g = h \/ g = ReleaseIfOwned(h, r)
      BY <1>0, <1>1, <2>2, <2>6, <2>4 DEF TypeOK
    <3>3. Handed(h, g, r)
      BY <1>2, <3>2
    <3>4. QED
      BY <1>0, <3>1, <3>3, HandedStep
  <2>7. QED
    BY <2>5, <2>6
<1>7. QED
  BY <1>5, <1>6

\* 401 and 403 overrule every cooldown of the account, and a request's other
\* steps leave the slots alone.
LEMMA RequestStep ==
    ASSUME TypeOK, LeaseInv, NEW r \in Requests, RequestNext(r),
           NEW a \in Accounts, NEW s \in Slots
    PROVE  SlotStep(a, s)
<1>1. ASSUME NEW b \in Accounts, NEW scope \in ModelScopes, AdmitProbe(r, b, scope)
      PROVE  SlotStep(a, s)
  BY <1>1, AdmitStep
<1>2. CASE \/ \E b \in Accounts, scope \in ModelScopes : Admit(r, b, scope)
           \/ \E checked \in BOOLEAN : TokenReady(r, checked)
           \/ Abandon(r) \/ Recycle(r) \/ Dropped(r)
  BY <1>2, SameSlot DEF Admit, TokenReady, Abandon, Recycle, Dropped, healthVars
<1>3. CASE TokenRejected(r) \/ \E fatal \in BOOLEAN : TokenFailed(r, fatal)
  BY <1>3, ReleaseStep DEF TokenRejected, TokenFailed, InFlight
<1>4. CASE Credential(r)
  <2>1. request[r].account \in Accounts /\ now' = now /\ UNCHANGED <<written, lastGrant>>
    BY <1>4 DEF Credential, Records, TypeOK
  <2>2. CASE request[r].account = a
    <3>1. Overruled(a)
      BY <1>4, <2>2 DEF Overruled
    <3>2. Gone(health'[a][s])
      BY <1>4, <2>1, <2>2 DEF Credential, TypeOK, Gone, Absent
    <3>3. QED
      BY <2>1, <3>1, <3>2 DEF SlotStep, Ended, Gone
  <2>3. CASE request[r].account # a
    BY <1>4, <2>1, <2>3, SameSlot DEF Credential, TypeOK
  <2>4. QED
    BY <2>2, <2>3
<1>5. QED
  BY <1>1, <1>2, <1>3, <1>4, SuccessStep, FailureStep DEF RequestNext

\* The worker's claims.
LEMMA ClaimStep ==
    ASSUME TypeOK, NEW batch \in SUBSET Accounts, NEW excluded \in SUBSET Accounts,
           ClaimRecoveryProbes(batch, excluded), NEW a \in Accounts, NEW s \in Slots
    PROVE  SlotStep(a, s)
<1>0. now' = now /\ UNCHANGED written
  BY DEF ClaimRecoveryProbes
<1>1. CASE a \in batch /\ s = Oldest(a)
  <2>1. a \in Claimable
    BY <1>1 DEF ClaimRecoveryProbes
  <2>2. CanProbe(health[a][s]) /\ health[a][s] \in Health
    BY <1>1, <2>1, OldestIsDue, SlotType DEF Due
  <2>3. /\ health'[a][s] = Leased(health[a][s], <<a, pass'>>)
        /\ lastGrant'[a][s] = now /\ pass' = pass + 1
        /\ claim'[a].slot = s /\ claim'[a].write = written[a][s] /\ claim'[a].at = now
    BY <1>1 DEF ClaimRecoveryProbes
  <2>4. Granted(a, s)
    BY <1>0, <2>2, <2>3 DEF Granted, Leased, Health
  <2>5. QED
    BY <1>0, <2>4 DEF SlotStep
<1>2. CASE ~(a \in batch /\ s = Oldest(a))
  <2>1. health'[a][s] = health[a][s] /\ lastGrant'[a][s] = lastGrant[a][s]
    BY <1>2 DEF ClaimRecoveryProbes
  <2>2. QED
    BY <1>0, <2>1, SameSlot
<1>3. QED
  BY <1>1, <1>2

\* A claim is settled: the cooldown ends only when the lease and the proof are
\* still those of the claim.
LEMMA SettleStep ==
    ASSUME TypeOK, LeaseInv, NEW b \in Accounts, NEW recovered \in BOOLEAN,
           NEW proof \in claim[b].credential .. credential[b].generation,
           Settle(b, recovered, proof), NEW a \in Accounts, NEW s \in Slots
    PROVE  SlotStep(a, s)
<1> DEFINE slot == claim[b].slot
           h == health[a][s]
           g == health'[a][s]
<1>0. /\ slot \in Slots /\ h \in Health /\ claim[b].at \in Nat /\ claim[b].running
      /\ now' = now /\ UNCHANGED <<written, lastGrant>>
  BY SlotType DEF Settle, TypeOK
<1>1. CASE ~(a = b /\ s = slot) \/ ~Owns(health[b][slot], <<b, pass>>)
  <2>1. \/ UNCHANGED health
        \/ (Owns(health[b][slot], <<b, pass>>) /\ \E x : Set(b, slot, x))
    BY DEF Settle
  <2>2. g = h
    <3>1. CASE UNCHANGED health
      BY <3>1
    <3>2. CASE ~(a = b /\ s = slot) /\ \E x : Set(b, slot, x)
      BY <1>0, <3>2 DEF Set, TypeOK
    <3>3. QED
      BY <1>1, <2>1, <3>1, <3>2
  <2>3. QED
    BY <1>0, <2>2, SameSlot
<1>2. CASE a = b /\ s = slot /\ Owns(health[b][slot], <<b, pass>>)
  <2>1. \A x : Set(b, slot, x) => g = x
    BY <1>0, <1>2 DEF Set, TypeOK
  <2>2. ~claim'[a].running
    BY <1>2 DEF Settle, TypeOK
  <2>3. HolderConcludes(a, s)
    BY <1>0, <1>2, <2>2 DEF HolderConcludes, Owns
  <2>4. /\ lastGrant[a][s] <= claim[a].at
        /\ h.leaseGeneration = h.generation => claim[a].write = written[a][s]
    BY <1>0, <1>2 DEF LeaseInv, SlotInv, HeldByClaim, Owns
  <2>5. CASE ~(recovered /\ CooldownFenced(b) /\ ProofFenced(b, proof))
    <3>1. g = Released(h, claim[a].at)
      BY <1>2, <2>1, <2>5 DEF Settle
    <3>2. Freed(h, g, claim[a].at)
      BY <1>0, <3>1 DEF Released, Freed, Health
    <3>3. QED
      BY <1>0, <1>2, <2>3, <2>4, <3>2 DEF SlotStep, Returned
  <2>6. CASE recovered /\ CooldownFenced(b) /\ ProofFenced(b, proof)
    <3>1. g = Lifted(h, claim[a].generation + 1, claim[a].at) \/ g = Absent
      BY <1>2, <2>1, <2>6 DEF Settle
    <3>2. h.leaseGeneration = h.generation
      BY <1>2, <2>6 DEF CooldownFenced
    <3>3. claim[a].lineage = credential[a].lineage
      BY <1>0, <1>2, <2>6 DEF ProofFenced, CredentialLive, LeaseInv, ClaimInv
    <3>4. HolderProves(a, s)
      BY <1>0, <1>2, <2>2, <2>4, <3>2, <3>3 DEF HolderProves, Owns
    <3>5. /\ g.lease = NoLease /\ g.leaseGeneration = 0 /\ g.until = Never
          /\ g.lastProbeAt = Never \/ g.lastProbeAt = claim[a].at
      <4>1. CASE g = Absent
        BY <4>1 DEF Absent
      <4>2. CASE g = Lifted(h, claim[a].generation + 1, claim[a].at)
        <5> HIDE DEF g
        <5>1. QED
          BY <1>0, <4>2 DEF Lifted, Health
      <4>3. QED
        BY <3>1, <4>1, <4>2
    <3>6. QED
      BY <1>0, <2>3, <2>4, <3>4, <3>5 DEF SlotStep, Ended
  <2>7. QED
    BY <2>5, <2>6
<1>3. QED
  BY <1>1, <1>2

\* The operator and the configuration.
LEMMA OperatorStep ==
    ASSUME TypeOK, LeaseInv, OperatorNext, NEW a \in Accounts, NEW s \in Slots
    PROVE  SlotStep(a, s)
<1> DEFINE h == health[a][s]
           g == health'[a][s]
<1>0. now' = now /\ UNCHANGED <<written, lastGrant>> /\ h \in Health /\ now \in Nat
  BY SlotType DEF OperatorNext, ClearCooldown, SelectManually, RefreshCredential, Reauthenticate,
         RemoveAccount, AddAccount, Reconcile, SwitchMainIdentity, healthVars, TypeOK
<1>1. ASSUME NEW b \in Accounts, ClearCooldown(b) PROVE SlotStep(a, s)
  <2>1. CASE a = b /\ Cooled(h)
    <3>1. g = Lifted(h, h.generation + 1, now)
      BY <1>1, <2>1 DEF ClearCooldown, TypeOK
    <3>2. g.lease = NoLease /\ g.leaseGeneration = 0 /\ g.until = Never /\ g.lastProbeAt = now
      BY <1>0, <3>1 DEF Lifted, Health
    <3>3. lastGrant[a][s] <= now
      BY DEF LeaseInv, SlotInv, PacedFrom
    <3>4. Overruled(a)
      BY <1>1, <2>1 DEF Overruled
    <3>5. QED
      BY <1>0, <3>2, <3>3, <3>4 DEF SlotStep, Ended
  <2>2. CASE ~(a = b /\ Cooled(h))
    <3>1. g = h
      BY <1>1, <2>2 DEF ClearCooldown, TypeOK
    <3>2. QED
      BY <1>0, <3>1, SameSlot
  <2>3. QED
    BY <2>1, <2>2
<1>2. ASSUME NEW b \in Accounts, SelectManually(b) PROVE SlotStep(a, s)
  <2>1. g = h \/ g = Preserved(h)
    BY <1>2 DEF SelectManually, Set, TypeOK, Slots
  <2>2. Kept(h, g)
    BY <1>0, <2>1 DEF Kept, Preserved, Health
  <2>3. QED
    BY <1>0, <2>2 DEF SlotStep, Untouched
<1>3. CASE \E b \in Accounts : RefreshCredential(b) \/ Reauthenticate(b)
  BY <1>3, SameSlot DEF RefreshCredential, Reauthenticate, healthVars
<1>4. CASE \E ok \in BOOLEAN : \/ Reconcile(ok)
                               \/ \E b \in Accounts : RemoveAccount(b, ok) \/ AddAccount(b, ok)
  <2>1. health' = ForgetHealth(configured')
    BY <1>4 DEF Reconcile, RemoveAccount, AddAccount
  <2>2. CASE a \in configured'
    <3>1. g = h
      BY <2>1, <2>2 DEF ForgetHealth
    <3>2. QED
      BY <1>0, <3>1, SameSlot
  <2>3. CASE a \notin configured'
    <3>1. g = Absent
      BY <2>1, <2>3 DEF ForgetHealth
    <3>2. QED
      BY <1>0, <2>3, <3>1 DEF SlotStep, Ended, Absent, Overruled
  <2>4. QED
    BY <2>2, <2>3
<1>5. CASE SwitchMainIdentity
  <2>1. CASE a = Main
    <3>1. g = Absent /\ identity'[a] # identity[a]
      BY <1>5, <2>1 DEF SwitchMainIdentity, TypeOK
    <3>2. QED
      BY <1>0, <3>1 DEF SlotStep, Ended, Absent, Overruled
  <2>2. CASE a # Main
    <3>1. g = h
      BY <1>5, <2>2 DEF SwitchMainIdentity, TypeOK
    <3>2. QED
      BY <1>0, <3>1, SameSlot
  <2>3. QED
    BY <2>1, <2>2
<1>6. QED
  BY <1>1, <1>2, <1>3, <1>4, <1>5 DEF OperatorNext

\* Every step of the system does to every slot one of the five things.
LEMMA EverySlotSteps ==
    ASSUME TypeOK, LeaseInv, [Next]_vars, NEW a \in Accounts, NEW s \in Slots
    PROVE  SlotStep(a, s)
<1>1. CASE Tick \/ UNCHANGED vars
  BY <1>1, SameSlot DEF Tick, vars, healthVars
<1>2. CASE Restart
  <2>1. health'[a][s] = Absent /\ lastGrant' = lastGrant /\ now' = now
    BY <1>2 DEF Restart
  <2>2. QED
    BY <1>2, <2>1 DEF SlotStep, Ended, Absent, Overruled
<1>3. CASE WorkerNext
  BY <1>3, ClaimStep, SettleStep DEF WorkerNext
<1>4. QED
  BY <1>1, <1>2, <1>3, RequestStep, OperatorStep DEF Next

-----------------------------------------------------------------------------
(* The invariant is inductive.                                               *)

\* What requests and the operator leave to others.
LEMMA RequestFrame ==
    ASSUME NEW r \in Requests, RequestNext(r)
    PROVE  UNCHANGED <<now, claim, pass, configured, credential, identity>>
BY DEF RequestNext, Admit, AdmitProbe, TokenReady, TokenRejected, TokenFailed,
       Abandon, Recycle, Dropped, Success, Neutral, Credential, Quota, Transient, accountVars

\* The operator leaves requests, claims and the clock alone.
LEMMA OperatorFrame ==
    ASSUME OperatorNext
    PROVE  UNCHANGED <<now, claim, pass, request>>
BY DEF OperatorNext, ClearCooldown, SelectManually, RefreshCredential, Reauthenticate,
       RemoveAccount, AddAccount, Reconcile, SwitchMainIdentity

\* The worker leaves requests, accounts and the clock alone.
LEMMA WorkerFrame ==
    ASSUME WorkerNext
    PROVE  UNCHANGED <<now, accountVars, request>>
BY DEF WorkerNext, ClaimRecoveryProbes, Settle

\* What a request a lease names may become: it comes to rest or stays what it is.
Lives(q) ==
    /\ request'[q].state # "idle"
    /\ InFlight(q)' => /\ InFlight(q)
                       /\ request'[q].account = request[q].account
                       /\ request'[q].slot = request[q].slot
                       /\ request'[q].write = request[q].write

\* No identifier is used again, nor an attempt moved, while a lease names it.
LEMMA HolderLives ==
    ASSUME TypeOK, LeaseInv, [Next]_vars, NEW a \in Accounts, NEW s \in Slots,
           NEW q \in Requests, health[a][s].lease = q
    PROVE  Lives(q)
<1>0. request[q].state # "idle"
  BY DEF LeaseInv, SlotInv, HeldByRequest
<1>1. ASSUME NEW r \in Requests, RequestNext(r) PROVE Lives(q)
  <2>1. CASE \E b \in Accounts, scope \in ModelScopes : Admit(r, b, scope) \/ AdmitProbe(r, b, scope)
    <3>1. q # r /\ \A x \in Requests \ {r} : request'[x] = request[x]
      BY <1>0, <2>1 DEF Admit, AdmitProbe, Admitted, TypeOK
    <3>2. QED
      BY <1>0, <3>1 DEF Lives, InFlight
  <2>2. CASE \E checked \in BOOLEAN : TokenReady(r, checked)
    BY <1>0, <2>2 DEF TokenReady, Lives, InFlight, TypeOK
  <2>3. CASE Recycle(r)
    BY <1>0, <2>3 DEF Recycle, Lives, InFlight, TypeOK
  <2>4. CASE Done(r) \/ request' = [request EXCEPT ![r] = Resting("abandoned")]
    <3>1. /\ q = r => request'[q].state \in {"done", "abandoned"}
          /\ q # r => request'[q] = request[q]
      BY <2>4 DEF Done, Resting, TypeOK
    <3>2. QED
      BY <1>0, <3>1 DEF Lives, InFlight
  <2>5. QED
    BY <1>1, <2>1, <2>2, <2>3, <2>4
    DEF RequestNext, TokenRejected, TokenFailed, Abandon, Dropped, Success, Neutral,
        Credential, Quota, Transient, Records
<1>2. CASE Restart
  <2>1. \/ request'[q].state = "abandoned"
        \/ request'[q] = request[q]
    BY <1>2 DEF Restart, Resting
  <2>2. QED
    BY <1>0, <2>1 DEF Lives, InFlight
<1>3. CASE UNCHANGED request
  BY <1>0, <1>3 DEF Lives, InFlight
<1>4. QED
  BY <1>1, <1>2, <1>3, WorkerFrame, OperatorFrame DEF Next, vars, Tick

\* A new claim is of a new pass, and a claim only ends otherwise.
ClaimMoves(a) ==
    \/ pass' = pass + 1
    \/ (pass' = pass /\ (claim'[a].running => claim'[a] = claim[a]))

\* Every step moves claims so.
LEMMA ClaimsMove ==
    ASSUME TypeOK, [Next]_vars, NEW a \in Accounts
    PROVE  ClaimMoves(a)
<1>1. CASE \E batch, excluded \in SUBSET Accounts : ClaimRecoveryProbes(batch, excluded)
  BY <1>1 DEF ClaimRecoveryProbes, ClaimMoves
<1>2. ASSUME NEW b \in Accounts, NEW recovered, NEW proof, Settle(b, recovered, proof)
      PROVE  ClaimMoves(a)
  BY <1>2 DEF Settle, ClaimMoves, TypeOK
<1>3. CASE Restart
  BY <1>3 DEF Restart, ClaimMoves, TypeOK
<1>4. CASE UNCHANGED <<claim, pass>>
  BY <1>4 DEF ClaimMoves
<1>5. UNCHANGED <<claim, pass>> \/ WorkerNext \/ Restart
  BY RequestFrame, OperatorFrame DEF Next, vars, Tick
<1>6. QED
  BY <1>1, <1>2, <1>3, <1>4, <1>5 DEF WorkerNext

\* A stored credential never returns to a generation it left.
LEMMA CredentialGrows ==
    ASSUME TypeOK, [Next]_vars, NEW a \in Accounts
    PROVE  \/ credential'[a] = credential[a]
           \/ credential'[a].generation > credential[a].generation
<1>1. \/ UNCHANGED credential
      \/ \E b \in Accounts, ok \in BOOLEAN :
            RefreshCredential(b) \/ Reauthenticate(b) \/ RemoveAccount(b, ok) \/ AddAccount(b, ok)
  <2>1. CASE OperatorNext
    BY <2>1 DEF OperatorNext, ClearCooldown, SelectManually, Reconcile, SwitchMainIdentity,
                accountVars
  <2>2. CASE ~OperatorNext
    BY <2>2, RequestFrame, WorkerFrame DEF Next, vars, Restart, Tick, accountVars
  <2>3. QED
    BY <2>1, <2>2
<1>2. ASSUME NEW b \in Accounts, NEW ok \in BOOLEAN,
             \/ RefreshCredential(b) \/ Reauthenticate(b)
             \/ RemoveAccount(b, ok) \/ AddAccount(b, ok)
      PROVE  \/ credential'[a] = credential[a]
             \/ credential'[a].generation > credential[a].generation
  BY <1>2 DEF RefreshCredential, Reauthenticate, RemoveAccount, AddAccount, TypeOK
<1>3. QED
  BY <1>1, <1>2

\* So a claim goes on knowing its credential's lineage.
LEMMA ClaimInvStep ==
    ASSUME TypeOK, LeaseInv, [Next]_vars, NEW a \in Accounts
    PROVE  ClaimInv(a)'
<1>0. ClaimInv(a) /\ TypeOK'
  BY TypeStep DEF LeaseInv
<1>1. ASSUME NEW batch \in SUBSET Accounts, NEW excluded \in SUBSET Accounts,
             ClaimRecoveryProbes(batch, excluded)
      PROVE  ClaimInv(a)'
  BY <1>0, <1>1 DEF ClaimRecoveryProbes, ClaimInv, TypeOK, accountVars
<1>2. CASE claim'[a].running => claim'[a] = claim[a]
  <2>1. /\ claim[a].credential \in Nat /\ credential[a].generation \in Nat
        /\ credential'[a].generation \in Nat
    BY <1>0 DEF TypeOK
  <2>2. QED
    BY <1>0, <1>2, <2>1, CredentialGrows DEF ClaimInv
<1>3. \/ \E batch, excluded \in SUBSET Accounts : ClaimRecoveryProbes(batch, excluded)
      \/ claim'[a].running => claim'[a] = claim[a]
  <2>1. UNCHANGED pass \/ \E batch, excluded \in SUBSET Accounts : ClaimRecoveryProbes(batch, excluded)
    BY RequestFrame, OperatorFrame DEF Next, vars, WorkerNext, Settle, Restart, Tick
  <2>2. pass \in Nat
    BY DEF TypeOK
  <2>3. QED
    BY <2>1, <2>2, ClaimsMove DEF ClaimMoves
<1>4. QED
  BY <1>1, <1>2, <1>3

\* A slot keeps its part, whichever of its five steps it takes.
LEMMA SlotInvStep ==
    ASSUME TypeOK, LeaseInv, [Next]_vars, NEW a \in Accounts, NEW s \in Slots
    PROVE  SlotInv(a, s)'
<1> DEFINE h == health[a][s]
           g == health'[a][s]
<1>0. /\ SlotInv(a, s) /\ ClaimMoves(a) /\ SlotStep(a, s)
      /\ h \in Health /\ g \in Health /\ now \in Nat /\ pass \in Nat
      /\ lastGrant[a][s] \in Time
  BY EverySlotSteps, ClaimsMove, TypeStep DEF LeaseInv, TypeOK
<1>1. \A q \in Requests : h.lease = q => Lives(q)
  BY HolderLives
<1>2. now' \in {now, now + 1}
  BY RequestFrame, WorkerFrame, OperatorFrame DEF Next, vars, Restart, Tick
<1>3. \A b \in Accounts, n \in Nat : <<b, n>> \in LeaseIds /\ <<b, n>> \notin Requests
  BY LeaseAssumption DEF LeaseIds
<1>4. NoLease \notin Requests /\ \A b \in Accounts, n \in Nat : NoLease # <<b, n>>
  BY <1>3, LeaseAssumption DEF LeaseIds
<1>5. CASE Untouched(a, s)
  <2>1. HeldByRequest(a, s)'
    BY <1>0, <1>1, <1>5 DEF SlotInv, HeldByRequest, Untouched, Kept, Lives, InFlight
  <2>2. HeldByClaim(a, s)'
    <3>1. \A b \in Accounts, n \in Nat : g.lease = <<b, n>> => n <= pass
      BY <1>0, <1>5 DEF SlotInv, HeldByClaim, Untouched, Kept
    <3>2. CASE pass' = pass + 1
      BY <1>0, <3>1, <3>2 DEF HeldByClaim
    <3>3. CASE pass' = pass /\ (claim'[a].running => claim'[a] = claim[a])
      BY <1>0, <1>5, <3>1, <3>3 DEF SlotInv, HeldByClaim, Untouched, Kept
    <3>4. QED
      BY <1>0, <3>2, <3>3 DEF ClaimMoves
  <2>3. PacedFrom(a, s)'
    BY <1>0, <1>2, <1>5 DEF SlotInv, PacedFrom, Untouched, Kept, Time, Never
  <2>4. QED
    BY <1>0, <1>5, <2>1, <2>2, <2>3 DEF SlotInv, Untouched, Kept
<1>6. CASE now' = now /\ Granted(a, s)
  <2>1. HeldByRequest(a, s)'
    <3>1. CASE \E r \in Requests :
                /\ g.lease = r /\ request'[r].state # "idle"
                /\ request'[r].account = a /\ request'[r].slot = s
                /\ request'[r].write = written[a][s]
      BY <1>6, <3>1 DEF HeldByRequest, Granted
    <3>2. CASE g.lease = <<a, pass'>> /\ pass' = pass + 1
      <4>1. g.lease \notin Requests
        BY <1>0, <1>3, <3>2
      <4>2. QED
        BY <4>1 DEF HeldByRequest
    <3>3. QED
      BY <1>6, <3>1, <3>2 DEF Granted
  <2>2. HeldByClaim(a, s)'
    <3>1. CASE g.lease \in Requests
      <4>1. pass' \in Nat
        BY <1>0 DEF ClaimMoves
      <4>2. \A b \in Accounts, n \in Nat : g.lease # <<b, n>>
        BY <1>3, <3>1
      <4>3. QED
        BY <4>1, <4>2 DEF HeldByClaim
    <3>2. CASE /\ g.lease = <<a, pass'>> /\ pass' = pass + 1
               /\ claim'[a].slot = s /\ claim'[a].write = written[a][s]
               /\ claim'[a].at = now
      BY <1>0, <1>6, <3>2 DEF HeldByClaim, Granted
    <3>3. QED
      BY <1>6, <3>1, <3>2 DEF Granted
  <2>3. PacedFrom(a, s)'
    BY <1>0, <1>6 DEF PacedFrom, Granted, Never
  <2>4. QED
    BY <1>0, <1>6, <2>1, <2>2, <2>3 DEF SlotInv, Granted, Health
<1>7. CASE now' = now /\ g.lease = NoLease /\ g.leaseGeneration = 0 /\ PacedFrom(a, s)'
  <2>1. HeldByRequest(a, s)' /\ HeldByClaim(a, s)'
    BY <1>0, <1>4, <1>7 DEF HeldByRequest, HeldByClaim, ClaimMoves
  <2>2. QED
    BY <1>0, <1>7, <2>1 DEF SlotInv, Health
<1>8. CASE now' = now /\ (Returned(a, s) \/ Ended(a, s))
  <2>1. PacedFrom(a, s)'
    BY <1>0, <1>8 DEF SlotInv, PacedFrom, Returned, Ended, Freed, Never
  <2>2. QED
    BY <1>7, <1>8, <2>1 DEF Returned, Ended, Freed
<1>9. CASE now' = now /\ Recharged(a, s)
  <2>1. PICK r \in Requests : Recharges(h, g, r)
    BY <1>9 DEF Recharged
  <2>2. PacedFrom(a, s)'
    BY <1>0, <1>9, <2>1 DEF SlotInv, PacedFrom, Recharged, Recharges
  <2>3. CASE Owns(h, r)
    BY <1>7, <1>9, <2>1, <2>2, <2>3 DEF Recharges
  <2>4. CASE ~Owns(h, r)
    <3>1. g.lease = h.lease /\ g.leaseGeneration < g.generation
      BY <1>0, <2>1, <2>4 DEF Recharges, SlotInv, Health
    <3>2. g.leaseGeneration # g.generation
      BY <1>0, <3>1 DEF Health
    <3>3. HeldByRequest(a, s)'
      BY <1>0, <1>1, <3>1, <3>2 DEF SlotInv, HeldByRequest, Lives, InFlight
    <3>4. HeldByClaim(a, s)'
      BY <1>0, <1>9, <3>1, <3>2 DEF SlotInv, HeldByClaim, ClaimMoves, Recharged
    <3>5. QED
      BY <1>0, <2>2, <3>1, <3>3, <3>4 DEF SlotInv, Health
  <2>5. QED
    BY <2>3, <2>4
<1>10. QED
  BY <1>0, <1>5, <1>6, <1>8, <1>9 DEF SlotStep

\* There is no lease at the start.
LEMMA LeaseInit == Init => LeaseInv
BY LeaseAssumption
DEF Init, LeaseInv, SlotInv, HeldByRequest, HeldByClaim, PacedFrom, ClaimInv, Absent, Never,
    LeaseIds

\* And each step keeps every part.
LEMMA LeaseStep == TypeOK /\ LeaseInv /\ [Next]_vars => LeaseInv'
BY SlotInvStep, ClaimInvStep DEF LeaseInv

\* The invariant holds in every reachable state.
LEMMA LeaseAlways == Spec => []LeaseInv
BY LeaseInit, LeaseStep, TypeCorrect, PTL DEF Spec

-----------------------------------------------------------------------------
(* The properties.                                                           *)

\* A lease whose generation matches its record's was granted against the cooldown
\* the record has, although records are deleted and generations restart.
THEOREM LeasesNameTheirCooldown == Spec => []LeaseMatchesCooldown
<1>1. TypeOK /\ LeaseInv => LeaseMatchesCooldown
  <2> SUFFICES ASSUME TypeOK, LeaseInv, NEW a \in Accounts, NEW s \in Slots
               PROVE  /\ health[a][s].lease \in Requests /\ InFlight(health[a][s].lease) =>
                           HeldByRequest(a, s) /\ SlotInv(a, s)
                      /\ HeldByClaim(a, s)
    BY DEF LeaseMatchesCooldown, SlotInv, HeldByRequest, HeldByClaim, InFlight
  <2>1. QED
    BY DEF LeaseInv, SlotInv
<1>2. QED
  BY <1>1, LeaseAlways, TypeCorrect, PTL

\* No late, unrelated or outdated answer ends a hard cooldown: only the probe let
\* through this very cooldown does, or a step that overrules it.
THEOREM OnlyCauseEndsCooldowns == Spec => CooldownEndsForCause
<1>1. ASSUME TypeOK, LeaseInv, [Next]_vars, NEW a \in Accounts, NEW s \in Slots,
             Cooled(health[a][s]), now' = now, ~(health'[a][s].until > now')
      PROVE  Overruled(a) \/ HolderProves(a, s)
  <2>1. SlotStep(a, s)
    BY <1>1, EverySlotSteps
  <2>2. ~Untouched(a, s) /\ ~Granted(a, s) /\ ~Returned(a, s) /\ ~Recharged(a, s)
    BY <1>1 DEF Untouched, Granted, Returned, Recharged, Kept, Freed, Recharges, Cooled
  <2>3. QED
    BY <1>1, <2>1, <2>2 DEF SlotStep, Ended
<1>2. TypeOK /\ LeaseInv /\ [Next]_vars =>
        [\A a \in Accounts, slot \in Slots :
           (Cooled(health[a][slot]) /\ now' = now /\ ~(health'[a][slot].until > now'))
             => Overruled(a) \/ HolderProves(a, slot)]_vars
  BY <1>1
<1>3. QED
  BY <1>2, LeaseAlways, TypeCorrect, PTL DEF Spec, CooldownEndsForCause

\* Nobody consumes somebody else's probe.
THEOREM OnlyHoldersReturnLeases == Spec => LeaseSurvivesOthers
<1>1. ASSUME TypeOK, LeaseInv, [Next]_vars, NEW a \in Accounts, NEW s \in Slots,
             Cooled(health[a][s]), health[a][s].lease # NoLease,
             health'[a][s].lease # health[a][s].lease
      PROVE  Overruled(a) \/ HolderConcludes(a, s)
  <2>1. SlotStep(a, s)
    BY <1>1, EverySlotSteps
  <2>2. ~Untouched(a, s) /\ ~Granted(a, s)
    BY <1>1 DEF Untouched, Granted, Kept, CanProbe
  <2>3. Recharged(a, s) => HolderConcludes(a, s)
    BY <1>1 DEF Recharged, Recharges
  <2>4. QED
    BY <1>1, <2>1, <2>2, <2>3 DEF SlotStep, Returned, Ended
<1>2. TypeOK /\ LeaseInv /\ [Next]_vars =>
        [\A a \in Accounts, slot \in Slots :
           LET h == health[a][slot]
           IN  (Cooled(h) /\ h.lease # NoLease /\ health'[a][slot].lease # h.lease)
                 => Overruled(a) \/ HolderConcludes(a, slot)]_vars
  BY <1>1
<1>3. QED
  BY <1>2, LeaseAlways, TypeCorrect, PTL DEF Spec, LeaseSurvivesOthers

\* Probes of one slot are an interval apart, through deletions of the record, new
\* cooldowns, resets and claims alike.
THEOREM ProbesKeepTheirDistance == Spec => ProbesArePaced
<1>1. ASSUME TypeOK, LeaseInv, [Next]_vars, NEW a \in Accounts, NEW s \in Slots,
             lastGrant'[a][s] # lastGrant[a][s]
      PROVE  lastGrant[a][s] = Never \/ now - lastGrant[a][s] >= ProbeInterval
  <2>1. CanProbe(health[a][s])
    BY <1>1, EverySlotSteps
    DEF SlotStep, Untouched, Granted, Returned, Ended, Recharged
  <2>2. /\ health[a][s] \in Health /\ now \in Nat /\ lastGrant[a][s] \in Time
        /\ PacedFrom(a, s)
    BY <1>1 DEF TypeOK, LeaseInv, SlotInv
  <2>3. health[a][s].until # Never
    BY <2>1, <2>2 DEF CanProbe, Cooled, Never
  <2>4. lastGrant[a][s] <= ProbeOrigin(health[a][s])
    BY <2>2, <2>3 DEF PacedFrom, ProbeOrigin
  <2>5. QED
    BY <2>1, <2>2, <2>4, HealthAssumption
    DEF CanProbe, ProbeOrigin, Health, Time, Never, Durations
<1>2. TypeOK /\ LeaseInv /\ [Next]_vars =>
        [\A a \in Accounts, slot \in Slots :
           lastGrant'[a][slot] # lastGrant[a][slot] =>
              \/ lastGrant[a][slot] = Never
              \/ now - lastGrant[a][slot] >= ProbeInterval]_vars
  BY <1>1
<1>3. QED
  BY <1>2, LeaseAlways, TypeCorrect, PTL DEF Spec, ProbesArePaced

=============================================================================
