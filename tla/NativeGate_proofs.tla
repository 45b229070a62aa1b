-------------------------- MODULE NativeGate_proofs --------------------------
(* The switch of the native login is an exchange of logins, for any profiles, *)
(* number of logins and turns, and around it whatever the gate does.          *)
EXTENDS NativeGate, FiniteSetTheorems, TLAPS

\* The journal of a switch holds two vaults that differ in its two profiles.
GoodTx(tx) ==
    /\ tx \in Journals
    /\ tx.source # tx.target
    /\ tx.before.active = tx.source
    /\ tx.before.kept[tx.source] = 0
    /\ tx.before.kept[tx.target] = tx.targetLogin
    /\ tx.after.active = tx.target
    /\ tx.after.kept[tx.source] = tx.sourceLogin
    /\ tx.after.kept[tx.target] = 0
    /\ \A q \in Profiles \ {tx.source, tx.target} : tx.before.kept[q] = tx.after.kept[q]

\* The same journal, but for its phase.
SameTx(j, tx) ==
    /\ j # NoJournal
    /\ j.source = tx.source /\ j.sourceLogin = tx.sourceLogin
    /\ j.target = tx.target /\ j.targetLogin = tx.targetLogin
    /\ j.before = tx.before /\ j.after = tx.after

Others(tx, kept) ==
    \A q \in Profiles \ {tx.source, tx.target} : kept[q] = tx.before.kept[q]

SourceIn(tx) == auth = [id |-> tx.source, login |-> tx.sourceLogin]
TargetIn(tx) == auth = [id |-> tx.target, login |-> tx.targetLogin]

\* What the files hold before each write of an operation.
Stage(tx) ==
    /\ op.plan = "switch" =>
         /\ op.step = 1 => journal = NoJournal
         /\ op.step > 1 => SameTx(journal, tx)
         /\ op.step < 3 => SourceIn(tx)
         /\ op.step > 2 => TargetIn(tx)
         /\ op.step < 5 => vault = tx.before
         /\ op.step > 4 => vault = tx.after
    /\ op.plan = "undo" =>
         /\ SameTx(journal, tx)
         /\ op.step = 1 => SourceIn(tx) \/ TargetIn(tx)
         /\ op.step > 1 => SourceIn(tx)
         /\ op.step = 3 => vault = tx.before
    /\ op.plan = "rollback" =>
         /\ SameTx(journal, tx)
         /\ op.step = 1 => TargetIn(tx)
         /\ op.step > 1 => SourceIn(tx)
         /\ op.step = 3 => vault = tx.before
    /\ op.plan = "withdraw" =>
         /\ SameTx(journal, tx) /\ InUse(tx.source)
         /\ op.step = 2 => vault = tx.before
    /\ op.plan = "finish" =>
         /\ SameTx(journal, tx) /\ InUse(tx.target)
         /\ op.step = 2 => vault = tx.after
    /\ op.plan = "preserve" =>
         /\ journal # NoJournal
         /\ op.step = 1 => /\ journal.source = tx.source /\ journal.target = tx.target
                           /\ journal.sourceLogin = tx.sourceLogin
                           /\ Others(tx, journal.before.kept)
         /\ op.step > 1 => SameTx(journal, tx)
         /\ op.step < 4 => TargetIn(tx)
         /\ op.step = 4 => SourceIn(tx)
         /\ op.step > 2 => vault = tx.before

FilesAgree ==
    /\ journal = NoJournal => vault.kept[vault.active] = 0
    /\ journal # NoJournal => GoodTx(journal) /\ Others(journal, vault.kept)

OpAgrees ==
    /\ Writing => GoodTx(op.tx) /\ Stage(op.tx)
    /\ op.plan = "read" => journal = NoJournal
    /\ op.plan \in {"inspect", "inspect-rollback"} => op.tx = journal

CopiesAge ==
    /\ \A i \in Identities : Copy(i) <= issued[i]
    /\ auth # NoLogin => auth.login <= issued[auth.id] /\ Copy(auth.id) <= auth.login

SwitchInv == TypeOK /\ FilesAgree /\ OpAgrees /\ CopiesAge

-----------------------------------------------------------------------------
(* The writes of the plans.                                                  *)

At(plan, n, step) == op.plan = plan /\ op.step = n /\ Step = step

More == op.step < Len(Plans[op.plan])

\* Which write is next, and whether another one follows it (Plans).
LEMMA PlanSteps ==
    ASSUME TypeOK, Writing
    PROVE  \/ More /\ \/ At("switch", 1, "prepare") \/ At("switch", 2, "replace")
                      \/ At("switch", 3, "note") \/ At("switch", 4, "commit")
                      \/ At("switch", 5, "seal")
                      \/ At("undo", 1, "restore") \/ At("undo", 2, "unwind")
                      \/ At("rollback", 1, "restore") \/ At("rollback", 2, "unwind")
                      \/ At("withdraw", 1, "unwind") \/ At("finish", 1, "commit")
                      \/ At("preserve", 1, "preserve") \/ At("preserve", 2, "keep")
                      \/ At("preserve", 3, "restore")
           \/ ~More /\ \/ At("switch", 6, "clear") \/ At("undo", 3, "clear")
                       \/ At("rollback", 3, "clear") \/ At("withdraw", 2, "clear")
                       \/ At("finish", 2, "clear") \/ At("preserve", 4, "clear")
<1>1. CASE op.plan = "switch"
  BY <1>1 DEF TypeOK, Plans, At, More, Step
<1>2. CASE op.plan = "undo"
  BY <1>2 DEF TypeOK, Plans, At, More, Step
<1>3. CASE op.plan = "rollback"
  BY <1>3 DEF TypeOK, Plans, At, More, Step
<1>4. CASE op.plan = "withdraw"
  BY <1>4 DEF TypeOK, Plans, At, More, Step
<1>5. CASE op.plan = "finish"
  BY <1>5 DEF TypeOK, Plans, At, More, Step
<1>6. CASE op.plan = "preserve"
  BY <1>6 DEF TypeOK, Plans, At, More, Step
<1>. QED BY <1>1, <1>2, <1>3, <1>4, <1>5, <1>6 DEF Writing, Plans

\* A login record is a login.
LEMMA SourceLogin ==
    ASSUME NEW tx \in Journals, SourceIn(tx)
    PROVE  auth # NoLogin /\ auth.id = tx.source /\ auth.login = tx.sourceLogin
<1>1. auth \in [id : Identities, login : Logins]
  BY DEF SourceIn, Journals, Identities
<1>. QED BY <1>1, NothingAssumption DEF SourceIn

LEMMA TargetLogin ==
    ASSUME NEW tx \in Journals, TargetIn(tx)
    PROVE  auth # NoLogin /\ auth.id = tx.target /\ auth.login = tx.targetLogin
<1>1. auth \in [id : Identities, login : Logins]
  BY DEF TargetIn, Journals, Identities
<1>. QED BY <1>1, NothingAssumption DEF TargetIn

\* What a write that takes effect does to the logins.
LandsWell ==
    /\ FilesAgree' /\ CopiesAge'
    /\ \A i \in Identities : Kept(i)' = Kept(i)
    /\ Known /\ Known'
    /\ \/ auth' = auth
       \/ /\ auth' # NoLogin
          /\ auth'.id \in Profiles
          /\ Kept(auth'.id) # 0

\* Before the write: the journal is that of the operation, or there is none and
\* the vault is the one the operation has read.
Ready(tx) ==
    /\ GoodTx(tx) /\ FilesAgree /\ CopiesAge /\ TypeOK
    /\ issued' = issued

LEMMA PrepareLands ==
    ASSUME NEW tx, Ready(tx), journal = NoJournal, SourceIn(tx), vault = tx.before,
           journal' = tx, auth' = auth, vault' = vault
    PROVE  LandsWell
<1>1. /\ tx \in Journals /\ tx # NoJournal
      /\ auth # NoLogin /\ auth.id = tx.source /\ auth.login = tx.sourceLogin
  BY SourceLogin, NothingAssumption DEF Ready, GoodTx
<1>2. tx.source \in Profiles /\ tx.target \in Profiles /\ tx.source # tx.target
  BY DEF Ready, GoodTx, Journals
<1>3. FilesAgree'
  BY <1>1 DEF Ready, GoodTx, FilesAgree, Others
<1>4. \A i \in Identities : Copy(i)' = IF i = tx.source THEN tx.sourceLogin ELSE Copy(i)
  BY <1>1, <1>2 DEF Ready, GoodTx, Copy
<1>5. auth.login \in Nat /\ \A i \in Identities : issued[i] \in Nat
  BY <1>1, SwitchAssumption DEF Ready, TypeOK, Logins
<1>6. CopiesAge'
  BY <1>1, <1>2, <1>4, <1>5 DEF Ready, CopiesAge, Identities
<1>7. \A i \in Identities : Kept(i)' = Kept(i)
  BY <1>1, <1>4 DEF Kept, InUse
<1>8. Known /\ Known'
  BY <1>1 DEF Known, Ready, GoodTx
<1>. QED BY <1>3, <1>6, <1>7, <1>8 DEF LandsWell

\* The journal is written anew with another phase.
LEMMA NoteLands ==
    ASSUME NEW tx, Ready(tx), SameTx(journal, tx), InUse(tx.source) \/ InUse(tx.target),
           NEW phase \in Phases, journal' = [tx EXCEPT !.phase = phase],
           auth' = auth, vault' = vault
    PROVE  LandsWell
<1>1. tx \in Journals /\ journal \in Journals /\ journal # NoJournal
  BY DEF Ready, GoodTx, SameTx, TypeOK
<1>2. journal' \in Journals /\ SameTx(journal', journal)
  <2>1. journal' \in Journals
    BY <1>1 DEF Journals
  <2>. QED BY <2>1, <1>1, NothingAssumption DEF SameTx, Journals
<1>3. FilesAgree'
  BY <1>1, <1>2 DEF Ready, FilesAgree, GoodTx, SameTx, Others
<1>4. \A i \in Identities : Copy(i)' = Copy(i)
  BY <1>1, <1>2 DEF Copy, SameTx
<1>5. CopiesAge'
  BY <1>1, <1>4 DEF Ready, CopiesAge, TypeOK
<1>6. \A i \in Identities : Kept(i)' = Kept(i)
  BY <1>1, <1>4 DEF Kept, InUse
<1>7. Known /\ Known'
  BY <1>1, <1>2 DEF Known, SameTx, InUse
<1>. QED BY <1>3, <1>5, <1>6, <1>7 DEF LandsWell

\* auth.json is given the login of the other profile.
LEMMA ReplaceLands ==
    ASSUME NEW tx, Ready(tx), SameTx(journal, tx), SourceIn(tx),
           auth' = [id |-> tx.target, login |-> tx.targetLogin],
           UNCHANGED <<journal, vault>>
    PROVE  LandsWell
<1>1. /\ tx \in Journals /\ journal # NoJournal
      /\ auth # NoLogin /\ auth.id = tx.source /\ auth.login = tx.sourceLogin
  BY SourceLogin DEF Ready, GoodTx, SameTx
<1>2. auth' = [id |-> tx.target, login |-> tx.targetLogin] /\ auth' # NoLogin
  <2>1. auth' \in [id : Identities, login : Logins]
    BY <1>1 DEF Journals, Identities
  <2>. QED BY <2>1, NothingAssumption
<1>3. /\ tx.source \in Profiles /\ tx.target \in Profiles /\ tx.source # tx.target
      /\ tx.sourceLogin \in Nat /\ tx.targetLogin \in Nat \ {0}
  BY SwitchAssumption DEF Ready, GoodTx, Journals, Logins
<1>4. FilesAgree'
  BY DEF Ready, FilesAgree, Others
<1>5. \A i \in Identities : Copy(i)' = Copy(i)
  BY DEF Copy
<1>6. Copy(tx.source) = tx.sourceLogin /\ Copy(tx.target) = tx.targetLogin
  BY <1>1, <1>3 DEF Copy, SameTx
<1>7. CopiesAge'
  BY <1>2, <1>3, <1>5, <1>6 DEF Ready, CopiesAge, Identities
<1>8. \A i \in Identities : Kept(i)' = Kept(i)
  BY <1>1, <1>2, <1>3, <1>5, <1>6 DEF Kept, InUse
<1>9. Known /\ Known'
  BY <1>1, <1>2 DEF Known, SameTx
<1>10. auth'.id \in Profiles /\ Kept(auth'.id) # 0
  BY <1>1, <1>2, <1>3, <1>6 DEF Kept, InUse
<1>. QED BY <1>2, <1>4, <1>7, <1>8, <1>9, <1>10 DEF LandsWell

LEMMA RestoreLands ==
    ASSUME NEW tx, Ready(tx), SameTx(journal, tx), SourceIn(tx) \/ TargetIn(tx),
           auth' = [id |-> tx.source, login |-> tx.sourceLogin],
           UNCHANGED <<journal, vault>>
    PROVE  LandsWell
<1>1. /\ tx \in Journals /\ journal # NoJournal /\ auth # NoLogin
      /\ \/ auth.id = tx.source /\ auth.login = tx.sourceLogin
         \/ auth.id = tx.target /\ auth.login = tx.targetLogin
  BY SourceLogin, TargetLogin DEF Ready, GoodTx, SameTx
<1>2. auth' = [id |-> tx.source, login |-> tx.sourceLogin] /\ auth' # NoLogin
  <2>1. auth' \in [id : Identities, login : Logins]
    BY <1>1 DEF Journals, Identities
  <2>. QED BY <2>1, NothingAssumption
<1>3. /\ tx.source \in Profiles /\ tx.target \in Profiles /\ tx.source # tx.target
      /\ tx.sourceLogin \in Nat \ {0} /\ tx.targetLogin \in Nat
  BY SwitchAssumption DEF Ready, GoodTx, Journals, Logins
<1>4. FilesAgree'
  BY DEF Ready, FilesAgree, Others
<1>5. \A i \in Identities : Copy(i)' = Copy(i)
  BY DEF Copy
<1>6. Copy(tx.source) = tx.sourceLogin /\ Copy(tx.target) = tx.targetLogin
  BY <1>1, <1>3 DEF Copy, SameTx
<1>7. CopiesAge'
  BY <1>2, <1>3, <1>5, <1>6 DEF Ready, CopiesAge, Identities
<1>8. \A i \in Identities : Kept(i)' = Kept(i)
  BY <1>1, <1>2, <1>3, <1>5, <1>6 DEF Kept, InUse
<1>9. Known /\ Known'
  BY <1>1, <1>2 DEF Known, SameTx
<1>10. auth'.id \in Profiles /\ Kept(auth'.id) # 0
  BY <1>1, <1>2, <1>3, <1>6 DEF Kept, InUse
<1>. QED BY <1>2, <1>4, <1>7, <1>8, <1>9, <1>10 DEF LandsWell

\* The vault is given one of the two vaults of the journal.
LEMMA CommitLands ==
    ASSUME NEW tx, Ready(tx), SameTx(journal, tx), InUse(tx.source) \/ InUse(tx.target),
           vault' \in {tx.before, tx.after}, UNCHANGED <<auth, journal>>
    PROVE  LandsWell
<1>1. tx \in Journals /\ journal # NoJournal
  BY DEF Ready, GoodTx, SameTx
<1>2. Others(tx, vault'.kept) /\ Others(tx, vault.kept)
  BY <1>1 DEF Ready, GoodTx, Others, FilesAgree, SameTx
<1>3. FilesAgree'
  BY <1>1, <1>2 DEF Ready, FilesAgree, SameTx, Others
<1>4. \A i \in Identities : Copy(i)' = Copy(i)
  BY <1>1, <1>2 DEF Copy, SameTx, Others
<1>5. CopiesAge'
  BY <1>1, <1>4 DEF Ready, CopiesAge, TypeOK
<1>6. \A i \in Identities : Kept(i)' = Kept(i)
  BY <1>1, <1>4 DEF Kept, InUse
<1>7. Known /\ Known'
  BY <1>1 DEF Known, SameTx, InUse
<1>. QED BY <1>3, <1>5, <1>6, <1>7 DEF LandsWell

\* The journal is replaced by one that holds the login in use for its target.
LEMMA PreserveLands ==
    ASSUME NEW tx, Ready(tx), TargetIn(tx), journal # NoJournal,
           journal.source = tx.source, journal.target = tx.target,
           journal.sourceLogin = tx.sourceLogin, Others(tx, journal.before.kept),
           journal' = tx, UNCHANGED <<auth, vault>>
    PROVE  LandsWell
<1>1. /\ tx \in Journals /\ journal' # NoJournal
      /\ auth # NoLogin /\ auth.id = tx.target /\ auth.login = tx.targetLogin
  BY TargetLogin, NothingAssumption DEF Ready, GoodTx
<1>2. /\ tx.source \in Profiles /\ tx.target \in Profiles /\ tx.source # tx.target
      /\ auth.login \in Nat /\ \A i \in Identities : issued[i] \in Nat
  BY <1>1, SwitchAssumption DEF Ready, GoodTx, Journals, Logins, TypeOK
<1>3. FilesAgree'
  BY <1>1 DEF Ready, FilesAgree, Others, GoodTx
<1>4. \A i \in Identities : Copy(i)' = IF i = tx.target THEN tx.targetLogin ELSE Copy(i)
  BY <1>1, <1>2 DEF Copy
<1>5. CopiesAge'
  BY <1>1, <1>2, <1>4 DEF Ready, CopiesAge, Identities
<1>6. \A i \in Identities : Kept(i)' = Kept(i)
  BY <1>1, <1>4 DEF Kept, InUse
<1>7. Known /\ Known'
  BY <1>1 DEF Known
<1>. QED BY <1>3, <1>5, <1>6, <1>7 DEF LandsWell

\* The journal is removed: the vault holds the profile that is not in use.
LEMMA ClearLands ==
    ASSUME NEW tx, Ready(tx), SameTx(journal, tx),
           \/ InUse(tx.source) /\ vault = tx.before
           \/ InUse(tx.target) /\ vault = tx.after,
           journal' = NoJournal, UNCHANGED <<auth, vault>>
    PROVE  LandsWell
<1>1. tx \in Journals /\ journal # NoJournal /\ auth # NoLogin
  BY DEF Ready, GoodTx, SameTx, InUse
<1>2. tx.source \in Profiles /\ tx.target \in Profiles /\ tx.source # tx.target
  BY DEF Ready, GoodTx, Journals
<1>3. vault.active = auth.id /\ vault.kept[vault.active] = 0
  BY DEF Ready, GoodTx, InUse
<1>4. FilesAgree'
  BY <1>3 DEF FilesAgree
<1>5. \A i \in Identities : Copy(i)' = IF i = auth.id THEN 0 ELSE Copy(i)
  <2>1. CASE InUse(tx.source) /\ vault = tx.before
    BY <1>1, <1>2, <2>1 DEF Copy, SameTx, InUse, Ready, GoodTx
  <2>2. CASE InUse(tx.target) /\ vault = tx.after
    BY <1>1, <1>2, <2>2 DEF Copy, SameTx, InUse, Ready, GoodTx
  <2>. QED BY <2>1, <2>2
<1>6. CopiesAge'
  <2>1. auth.login \in Nat /\ auth.id \in Identities /\ \A i \in Identities : issued[i] \in Nat
    BY <1>1, SwitchAssumption DEF Ready, TypeOK, Logins
  <2>. QED BY <1>1, <1>5, <2>1 DEF Ready, CopiesAge
<1>7. \A i \in Identities : Kept(i)' = Kept(i)
  BY <1>1, <1>5 DEF Kept, InUse
<1>8. Known /\ Known'
  BY <1>1, <1>3 DEF Known, InUse, SameTx
<1>. QED BY <1>4, <1>6, <1>7, <1>8 DEF LandsWell

LEMMA Landing ==
    ASSUME SwitchInv, Writing, Lands(Step), issued' = issued
    PROVE  LandsWell
<1>. PICK tx : tx = op.tx
  OBVIOUS
<1>1. Ready(tx) /\ tx \in Journals
  BY DEF SwitchInv, OpAgrees, Ready, GoodTx
<1>2. CASE At("switch", 1, "prepare")
  <2>1. journal = NoJournal /\ SourceIn(tx) /\ vault = tx.before
    BY <1>2 DEF At, SwitchInv, OpAgrees, Stage
  <2>2. journal' = tx /\ auth' = auth /\ vault' = vault
    BY <1>2 DEF At, Lands
  <2>. QED BY <1>1, <2>1, <2>2, PrepareLands
<1>3. CASE At("switch", 2, "replace")
  <2>1. SameTx(journal, tx) /\ SourceIn(tx)
    BY <1>3 DEF At, SwitchInv, OpAgrees, Stage
  <2>2. auth' = [id |-> tx.target, login |-> tx.targetLogin] /\ UNCHANGED <<journal, vault>>
    BY <1>3 DEF At, Lands
  <2>. QED BY <1>1, <2>1, <2>2, ReplaceLands
<1>4. CASE At("switch", 3, "note") \/ At("switch", 5, "seal")
  <2>1. SameTx(journal, tx) /\ TargetIn(tx)
    BY <1>4 DEF At, SwitchInv, OpAgrees, Stage
  <2>2. InUse(tx.target)
    BY <1>1, <2>1, TargetLogin DEF InUse
  <2>3. auth' = auth /\ vault' = vault /\ \E phase \in Phases : journal' = [tx EXCEPT !.phase = phase]
    BY <1>4 DEF At, Lands, Phases
  <2>. QED BY <1>1, <2>1, <2>2, <2>3, NoteLands
<1>5. CASE At("undo", 1, "restore") \/ At("rollback", 1, "restore") \/ At("preserve", 3, "restore")
  <2>1. SameTx(journal, tx) /\ (SourceIn(tx) \/ TargetIn(tx))
    BY <1>5 DEF At, SwitchInv, OpAgrees, Stage
  <2>2. auth' = [id |-> tx.source, login |-> tx.sourceLogin] /\ UNCHANGED <<journal, vault>>
    BY <1>5 DEF At, Lands
  <2>. QED BY <1>1, <2>1, <2>2, RestoreLands
<1>6. CASE \/ At("switch", 4, "commit") \/ At("undo", 2, "unwind") \/ At("rollback", 2, "unwind")
           \/ At("withdraw", 1, "unwind") \/ At("finish", 1, "commit") \/ At("preserve", 2, "keep")
  <2>1. /\ SameTx(journal, tx)
        /\ SourceIn(tx) \/ TargetIn(tx) \/ InUse(tx.source) \/ InUse(tx.target)
    BY <1>6 DEF At, SwitchInv, OpAgrees, Stage
  <2>2. InUse(tx.source) \/ InUse(tx.target)
    BY <1>1, <2>1, SourceLogin, TargetLogin DEF InUse
  <2>3. vault' \in {tx.before, tx.after} /\ UNCHANGED <<auth, journal>>
    BY <1>6 DEF At, Lands
  <2>. QED BY <1>1, <2>1, <2>2, <2>3, CommitLands
<1>7. CASE At("preserve", 1, "preserve")
  <2>1. /\ TargetIn(tx) /\ journal # NoJournal
        /\ journal.source = tx.source /\ journal.target = tx.target
        /\ journal.sourceLogin = tx.sourceLogin /\ Others(tx, journal.before.kept)
    BY <1>7 DEF At, SwitchInv, OpAgrees, Stage
  <2>2. journal' = tx /\ UNCHANGED <<auth, vault>>
    BY <1>7 DEF At, Lands
  <2>. QED BY <1>1, <2>1, <2>2, PreserveLands
<1>8. CASE \/ At("switch", 6, "clear") \/ At("undo", 3, "clear") \/ At("rollback", 3, "clear")
           \/ At("withdraw", 2, "clear") \/ At("finish", 2, "clear") \/ At("preserve", 4, "clear")
  <2>1. /\ SameTx(journal, tx)
        /\ \/ (SourceIn(tx) \/ InUse(tx.source)) /\ vault = tx.before
           \/ (TargetIn(tx) \/ InUse(tx.target)) /\ vault = tx.after
    BY <1>8 DEF At, SwitchInv, OpAgrees, Stage
  <2>2. \/ InUse(tx.source) /\ vault = tx.before
        \/ InUse(tx.target) /\ vault = tx.after
    BY <1>1, <2>1, SourceLogin, TargetLogin DEF InUse
  <2>3. journal' = NoJournal /\ UNCHANGED <<auth, vault>>
    BY <1>8 DEF At, Lands
  <2>. QED BY <1>1, <2>1, <2>2, <2>3, ClearLands
<1>. QED BY <1>2, <1>3, <1>4, <1>5, <1>6, <1>7, <1>8, PlanSteps DEF SwitchInv

LEMMA LandsTyped ==
    ASSUME TypeOK, Writing, Lands(Step)
    PROVE  /\ auth' \in [id : Identities, login : Logins] \cup {NoLogin}
           /\ vault' \in Vaults
           /\ journal' \in Journals \cup {NoJournal}
<1>. PICK tx : tx = op.tx
  OBVIOUS
<1>1. tx \in Journals
  BY DEF TypeOK, Writing
<1>2. /\ [id |-> tx.target, login |-> tx.targetLogin] \in [id : Identities, login : Logins]
      /\ [id |-> tx.source, login |-> tx.sourceLogin] \in [id : Identities, login : Logins]
  BY <1>1 DEF Journals, Identities
<1>3. \A phase \in Phases : [tx EXCEPT !.phase = phase] \in Journals
  BY <1>1 DEF Journals
<1>4. tx.before \in Vaults /\ tx.after \in Vaults
  BY <1>1 DEF Journals
<1>. QED BY <1>1, <1>2, <1>3, <1>4 DEF TypeOK, Lands, Phases

-----------------------------------------------------------------------------
(* The invariant of the switch.                                              *)

\* The journal on disk differs from the operation's by its phase at most.
LEMMA Noted ==
    ASSUME NEW tx \in Journals, NEW phase \in Phases
    PROVE  SameTx([tx EXCEPT !.phase = phase], tx) /\ SameTx(tx, tx)
<1>1. [tx EXCEPT !.phase = phase] \in Journals
  BY DEF Journals
<1>. QED BY <1>1, NothingAssumption DEF SameTx, Journals

\* After a write that others follow, the files are as the next one expects them.
LEMMA StageMoves ==
    ASSUME TypeOK, OpAgrees, Writing, Lands(Step), More, op' = [op EXCEPT !.step = @ + 1]
    PROVE  OpAgrees'
<1>. PICK tx : tx = op.tx
  OBVIOUS
<1>1. /\ op'.plan = op.plan /\ op'.step = op.step + 1 /\ op'.tx = tx
      /\ tx \in Journals /\ GoodTx(tx) /\ Stage(tx)
  BY DEF TypeOK, OpAgrees, Writing
<1>2. SameTx(tx, tx) /\ \A phase \in Phases : SameTx([tx EXCEPT !.phase = phase], tx)
  BY <1>1, Noted DEF Phases
<1>3. Stage(tx)'
  <2>1. CASE At("switch", 1, "prepare")
    BY <1>1, <1>2, <2>1 DEF At, Stage, Lands, SourceIn, TargetIn
  <2>2. CASE At("switch", 2, "replace")
    BY <1>1, <2>2 DEF At, Stage, Lands, SourceIn, TargetIn
  <2>3. CASE At("switch", 3, "note")
    <3>1. journal' = [tx EXCEPT !.phase = "auth-replaced"] /\ UNCHANGED <<auth, vault>>
      BY <2>3 DEF At, Lands
    <3>2. SameTx(journal', tx)
      BY <1>2, <3>1 DEF Phases
    <3>. QED BY <1>1, <2>3, <3>1, <3>2 DEF At, Stage, SourceIn, TargetIn
  <2>4. CASE At("switch", 4, "commit")
    BY <1>1, <2>4 DEF At, Stage, Lands, SourceIn, TargetIn
  <2>5. CASE At("switch", 5, "seal")
    <3>1. journal' = [tx EXCEPT !.phase = "vault-committed"] /\ UNCHANGED <<auth, vault>>
      BY <2>5 DEF At, Lands
    <3>2. SameTx(journal', tx)
      BY <1>2, <3>1 DEF Phases
    <3>. QED BY <1>1, <2>5, <3>1, <3>2 DEF At, Stage, SourceIn, TargetIn
  <2>6. CASE At("undo", 1, "restore") \/ At("rollback", 1, "restore")
    BY <1>1, <2>6 DEF At, Stage, Lands, SourceIn, TargetIn
  <2>7. CASE At("undo", 2, "unwind") \/ At("rollback", 2, "unwind")
    BY <1>1, <2>7 DEF At, Stage, Lands, SourceIn, TargetIn
  <2>8. CASE At("withdraw", 1, "unwind") \/ At("finish", 1, "commit")
    BY <1>1, <2>8 DEF At, Stage, Lands, InUse
  <2>9. CASE At("preserve", 1, "preserve") \/ At("preserve", 2, "keep") \/ At("preserve", 3, "restore")
    BY <1>1, <1>2, <2>9 DEF At, Stage, Lands, SourceIn, TargetIn, SameTx
  <2>. QED BY <2>1, <2>2, <2>3, <2>4, <2>5, <2>6, <2>7, <2>8, <2>9, PlanSteps
<1>4. GoodTx(tx)'
  BY <1>1 DEF GoodTx
<1>5. op'.plan \notin Reading
  BY <1>1 DEF Writing, Plans, Reading
<1>. QED BY <1>1, <1>3, <1>4, <1>5 DEF OpAgrees, Reading

LEMMA IdleAgrees ==
    ASSUME NEW how \in Resting, op' = Idle(how)
    PROVE  OpAgrees'
BY DEF Idle, Resting, OpAgrees, Writing, Plans

LEMMA WriteAgrees ==
    ASSUME TypeOK, OpAgrees, Write
    PROVE  OpAgrees'
<1>1. CASE More
  BY <1>1, StageMoves DEF Write, More
<1>2. CASE ~More
  <2>1. Step = "clear"
    BY <1>2, PlanSteps DEF Write, At
  <2>2. journal' = NoJournal /\ op' = Ended
    BY <1>2, <2>1 DEF Write, Lands, More
  <2>3. CASE op' = Idle("failed") \/ op' = Idle("done")
    BY <2>3, IdleAgrees DEF Resting
  <2>4. CASE op' = [op EXCEPT !.plan = "read", !.step = 0, !.tx = NoJournal]
    BY <2>2, <2>4 DEF TypeOK, OpAgrees, Writing, Plans
  <2>. QED BY <2>2, <2>3, <2>4 DEF Ended
<1>. QED BY <1>1, <1>2

LEMMA FailAgrees ==
    ASSUME TypeOK, OpAgrees, NEW landed \in BOOLEAN, Fail(landed)
    PROVE  OpAgrees'
<1>. PICK tx : tx = op.tx
  OBVIOUS
<1>1. CASE op.plan = "switch" /\ Step \in {"replace", "note", "commit"}
  <2>1. /\ op' = [op EXCEPT !.plan = "undo", !.step = 1]
        /\ tx \in Journals /\ GoodTx(tx) /\ Stage(tx)
    BY <1>1 DEF Fail, OpAgrees, GoodTx
  <2>2. op'.plan = "undo" /\ op'.step = 1 /\ op'.tx = tx
    BY <2>1 DEF TypeOK
  <2>3. op.step \in {2, 3, 4}
    BY <1>1 DEF TypeOK, Step, Plans
  <2>4. SameTx(journal, tx) /\ (SourceIn(tx) \/ TargetIn(tx))
    BY <1>1, <2>1, <2>3 DEF Stage
  <2>5. SameTx(journal', tx) /\ (SourceIn(tx)' \/ TargetIn(tx)')
    <3>1. CASE UNCHANGED <<auth, vault, journal>>
      BY <2>4, <3>1 DEF SourceIn, TargetIn
    <3>2. CASE Lands(Step)
      <4>1. CASE Step = "note"
        <5>1. journal' = [tx EXCEPT !.phase = "auth-replaced"] /\ auth' = auth
          BY <3>2, <4>1 DEF Lands
        <5>. QED BY <2>1, <2>4, <5>1, Noted DEF Phases, SourceIn, TargetIn
      <4>2. CASE Step = "replace" \/ Step = "commit"
        BY <2>4, <3>2, <4>2 DEF Lands, SourceIn, TargetIn
      <4>. QED BY <1>1, <4>1, <4>2
    <3>. QED BY <3>1, <3>2 DEF Fail
  <2>6. GoodTx(tx)'
    BY <2>1 DEF GoodTx
  <2>. QED BY <2>2, <2>5, <2>6 DEF OpAgrees, Stage, SameTx
<1>2. CASE ~(op.plan = "switch" /\ Step \in {"replace", "note", "commit"})
  BY <1>2, IdleAgrees DEF Fail, Resting
<1>. QED BY <1>1, <1>2

LEMMA InitInv == Init => SwitchInv
<1>. SUFFICES ASSUME Init
              PROVE  SwitchInv
  OBVIOUS
<1>1. PICK p \in Profiles, imported \in SUBSET Profiles :
        /\ auth = [id |-> p, login |-> 1]
        /\ vault = [active |-> p,
                    kept |-> [q \in Profiles |-> IF q \in imported \ {p} THEN 1 ELSE 0]]
        /\ journal = NoJournal /\ op = Idle("done")
        /\ issued = [i \in Identities |-> 1]
  BY DEF Init
<1>2. 1 \in Logins /\ 0 \in 0..MaxLogins /\ 1 \in 0..MaxLogins
  BY SwitchAssumption DEF Logins
<1>3. TypeOK
  BY <1>1, <1>2 DEF TypeOK, Vaults, Identities, Idle, Resting, Reading, Plans
<1>4. OpAgrees
  BY <1>1 DEF OpAgrees, Idle, Writing, Plans
<1>5. FilesAgree
  BY <1>1 DEF FilesAgree
<1>6. CopiesAge
  BY <1>1 DEF CopiesAge, Copy, Identities
<1>. QED BY <1>3, <1>4, <1>5, <1>6 DEF SwitchInv

\* The transaction a switch begins with, and the one a preserving rollback does.
LEMMA GoodTransaction ==
    ASSUME TypeOK, FilesAgree, journal = NoJournal, InUse(vault.active),
           NEW t \in Profiles, vault.kept[t] # 0
    PROVE  GoodTx(Transaction(t))
<1>. DEFINE tx == Transaction(t)
<1>1. /\ vault \in Vaults /\ vault.kept \in [Profiles -> 0..MaxLogins]
      /\ auth.id = vault.active /\ auth.id \in Profiles /\ auth.login \in Logins
      /\ vault.kept[t] \in Logins /\ vault.kept[auth.id] = 0 /\ auth.id # t
  BY SwitchAssumption DEF TypeOK, InUse, Vaults, Logins, FilesAgree
<1>2. auth.login \in 0..MaxLogins /\ 0 \in 0..MaxLogins
  BY <1>1, SwitchAssumption DEF Logins
<1>3. tx.after \in Vaults
  BY <1>1, <1>2 DEF Transaction, Vaults
<1>4. tx \in Journals
  BY <1>1, <1>3 DEF Transaction, Journals, Phases
<1>. QED BY <1>1, <1>4 DEF Transaction, GoodTx

LEMMA GoodPreserving ==
    ASSUME NEW tx, GoodTx(tx), auth.login \in Logins
    PROVE  /\ GoodTx(Preserving(tx))
           /\ Preserving(tx).source = tx.source /\ Preserving(tx).target = tx.target
           /\ Preserving(tx).sourceLogin = tx.sourceLogin
           /\ Preserving(tx).targetLogin = auth.login
           /\ Others(Preserving(tx), tx.before.kept)
<1>. DEFINE before == [tx.before EXCEPT !.kept[tx.target] = auth.login]
<1>1. /\ tx \in Journals /\ tx.before \in Vaults /\ tx.before.kept \in [Profiles -> 0..MaxLogins]
      /\ tx.source \in Profiles /\ tx.target \in Profiles /\ tx.source # tx.target
  BY DEF GoodTx, Journals, Vaults
<1>2. /\ before \in Vaults /\ before.active = tx.before.active
      /\ before.kept[tx.target] = auth.login
      /\ \A q \in Profiles \ {tx.target} : before.kept[q] = tx.before.kept[q]
  BY <1>1, SwitchAssumption DEF Vaults, Logins
<1>3. Preserving(tx) = [tx EXCEPT !.targetLogin = auth.login, !.before = before]
  BY <1>1 DEF Preserving, Journals, Vaults
<1>. HIDE DEF before
<1>4. /\ Preserving(tx) \in Journals
      /\ Preserving(tx).source = tx.source /\ Preserving(tx).target = tx.target
      /\ Preserving(tx).sourceLogin = tx.sourceLogin
      /\ Preserving(tx).targetLogin = auth.login
      /\ Preserving(tx).before = before /\ Preserving(tx).after = tx.after
  BY <1>1, <1>2, <1>3 DEF Journals
<1>. QED BY <1>1, <1>2, <1>4 DEF GoodTx, Others

\* The steps that write nothing leave the files, and what is kept of them, alone.
LEMMA StandStill ==
    ASSUME UNCHANGED <<auth, vault, journal, issued>>
    PROVE  /\ FilesAgree => FilesAgree'
           /\ CopiesAge => CopiesAge'
           /\ \A i \in Identities : Kept(i)' = Kept(i)
           /\ Known' = Known
BY DEF FilesAgree, GoodTx, Others, CopiesAge, Copy, Kept, InUse, Known

FilesTyped ==
    /\ auth' \in [id : Identities, login : Logins] \cup {NoLogin}
    /\ vault' \in Vaults
    /\ journal' \in Journals \cup {NoJournal}
    /\ issued' \in [Identities -> 0..MaxLogins]

\* The operation goes on with a write of a plan.
LEMMA PlanTyped ==
    ASSUME TypeOK, FilesTyped,
           NEW plan \in {"switch", "undo", "rollback", "withdraw", "finish", "preserve"},
           NEW step \in DOMAIN Plans[plan], NEW tx \in Journals,
           op' = [op EXCEPT !.plan = plan, !.step = step, !.tx = tx]
    PROVE  TypeOK'
<1>1. /\ plan \in DOMAIN Plans /\ plan \notin Reading
      /\ step \in 0..6
  BY DEF Plans, Reading
<1>2. /\ op'.plan = plan /\ op'.step = step /\ op'.tx = tx /\ op'.target = op.target
      /\ op' \in [plan : DOMAIN Plans \cup Reading \cup Resting, step : 0..6,
                  tx : Journals \cup {NoJournal}, target : Profiles \cup {NoProfile}]
  BY <1>1 DEF TypeOK
<1>3. (op.plan = "read" => op.target \in Profiles)'
      /\ (op.plan \in {"inspect", "inspect-rollback"} => op.tx \in Journals)'
  BY <1>1, <1>2 DEF Reading
<1>. QED BY <1>1, <1>2, <1>3 DEF TypeOK, FilesTyped

LEMMA ReadKeeps ==
    ASSUME SwitchInv, Read
    PROVE  SwitchInv'
<1>1. PICK t \in Profiles : t = op.target
  BY DEF SwitchInv, TypeOK, Read
<1>2. PICK tx : tx = Transaction(t)
  OBVIOUS
<1>3. /\ journal = NoJournal /\ InUse(vault.active) /\ vault.kept[t] # 0
      /\ op' = [op EXCEPT !.plan = "switch", !.step = 1, !.tx = tx]
      /\ UNCHANGED <<auth, vault, journal, issued>>
  BY <1>1, <1>2 DEF SwitchInv, OpAgrees, Read, Start
<1>4. GoodTx(tx) /\ tx \in Journals
  BY <1>1, <1>2, <1>3, GoodTransaction DEF SwitchInv, GoodTx
<1>5. op'.plan = "switch" /\ op'.step = 1 /\ op'.tx = tx /\ op'.target = op.target
  BY <1>3 DEF SwitchInv, TypeOK
<1>6. TypeOK'
  <2>1. FilesTyped /\ 1 \in DOMAIN Plans["switch"]
    BY <1>3 DEF SwitchInv, TypeOK, FilesTyped, Plans
  <2>. QED BY <1>3, <1>4, <2>1, PlanTyped DEF SwitchInv
<1>7. OpAgrees'
  <2>1. SourceIn(tx) /\ vault = tx.before
    BY <1>2, <1>3 DEF SourceIn, Transaction, InUse, SwitchInv, TypeOK
  <2>2. Stage(tx)'
    BY <1>3, <1>5, <2>1 DEF Stage, SourceIn
  <2>3. GoodTx(tx)'
    BY <1>4 DEF GoodTx
  <2>. QED BY <1>5, <2>2, <2>3 DEF OpAgrees
<1>. QED BY <1>3, <1>6, <1>7, StandStill DEF SwitchInv

LEMMA InspectKeeps ==
    ASSUME SwitchInv, Inspect
    PROVE  SwitchInv'
<1>1. PICK tx : tx = op.tx
  OBVIOUS
<1>2. /\ tx = journal /\ tx \in Journals /\ journal # NoJournal /\ GoodTx(tx)
      /\ Others(tx, vault.kept) /\ auth # NoLogin /\ auth.login \in Logins
      /\ UNCHANGED <<auth, vault, journal, issued>>
  BY <1>1, NothingAssumption DEF SwitchInv, OpAgrees, Inspect, TypeOK, FilesAgree, InUse
<1>3. PICK plan \in {"withdraw", "finish", "rollback", "preserve"}, after \in {tx, Preserving(tx)} :
        /\ op' = [op EXCEPT !.plan = plan, !.step = 1, !.tx = after]
        /\ plan # "preserve" => after = tx
        /\ plan = "withdraw" => InUse(tx.source)
        /\ plan = "finish" => InUse(tx.target)
        /\ plan = "rollback" => InUse(tx.target) /\ auth.login = tx.targetLogin
        /\ plan = "preserve" => InUse(tx.target) /\ after = Preserving(tx)
  BY <1>1 DEF Inspect, Start
<1>4. op'.plan = plan /\ op'.step = 1 /\ op'.tx = after /\ op'.target = op.target
  BY <1>3 DEF SwitchInv, TypeOK
<1>5. GoodTx(after) /\ after \in Journals
  BY <1>2, <1>3, GoodPreserving DEF GoodTx
<1>6. TypeOK'
  <2>1. FilesTyped /\ 1 \in DOMAIN Plans[plan]
    BY <1>2, <1>3 DEF SwitchInv, TypeOK, FilesTyped, Plans
  <2>. QED BY <1>3, <1>5, <2>1, PlanTyped DEF SwitchInv
<1>7. OpAgrees'
  <2>1. plan = "rollback" => TargetIn(tx)
    BY <1>2, <1>3 DEF TargetIn, InUse, SwitchInv, TypeOK
  <2>2. plan = "preserve" => /\ TargetIn(after) /\ Others(after, journal.before.kept)
                             /\ journal.source = after.source /\ journal.target = after.target
                             /\ journal.sourceLogin = after.sourceLogin
    BY <1>2, <1>3, GoodPreserving DEF TargetIn, InUse, SwitchInv, TypeOK
  <2>3. Stage(after)'
    BY <1>2, <1>3, <1>4, <2>1, <2>2 DEF Stage, SameTx, TargetIn, InUse
  <2>4. GoodTx(after)'
    BY <1>5 DEF GoodTx
  <2>. QED BY <1>3, <1>4, <2>3, <2>4 DEF OpAgrees
<1>. QED BY <1>2, <1>6, <1>7, StandStill DEF SwitchInv

LEMMA IdleTyped ==
    ASSUME TypeOK, NEW how \in Resting, op' = Idle(how),
           auth' \in [id : Identities, login : Logins] \cup {NoLogin},
           vault' \in Vaults, journal' \in Journals \cup {NoJournal}, issued' = issued
    PROVE  TypeOK'
<1>1. /\ op'.plan = how /\ op'.step = 0 /\ op'.tx = NoJournal /\ op'.target = NoProfile
      /\ op' \in [plan : DOMAIN Plans \cup Reading \cup Resting, step : 0..6,
                  tx : Journals \cup {NoJournal}, target : Profiles \cup {NoProfile}]
  BY DEF Idle
<1>. QED BY <1>1 DEF TypeOK, Resting, Reading, Plans

LEMMA WriteKeeps ==
    ASSUME SwitchInv, Write
    PROVE  SwitchInv' /\ LandsWell
<1>1. LandsWell /\ OpAgrees'
  BY Landing, WriteAgrees DEF SwitchInv, Write
<1>2. /\ auth' \in [id : Identities, login : Logins] \cup {NoLogin}
      /\ vault' \in Vaults /\ journal' \in Journals \cup {NoJournal} /\ issued' = issued
  BY LandsTyped DEF SwitchInv, Write
<1>3. TypeOK'
  <2>1. CASE op' = Idle("failed") \/ op' = Idle("done")
    BY <1>2, <2>1, IdleTyped DEF Resting, SwitchInv
  <2>2. CASE More /\ op' = [op EXCEPT !.step = @ + 1]
    <3>1. /\ op'.plan = op.plan /\ op'.step = op.step + 1 /\ op'.tx = op.tx
          /\ op'.target = op.target
      BY <2>2 DEF SwitchInv, TypeOK
    <3>2. op'.step \in DOMAIN Plans[op.plan] /\ op'.step \in 0..6
      BY <2>2, <3>1, PlanSteps DEF SwitchInv, Write, At, Plans
    <3>3. op' \in [plan : DOMAIN Plans \cup Reading \cup Resting, step : 0..6,
                   tx : Journals \cup {NoJournal}, target : Profiles \cup {NoProfile}]
      BY <2>2, <3>1, <3>2 DEF SwitchInv, TypeOK
    <3>. QED BY <1>2, <3>1, <3>2, <3>3 DEF SwitchInv, TypeOK
  <2>3. CASE op.target # NoProfile /\ op' = [op EXCEPT !.plan = "read", !.step = 0, !.tx = NoJournal]
    <3>1. /\ op'.plan = "read" /\ op'.step = 0 /\ op'.tx = NoJournal /\ op'.target = op.target
          /\ op.target \in Profiles
      BY <2>3 DEF SwitchInv, TypeOK
    <3>2. op' \in [plan : DOMAIN Plans \cup Reading \cup Resting, step : 0..6,
                   tx : Journals \cup {NoJournal}, target : Profiles \cup {NoProfile}]
      <4>1. "read" \in Reading /\ 0 \in 0..6
        BY DEF Reading
      <4>. QED BY <2>3, <4>1 DEF SwitchInv, TypeOK
    <3>3. op'.plan \notin DOMAIN Plans
      BY <3>1 DEF Plans
    <3>. QED BY <1>2, <3>1, <3>2, <3>3 DEF SwitchInv, TypeOK
  <2>. QED BY <2>1, <2>2, <2>3 DEF Write, Ended, More
<1>. QED BY <1>1, <1>3 DEF SwitchInv, LandsWell

LEMMA FailKeeps ==
    ASSUME SwitchInv, NEW landed \in BOOLEAN, Fail(landed)
    PROVE  SwitchInv' /\ (UNCHANGED <<auth, vault, journal, issued>> \/ LandsWell)
<1>1. UNCHANGED <<auth, vault, journal, issued>> \/ (Lands(Step) /\ issued' = issued)
  BY DEF Fail
<1>2. UNCHANGED <<auth, vault, journal, issued>> \/ LandsWell
  BY <1>1, Landing DEF Fail
<1>3. FilesAgree' /\ CopiesAge'
  BY <1>2, StandStill DEF LandsWell, SwitchInv
<1>4. /\ auth' \in [id : Identities, login : Logins] \cup {NoLogin}
      /\ vault' \in Vaults /\ journal' \in Journals \cup {NoJournal} /\ issued' = issued
  BY <1>1, LandsTyped DEF SwitchInv, Fail, TypeOK
<1>5. TypeOK'
  <2>1. CASE op' = Idle("failed")
    BY <1>4, <2>1, IdleTyped DEF Resting, SwitchInv
  <2>2. CASE op' = [op EXCEPT !.plan = "undo", !.step = 1]
    <3>1. op.tx \in Journals /\ 1 \in DOMAIN Plans["undo"] /\ FilesTyped
      BY <1>4 DEF SwitchInv, TypeOK, Fail, Writing, FilesTyped, Plans
    <3>2. op' = [op EXCEPT !.plan = "undo", !.step = 1, !.tx = op.tx]
      BY <2>2 DEF SwitchInv, TypeOK
    <3>. QED BY <3>1, <3>2, PlanTyped DEF SwitchInv
  <2>. QED BY <2>1, <2>2 DEF Fail
<1>6. OpAgrees'
  BY FailAgrees DEF SwitchInv
<1>. QED BY <1>2, <1>3, <1>5, <1>6 DEF SwitchInv

\* An operation begins, is refused or is cut off: the files stay as they are.
LEMMA BeginKeeps ==
    ASSUME SwitchInv,
           \/ \E t \in Profiles : Switch(t)
           \/ \E rollback \in BOOLEAN : Recover(rollback)
           \/ RecoverNothing \/ Refuse \/ Crash
    PROVE  SwitchInv' /\ UNCHANGED <<auth, vault, journal, issued>>
<1>1. UNCHANGED <<auth, vault, journal, issued>>
  BY DEF Switch, Recover, RecoverNothing, Refuse, Crash
<1>2. FilesAgree' /\ CopiesAge'
  BY <1>1, StandStill DEF SwitchInv
<1>3. CASE \E how \in Resting : op' = Idle(how)
  BY <1>1, <1>2, <1>3, IdleTyped, IdleAgrees DEF SwitchInv, TypeOK
<1>4. CASE \E plan \in Reading, tx \in Journals \cup {NoJournal}, target \in Profiles \cup {NoProfile} :
             /\ op' = [plan |-> plan, step |-> 0, tx |-> tx, target |-> target]
             /\ tx = journal
             /\ plan = "read" => target \in Profiles /\ journal = NoJournal
             /\ plan # "read" => journal # NoJournal
  <2>1. PICK plan \in Reading, tx \in Journals \cup {NoJournal}, target \in Profiles \cup {NoProfile} :
             /\ op' = [plan |-> plan, step |-> 0, tx |-> tx, target |-> target]
             /\ tx = journal
             /\ plan = "read" => target \in Profiles /\ journal = NoJournal
             /\ plan # "read" => journal # NoJournal
    BY <1>4
  <2>2. op'.plan = plan /\ op'.step = 0 /\ op'.tx = tx /\ op'.target = target /\ 0 \in 0..6
    BY <2>1
  <2>3. plan \notin DOMAIN Plans
    BY DEF Plans, Reading
  <2>4. op' \in [plan : DOMAIN Plans \cup Reading \cup Resting, step : 0..6,
                 tx : Journals \cup {NoJournal}, target : Profiles \cup {NoProfile}]
    BY <2>1, <2>2
  <2>5. TypeOK'
    BY <1>1, <2>1, <2>2, <2>3, <2>4 DEF SwitchInv, TypeOK
  <2>6. OpAgrees'
    BY <1>1, <2>1, <2>2, <2>3 DEF OpAgrees, Writing
  <2>. QED BY <1>1, <1>2, <2>5, <2>6 DEF SwitchInv
<1>5. \/ \E how \in Resting : op' = Idle(how)
      \/ \E plan \in Reading, tx \in Journals \cup {NoJournal}, target \in Profiles \cup {NoProfile} :
             /\ op' = [plan |-> plan, step |-> 0, tx |-> tx, target |-> target]
             /\ tx = journal
             /\ plan = "read" => target \in Profiles /\ journal = NoJournal
             /\ plan # "read" => journal # NoJournal
  <2>1. CASE RecoverNothing \/ Refuse \/ Crash
    BY <2>1 DEF RecoverNothing, Refuse, Crash, Resting
  <2>2. CASE \E t \in Profiles : Switch(t)
    BY <2>2 DEF Switch, SwitchInv, TypeOK, Reading
  <2>3. CASE \E rollback \in BOOLEAN : Recover(rollback)
    BY <2>3 DEF Recover, SwitchInv, TypeOK, Reading
  <2>. QED BY <2>1, <2>2, <2>3
<1>. QED BY <1>1, <1>3, <1>4, <1>5

LEMMA ImportKeeps ==
    ASSUME SwitchInv, NEW q \in Profiles, Import(q)
    PROVE  SwitchInv'
<1>1. /\ issued[q] \in 0..MaxLogins /\ issued[q] < MaxLogins /\ vault.active \in Profiles
      /\ vault \in Vaults /\ vault.kept \in [Profiles -> 0..MaxLogins] /\ q \in Identities
      /\ journal = NoJournal /\ auth # NoLogin /\ auth.id = vault.active /\ q # vault.active
      /\ UNCHANGED <<auth, journal, op>>
  BY DEF SwitchInv, TypeOK, Import, InUse, Vaults, Identities
<1>2. PICK n \in 1..MaxLogins :
        /\ n = issued[q] + 1
        /\ issued' = [issued EXCEPT ![q] = n]
        /\ vault' = [vault EXCEPT !.kept[q] = n]
  <2>1. issued[q] + 1 \in 1..MaxLogins
    BY <1>1, SwitchAssumption
  <2>2. issued' = [issued EXCEPT ![q] = issued[q] + 1] /\ issued'[q] = issued[q] + 1
    BY <1>1 DEF Import, SwitchInv, TypeOK
  <2>. QED BY <2>1, <2>2 DEF Import
<1>3. /\ vault' \in Vaults /\ vault'.active = vault.active
      /\ vault'.kept = [vault.kept EXCEPT ![q] = n]
  BY <1>1, <1>2, SwitchAssumption DEF Vaults
<1>4. TypeOK'
  BY <1>1, <1>2, <1>3, SwitchAssumption DEF SwitchInv, TypeOK
<1>5. FilesAgree'
  BY <1>1, <1>3 DEF SwitchInv, FilesAgree
<1>6. \A i \in Identities : Copy(i)' = IF i = q THEN n ELSE Copy(i)
  BY <1>1, <1>3 DEF Copy
<1>7. \A i \in Identities : issued[i] \in Nat /\ issued'[i] = IF i = q THEN n ELSE issued[i]
  BY <1>2, SwitchAssumption DEF SwitchInv, TypeOK
<1>8. CopiesAge'
  BY <1>1, <1>2, <1>6, <1>7 DEF SwitchInv, CopiesAge, Identities
<1>9. OpAgrees'
  <2>1. Rests /\ op' = op
    BY DEF Import
  <2>. QED BY <2>1 DEF OpAgrees, Rests, Resting, Writing, Plans
<1>. QED BY <1>4, <1>5, <1>8, <1>9 DEF SwitchInv

LEMMA RefreshKeeps ==
    ASSUME SwitchInv, RefreshLogin
    PROVE  SwitchInv'
<1>1. /\ auth # NoLogin /\ auth \in [id : Identities, login : Logins]
      /\ issued[auth.id] \in 0..MaxLogins /\ issued[auth.id] < MaxLogins
      /\ UNCHANGED <<vault, journal, op>>
  BY DEF SwitchInv, TypeOK, RefreshLogin
<1>2. PICK n \in Logins :
        /\ n = issued[auth.id] + 1
        /\ issued' = [issued EXCEPT ![auth.id] = n]
        /\ auth' = [auth EXCEPT !.login = n]
  <2>1. issued[auth.id] + 1 \in Logins
    BY <1>1, SwitchAssumption DEF Logins
  <2>2. /\ issued' = [issued EXCEPT ![auth.id] = issued[auth.id] + 1]
        /\ issued'[auth.id] = issued[auth.id] + 1
    BY <1>1 DEF RefreshLogin, SwitchInv, TypeOK
  <2>. QED BY <2>1, <2>2 DEF RefreshLogin
<1>3. /\ auth' \in [id : Identities, login : Logins] /\ auth' # NoLogin
      /\ auth'.id = auth.id /\ auth'.login = n
  BY <1>1, <1>2, NothingAssumption
<1>4. TypeOK'
  BY <1>1, <1>2, <1>3, SwitchAssumption DEF SwitchInv, TypeOK, Logins
<1>5. FilesAgree'
  BY <1>1 DEF SwitchInv, FilesAgree, Others
<1>6. \A i \in Identities : Copy(i)' = Copy(i)
  BY <1>1 DEF Copy
<1>7. \A i \in Identities : issued[i] \in Nat /\ issued'[i] = IF i = auth.id THEN n ELSE issued[i]
  BY <1>2, SwitchAssumption DEF SwitchInv, TypeOK
<1>8. CopiesAge'
  <2>1. \A i \in Identities : Copy(i) \in Nat
    BY SwitchAssumption DEF SwitchInv, TypeOK, Copy, Vaults, Journals, Logins
  <2>. QED BY <1>1, <1>2, <1>3, <1>6, <1>7, <2>1, SwitchAssumption DEF SwitchInv, CopiesAge, Logins
<1>9. OpAgrees'
  <2>1. op.plan \notin {"switch", "undo", "rollback", "preserve"}
    BY DEF RefreshLogin, Rests, Resting
  <2>2. Writing => op.plan \in {"withdraw", "finish"}
    BY <2>1 DEF Writing, Plans
  <2>3. Writing' => Stage(op.tx)'
    BY <1>1, <1>3, <2>1, <2>2 DEF SwitchInv, OpAgrees, Writing, Stage, InUse
  <2>. QED BY <1>1, <2>3 DEF SwitchInv, OpAgrees, Writing, GoodTx
<1>. QED BY <1>4, <1>5, <1>8, <1>9 DEF SwitchInv

LEMMA SignInKeeps ==
    ASSUME SwitchInv, NEW i \in Identities, SignIn(i)
    PROVE  SwitchInv'
<1>1. issued[i] \in 0..MaxLogins /\ issued[i] < MaxLogins /\ UNCHANGED <<vault, journal, op>>
  BY DEF SwitchInv, TypeOK, SignIn
<1>2. PICK n \in Logins :
        /\ n = issued[i] + 1
        /\ issued' = [issued EXCEPT ![i] = n]
        /\ auth' = [id |-> i, login |-> n]
  <2>1. issued[i] + 1 \in Logins
    BY <1>1, SwitchAssumption DEF Logins
  <2>2. issued' = [issued EXCEPT ![i] = issued[i] + 1] /\ issued'[i] = issued[i] + 1
    BY <1>1 DEF SignIn, SwitchInv, TypeOK
  <2>. QED BY <2>1, <2>2 DEF SignIn
<1>3. auth' \in [id : Identities, login : Logins] /\ auth' # NoLogin
  BY <1>2, NothingAssumption
<1>4. TypeOK'
  BY <1>1, <1>2, <1>3, SwitchAssumption DEF SwitchInv, TypeOK, Logins
<1>5. FilesAgree'
  BY <1>1 DEF SwitchInv, FilesAgree, Others
<1>6. \A j \in Identities : Copy(j)' = Copy(j) /\ Copy(j) \in Nat
  BY <1>1, SwitchAssumption DEF SwitchInv, TypeOK, Copy, Vaults, Journals, Logins
<1>7. \A j \in Identities : issued[j] \in Nat /\ issued'[j] = IF j = i THEN n ELSE issued[j]
  BY <1>2, SwitchAssumption DEF SwitchInv, TypeOK
<1>8. CopiesAge'
  BY <1>2, <1>3, <1>6, <1>7, SwitchAssumption DEF SwitchInv, CopiesAge, Logins
<1>9. OpAgrees'
  BY <1>1 DEF SignIn, OpAgrees, Rests, Resting, Writing, Plans
<1>. QED BY <1>4, <1>5, <1>8, <1>9 DEF SwitchInv

LEMMA SignOutKeeps ==
    ASSUME SwitchInv, SignOut
    PROVE  SwitchInv'
<1>1. TypeOK'
  BY DEF SwitchInv, TypeOK, SignOut
<1>2. FilesAgree' /\ CopiesAge'
  BY DEF SwitchInv, FilesAgree, GoodTx, Others, CopiesAge, Copy, SignOut
<1>3. OpAgrees'
  BY DEF SignOut, OpAgrees, Rests, Resting, Writing, Plans
<1>. QED BY <1>1, <1>2, <1>3 DEF SwitchInv

LEMMA NextKeeps == SwitchInv /\ [Next]_switchVars => SwitchInv'
<1>. SUFFICES ASSUME SwitchInv, [Next]_switchVars
              PROVE  SwitchInv'
  OBVIOUS
<1>1. CASE Operate
  BY <1>1, ReadKeeps, InspectKeeps, BeginKeeps, WriteKeeps, FailKeeps DEF Operate
<1>2. CASE Outside
  BY <1>2, ImportKeeps, RefreshKeeps, SignInKeeps, SignOutKeeps DEF Outside
<1>3. CASE \/ \E t \in Profiles : Switch(t)
           \/ \E rollback \in BOOLEAN : Recover(rollback)
           \/ RecoverNothing \/ Crash
  BY <1>3, BeginKeeps
<1>4. CASE UNCHANGED switchVars
  <2>1. TypeOK'
    BY <1>4 DEF SwitchInv, TypeOK, switchVars
  <2>2. FilesAgree' /\ CopiesAge'
    BY <1>4, StandStill DEF SwitchInv, switchVars
  <2>3. OpAgrees'
    BY <1>4 DEF SwitchInv, OpAgrees, switchVars, Writing, Stage, SameTx, SourceIn, TargetIn,
                InUse, Others, GoodTx
  <2>. QED BY <2>1, <2>2, <2>3 DEF SwitchInv
<1>. QED BY <1>1, <1>2, <1>3, <1>4 DEF Next

-----------------------------------------------------------------------------
(* What a step of the switch is to the exchange of logins.                   *)

Active == IF auth = NoLogin THEN NoLogin ELSE auth.id

KeptOf == [i \in Identities |-> Kept(i)]

LEMMA OneChanges ==
    ASSUME NEW S, NEW s \in S, NEW f, NEW g, DOMAIN f = S, DOMAIN g = S,
           f = [i \in S |-> f[i]], g = [i \in S |-> g[i]],
           \A i \in S \ {s} : g[i] = f[i]
    PROVE  g = [f EXCEPT ![s] = g[s]]
OBVIOUS

LEMMA KeptOfIs ==
    /\ \A i \in Identities : KeptOf[i] = Kept(i) /\ KeptOf'[i] = Kept(i)'
    /\ DOMAIN KeptOf = Identities /\ KeptOf = [i \in Identities |-> KeptOf[i]]
    /\ DOMAIN KeptOf' = Identities /\ KeptOf' = [i \in Identities |-> KeptOf'[i]]
BY DEF KeptOf

LEMMA KeptIsNat == SwitchInv => \A i \in Identities : Kept(i) \in Nat /\ Copy(i) \in Nat
BY SwitchAssumption
   DEF SwitchInv, TypeOK, Kept, Copy, InUse, Vaults, Journals, Logins, Identities

LEMMA StillStutters ==
    ASSUME UNCHANGED <<auth, vault, journal, issued>>
    PROVE  UNCHANGED Exchange!exchangeVars
BY StandStill DEF Exchange!exchangeVars

LEMMA LandingExchanges ==
    ASSUME SwitchInv, LandsWell
    PROVE  [Exchange!Next]_(Exchange!exchangeVars)
<1>1. KeptOf' = KeptOf
  BY DEF LandsWell, KeptOf
<1>2. Known /\ Known'
  BY DEF LandsWell
<1>3. CASE auth' = auth
  BY <1>1, <1>2, <1>3 DEF Exchange!exchangeVars, KeptOf
<1>4. CASE auth' # NoLogin /\ auth'.id \in Profiles /\ Kept(auth'.id) # 0
  <2>1. Exchange!Exchange(auth'.id)
    BY <1>1, <1>2, <1>4 DEF Exchange!Exchange, KeptOf, Identities
  <2>. QED BY <1>4, <2>1 DEF Exchange!Next
<1>. QED BY <1>3, <1>4 DEF LandsWell

LEMMA ImportImports ==
    ASSUME SwitchInv, NEW q \in Profiles, Import(q)
    PROVE  Exchange!Import(q)
<1>1. /\ issued[q] \in Nat /\ q \in Identities /\ journal = NoJournal /\ journal' = journal
      /\ auth # NoLogin /\ auth.id = vault.active /\ q # vault.active /\ auth' = auth
      /\ vault.kept[q] = 0 /\ vault \in Vaults
  BY SwitchAssumption DEF SwitchInv, TypeOK, Import, InUse, Vaults, Identities
<1>2. issued'[q] = issued[q] + 1 /\ vault' = [vault EXCEPT !.kept[q] = issued[q] + 1]
  BY <1>1 DEF Import, SwitchInv, TypeOK
<1>3. vault'.active = vault.active /\ vault'.kept = [vault.kept EXCEPT ![q] = issued[q] + 1]
  BY <1>1, <1>2 DEF Vaults
<1>4. Kept(q) = 0 /\ Kept(q)' = issued[q] + 1
  BY <1>1, <1>3 DEF Kept, InUse, Copy, Vaults
<1>5. \A i \in Identities \ {q} : Kept(i)' = Kept(i)
  BY <1>1, <1>3 DEF Kept, InUse, Copy, Vaults
<1>6. Known' = Known /\ Active' = Active
  BY <1>1, <1>3 DEF Known, Active
<1>7. KeptOf[q] = 0 /\ KeptOf'[q] # 0 /\ \A i \in Identities \ {q} : KeptOf'[i] = KeptOf[i]
  BY <1>1, <1>4, <1>5, KeptOfIs
<1>8. KeptOf' = [KeptOf EXCEPT ![q] = KeptOf'[q]]
  BY <1>1, <1>7, KeptOfIs, OneChanges
<1>. QED BY <1>6, <1>7, <1>8 DEF Exchange!Import, KeptOf, Active

LEMMA RefreshRefreshes ==
    ASSUME SwitchInv, RefreshLogin
    PROVE  Exchange!Refresh
<1>1. /\ auth # NoLogin /\ auth \in [id : Identities, login : Logins]
      /\ auth.id \in Identities /\ auth.login \in Nat /\ issued[auth.id] \in Nat
      /\ auth.login <= issued[auth.id]
      /\ UNCHANGED <<vault, journal>>
  BY SwitchAssumption DEF SwitchInv, TypeOK, CopiesAge, RefreshLogin, Logins
<1>2. /\ issued'[auth.id] = issued[auth.id] + 1
      /\ auth' = [auth EXCEPT !.login = issued[auth.id] + 1]
      /\ issued[auth.id] + 1 \in Logins
  BY <1>1, SwitchAssumption DEF RefreshLogin, SwitchInv, TypeOK, Logins
<1>3. /\ auth'.id = auth.id /\ auth'.login = issued[auth.id] + 1 /\ auth' # NoLogin
  BY <1>1, <1>2, NothingAssumption
<1>4. Kept(auth.id) = auth.login /\ Kept(auth.id)' = issued[auth.id] + 1
  BY <1>1, <1>3 DEF Kept, InUse
<1>5. \A i \in Identities \ {auth.id} : Kept(i)' = Kept(i)
  BY <1>1, <1>3 DEF Kept, InUse, Copy
<1>6. Known' = Known /\ Active' = Active /\ Active = auth.id
  BY <1>1, <1>3 DEF Known, Active
<1>7. /\ KeptOf'[auth.id] > KeptOf[auth.id]
      /\ \A i \in Identities \ {auth.id} : KeptOf'[i] = KeptOf[i]
  BY <1>1, <1>3, <1>4, <1>5, KeptOfIs
<1>8. KeptOf' = [KeptOf EXCEPT ![auth.id] = KeptOf'[auth.id]]
  BY <1>1, <1>7, KeptOfIs, OneChanges
<1>9. auth.id # NoLogin
  BY <1>1, SwitchAssumption DEF Identities
<1>. QED BY <1>1, <1>6, <1>7, <1>8, <1>9 DEF Exchange!Refresh, KeptOf, Active

\* A login that is overwritten leaves at most an older one.
LEMMA SignInSignsIn ==
    ASSUME SwitchInv, NEW i \in Identities, SignIn(i)
    PROVE  Exchange!SignIn(i)
<1>1. /\ issued[i] \in Nat /\ UNCHANGED <<vault, journal>>
      /\ auth' = [id |-> i, login |-> issued[i] + 1] /\ issued[i] + 1 \in Logins
  BY SwitchAssumption DEF SignIn, SwitchInv, TypeOK, Logins
<1>2. auth' # NoLogin /\ auth'.id = i /\ auth'.login = issued[i] + 1
  BY <1>1, NothingAssumption
<1>3. \A j \in Identities : Copy(j)' = Copy(j) /\ Copy(j) \in Nat /\ Kept(j) \in Nat
  BY <1>1, KeptIsNat DEF Copy
<1>4. Kept(i)' > Kept(i)
  <2>1. Kept(i) <= issued[i]
    BY DEF SwitchInv, CopiesAge, Kept, InUse
  <2>. QED BY <1>1, <1>2, <1>3, <2>1 DEF Kept, InUse
<1>5. \A j \in Identities : j # i /\ InUse(j) => Kept(j)' <= Kept(j)
  BY <1>2, <1>3 DEF SwitchInv, CopiesAge, Kept, InUse
<1>6. \A j \in Identities : j # i /\ ~InUse(j) => Kept(j)' = Kept(j)
  BY <1>2, <1>3 DEF Kept, InUse
<1>7. Active' = i /\ \A j \in Identities : InUse(j) <=> j = Active
  BY <1>2, SwitchAssumption DEF Active, InUse, Identities
<1>8. Known' \in BOOLEAN /\ DOMAIN KeptOf' = Identities
  BY DEF Known, KeptOf
<1>9. \A j \in Identities :
        CASE j = i -> KeptOf'[j] > KeptOf[j]
          [] j # i /\ j = Active -> KeptOf'[j] <= KeptOf[j]
          [] OTHER -> KeptOf'[j] = KeptOf[j]
  BY <1>4, <1>5, <1>6, <1>7 DEF KeptOf
<1>. QED BY <1>7, <1>8, <1>9 DEF Exchange!SignIn, KeptOf, Active

LEMMA SignOutSignsOut ==
    ASSUME SwitchInv, SignOut
    PROVE  Exchange!SignIn(NoLogin)
<1>1. auth' = NoLogin /\ UNCHANGED <<vault, journal>> /\ NoLogin \notin Identities
  BY SwitchAssumption DEF SignOut, Identities
<1>2. \A j \in Identities : Copy(j)' = Copy(j) /\ Copy(j) \in Nat /\ Kept(j) \in Nat
  BY <1>1, KeptIsNat DEF Copy
<1>3. \A j \in Identities : InUse(j) => Kept(j)' <= Kept(j)
  BY <1>1, <1>2 DEF SwitchInv, CopiesAge, Kept, InUse
<1>4. \A j \in Identities : ~InUse(j) => Kept(j)' = Kept(j)
  BY <1>1, <1>2 DEF Kept, InUse
<1>5. Active' = NoLogin /\ \A j \in Identities : InUse(j) <=> j = Active
  BY <1>1 DEF Active, InUse
<1>6. Known' \in BOOLEAN /\ DOMAIN KeptOf' = Identities
  BY DEF Known, KeptOf
<1>7. \A j \in Identities :
        CASE j = NoLogin -> KeptOf'[j] > KeptOf[j]
          [] j # NoLogin /\ j = Active -> KeptOf'[j] <= KeptOf[j]
          [] OTHER -> KeptOf'[j] = KeptOf[j]
  BY <1>1, <1>3, <1>4, <1>5 DEF KeptOf
<1>. QED BY <1>5, <1>6, <1>7 DEF Exchange!SignIn, KeptOf, Active

LEMMA StepExchanges == SwitchInv /\ [Next]_switchVars => [Exchange!Next]_(Exchange!exchangeVars)
<1>. SUFFICES ASSUME SwitchInv, [Next]_switchVars
              PROVE  [Exchange!Next]_(Exchange!exchangeVars)
  OBVIOUS
<1>1. CASE Read \/ Inspect \/ UNCHANGED switchVars
  BY <1>1, StillStutters DEF Read, Inspect, switchVars
<1>2. CASE Write
  BY <1>2, WriteKeeps, LandingExchanges
<1>3. CASE \E landed \in BOOLEAN : Fail(landed)
  BY <1>3, FailKeeps, LandingExchanges, StillStutters
<1>4. CASE \/ \E t \in Profiles : Switch(t)
           \/ \E rollback \in BOOLEAN : Recover(rollback)
           \/ RecoverNothing \/ Refuse \/ Crash
  BY <1>4, BeginKeeps, StillStutters
<1>5. CASE Outside
  <2>1. CASE \E q \in Profiles : Import(q)
    BY <2>1, ImportImports DEF Exchange!Next
  <2>2. CASE RefreshLogin
    BY <2>2, RefreshRefreshes DEF Exchange!Next
  <2>3. CASE \E i \in Identities : SignIn(i)
    BY <2>3, SignInSignsIn DEF Exchange!Next
  <2>4. CASE SignOut
    BY <2>4, SignOutSignsOut DEF Exchange!Next
  <2>. QED BY <1>5, <2>1, <2>2, <2>3, <2>4 DEF Outside
<1>. QED BY <1>1, <1>2, <1>3, <1>4, <1>5 DEF Next, Operate

LEMMA InitExchanges == Init => Exchange!Init
<1>. SUFFICES ASSUME Init
              PROVE  Exchange!Init
  OBVIOUS
<1>1. PICK p \in Profiles, imported \in SUBSET Profiles :
        /\ auth = [id |-> p, login |-> 1]
        /\ vault = [active |-> p,
                    kept |-> [q \in Profiles |-> IF q \in imported \ {p} THEN 1 ELSE 0]]
        /\ journal = NoJournal
  BY DEF Init
<1>2. SwitchInv
  BY InitInv
<1>3. p \in Identities /\ auth # NoLogin /\ auth.id = p /\ auth.login = 1
  <2>1. auth \in [id : Identities, login : Logins]
    BY <1>1, SwitchAssumption DEF Identities, Logins
  <2>. QED BY <1>1, <2>1, NothingAssumption DEF Identities
<1>4. Known /\ Active = p /\ KeptOf[p] = 1
  BY <1>1, <1>3, KeptOfIs DEF Known, Active, Kept, InUse
<1>5. KeptOf \in [Identities -> Nat]
  BY <1>2, KeptIsNat DEF KeptOf
<1>. QED BY <1>4, <1>5 DEF Exchange!Init, KeptOf, Active

-----------------------------------------------------------------------------
(* Around the switch.                                                        *)

\* Whatever the gate does, the switch makes one of its own steps or none.
LEMMA GateMovesSwitch == [GateNext]_gateVars => [Next]_switchVars
<1>. SUFFICES ASSUME [GateNext]_gateVars
              PROVE  [Next]_switchVars
  OBVIOUS
<1>1. CASE Operate \/ Outside
  BY <1>1 DEF Next
<1>2. CASE \E r \in Turns : \/ AdmitTurn(r) \/ BeginSelection(r) \/ EndSelection(r)
                            \/ ClaimMainProfile(r) \/ EndTurn(r)
  BY <1>2 DEF AdmitTurn, BeginSelection, EndSelection, ClaimMainProfile, EndTurn
<1>3. CASE AcquireNativeDrain \/ GiveUp \/ ProbeBefore \/ EndRequest
  BY <1>3 DEF AcquireNativeDrain, GiveUp, ProbeBefore, EndRequest, Conclude
<1>4. CASE RunOperation
  BY <1>4 DEF RunOperation, Next
<1>5. CASE Lifecycle
  <2>1. CASE Converge
    BY <2>1 DEF Converge, Next
  <2>2. CASE \E safe \in BOOLEAN : FirstSweep(safe) \/ StageSweep(safe)
    BY <2>2 DEF FirstSweep, StageSweep
  <2>. QED BY <1>5, <2>1, <2>2 DEF Lifecycle
<1>6. CASE \/ AcquireUpdateFence \/ ReleaseUpdateFence
           \/ \E approved \in BOOLEAN : SealForUpdate(approved)
  BY <1>6 DEF AcquireUpdateFence, ReleaseUpdateFence, SealForUpdate
<1>7. CASE BeginShutdown \/ EndTurns \/ Stop
  BY <1>7 DEF BeginShutdown, EndTurns, Stop
<1>8. CASE Restart
  BY <1>8 DEF Restart, Next
<1>9. CASE UNCHANGED gateVars
  BY <1>9 DEF gateVars
<1>. QED BY <1>1, <1>2, <1>3, <1>4, <1>5, <1>6, <1>7, <1>8, <1>9 DEF GateNext

\* In every behaviour of the server and of what happens around it, with or
\* without progress, the switch does what it promises: every step exchanges the
\* login in use for one that is kept or leaves what is kept alone, whatever write
\* fails and wherever the process dies (native-profile-manager.ts, switch and
\* recoverLocked).
THEOREM SwitchExchangesLogins == FairGateSpec => ImplementsExchange
<1>1. GateInit => SwitchInv /\ Exchange!Init
  BY InitInv, InitExchanges DEF GateInit
<1>2. SwitchInv /\ [GateNext]_gateVars => SwitchInv'
  BY GateMovesSwitch, NextKeeps
<1>3. SwitchInv /\ [GateNext]_gateVars => [Exchange!Next]_(Exchange!exchangeVars)
  BY GateMovesSwitch, StepExchanges
<1>. QED BY <1>1, <1>2, <1>3, PTL DEF FairGateSpec, GateSpec, ImplementsExchange, Exchange!Spec

-----------------------------------------------------------------------------
(* Who uses the login while it is switched.                                  *)

\* The request that switches holds the drain, and found nobody using the login.
Fenced ==
    /\ api.at # "none" => drain = "native"
    /\ api.at \in {"starting", "running"} => selecting = {} /\ claimed \cap admitted = {}
    /\ api.at = "running" => startup \in {"sweep", "done"}

\* What startup finds to be recovered keeps the gate closed until it has been.
Closed ==
    /\ startup = "recover" => /\ gate = "recovery-pending" /\ claimed = {}
                              /\ api.before => journal # NoJournal
    /\ startup = "recovering" =>
         /\ op.plan \in {"inspect", "withdraw", "finish"} \cup Resting
         /\ op.target = NoProfile
         /\ journal # NoJournal => gate = "recovery-pending" /\ claimed = {}

Driven == ~Rests => api.at = "running" \/ startup = "recovering"

GateInv == SwitchInv /\ GateTypeOK /\ Fenced /\ Closed /\ Driven

LEMMA GateImplies == GateInv => AloneWithTheLogin
<1>. SUFFICES ASSUME GateInv, Writing
              PROVE  /\ claimed \cap admitted = {}
                     /\ startup # "recovering" => selecting = {}
  BY DEF AloneWithTheLogin
<1>1. ~Rests
  BY DEF Writing, Rests, Resting, Plans
<1>2. CASE api.at = "running"
  BY <1>2 DEF GateInv, Fenced
<1>3. CASE startup = "recovering"
  <2>1. op.plan \in {"withdraw", "finish"}
    BY <1>1, <1>3 DEF GateInv, Closed, Rests, Writing, Plans
  <2>2. journal # NoJournal
    BY <2>1 DEF GateInv, SwitchInv, OpAgrees, Stage, SameTx
  <2>. QED BY <1>3, <2>2 DEF GateInv, Closed
<1>. QED BY <1>1, <1>2, <1>3 DEF GateInv, Driven

\* Nobody is counted exactly if nobody uses the login or may come to.
LEMMA NobodyCounts ==
    ASSUME GateTypeOK, RequestCount = 0
    PROVE  selecting = {} /\ claimed \cap admitted = {}
<1>1. IsFiniteSet(selecting) /\ IsFiniteSet(claimed \cap admitted)
  BY TurnsAssumption, FS_Subset DEF GateTypeOK
<1>2. Cardinality(selecting) \in Nat /\ Cardinality(claimed \cap admitted) \in Nat
  BY <1>1, FS_CardinalityType
<1>3. Cardinality(selecting) = 0 /\ Cardinality(claimed \cap admitted) = 0
  BY <1>2 DEF RequestCount
<1>. QED BY <1>1, <1>3, FS_EmptySet

LEMMA GateInitInv == GateInit => GateInv
<1>. SUFFICES ASSUME GateInit
              PROVE  GateInv
  OBVIOUS
<1>1. SwitchInv
  BY InitInv DEF GateInit
<1>2. Driven
  BY DEF GateInit, Init, Driven, Rests, Resting, Idle
<1>3. /\ api.at = "none" /\ api.before = FALSE
      /\ api \in [at : {"none", "waiting", "starting", "running"}, before : BOOLEAN]
  BY DEF GateInit, Started, NoRequest
<1>4. GateTypeOK
  BY <1>1, <1>3 DEF GateInit, Started, GateTypeOK, SwitchInv, Blocked
<1>5. Fenced /\ Closed
  BY <1>3 DEF GateInit, Started, Fenced, Closed
<1>. QED BY <1>1, <1>2, <1>4, <1>5 DEF GateInv

\* A step of the operation that holds the lock.
LEMMA OperateKeeps ==
    ASSUME GateInv, SwitchInv', Operate, UNCHANGED <<processVars, turnVars>>
    PROVE  GateInv'
<1>1. ~Rests /\ startup # "recover" /\ op.plan \in DOMAIN Plans \cup Reading
  <2>1. op.plan \in DOMAIN Plans \cup Reading
    BY DEF Operate, Read, Inspect, Refuse, Write, Fail, Writing, Reading
  <2>2. ~Rests
    BY <2>1 DEF Rests, Resting, Plans, Reading
  <2>. QED BY <2>1, <2>2 DEF GateInv, Driven, Fenced
<1>2. GateTypeOK'
  BY DEF GateInv, GateTypeOK, processVars, turnVars, SwitchInv
<1>3. Fenced' /\ Driven'
  BY <1>1 DEF GateInv, Fenced, Driven, processVars, turnVars
<1>4. CASE startup = "recovering"
  <2>1. op.plan \in {"inspect", "withdraw", "finish"} /\ op.target = NoProfile
    BY <1>1, <1>4 DEF GateInv, Closed, Rests
  <2>2. journal # NoJournal
    BY <2>1, NothingAssumption DEF GateInv, SwitchInv, TypeOK, OpAgrees, Writing, Plans, Stage, SameTx
  <2>3. op'.plan \in {"withdraw", "finish"} \cup Resting /\ op'.target = NoProfile
    <3>1. CASE Read \/ Refuse
      BY <2>1, <3>1 DEF Read, Refuse, Idle, Resting
    <3>2. CASE Inspect
      <4>1. \E plan \in {"withdraw", "finish"} : op' = [op EXCEPT !.plan = plan, !.step = 1, !.tx = op.tx]
        BY <2>1, <3>2 DEF Inspect, Start
      <4>. QED BY <2>1, <4>1 DEF GateInv, SwitchInv, TypeOK
    <3>3. CASE Write
      <4>1. op.plan \in {"withdraw", "finish"}
        BY <2>1, <3>3 DEF Write, Writing, Plans
      <4>2. CASE op' = [op EXCEPT !.step = @ + 1]
        BY <2>1, <4>1, <4>2 DEF GateInv, SwitchInv, TypeOK
      <4>3. CASE op' = Ended
        BY <2>1, <4>1, <4>3 DEF Ended, Idle, Resting
      <4>. QED BY <3>3, <4>2, <4>3 DEF Write
    <3>4. CASE \E landed \in BOOLEAN : Fail(landed)
      BY <2>1, <3>4 DEF Fail, Idle, Resting
    <3>. QED BY <3>1, <3>2, <3>3, <3>4 DEF Operate
  <2>. QED BY <1>2, <1>3, <1>4, <2>2, <2>3 DEF GateInv, Closed, processVars, turnVars
<1>5. CASE startup # "recovering"
  <2>1. Closed'
    BY <1>1, <1>5 DEF Closed, processVars
  <2>. QED BY <1>2, <1>3, <2>1 DEF GateInv
<1>. QED BY <1>4, <1>5

\* A step of native Codex or of its user.
LEMMA OutsideKeeps ==
    ASSUME GateInv, SwitchInv', Outside, UNCHANGED <<processVars, turnVars>>
    PROVE  GateInv'
<1>1. journal' = journal /\ op' = op
  BY DEF Outside, Import, RefreshLogin, SignIn, SignOut
<1>2. GateTypeOK'
  BY DEF GateInv, GateTypeOK, processVars, turnVars, SwitchInv
<1>. QED BY <1>1, <1>2 DEF GateInv, Fenced, Closed, Driven, Rests, processVars, turnVars

LEMMA TurnsKeep ==
    ASSUME GateInv, SwitchInv', NEW r \in Turns,
           \/ AdmitTurn(r) \/ BeginSelection(r) \/ EndSelection(r)
           \/ ClaimMainProfile(r) \/ EndTurn(r)
    PROVE  GateInv'
<1>1. UNCHANGED <<switchVars, processVars>>
  BY DEF AdmitTurn, BeginSelection, EndSelection, ClaimMainProfile, EndTurn
<1>2. GateTypeOK'
  <2>1. /\ running' \subseteq Turns /\ admitted' \subseteq running'
        /\ selecting' \subseteq running' /\ claimed' \subseteq running'
    <3>1. CASE AdmitTurn(r)
      BY <3>1 DEF GateInv, GateTypeOK, AdmitTurn
    <3>2. CASE BeginSelection(r) \/ EndSelection(r) \/ ClaimMainProfile(r)
      BY <3>2 DEF GateInv, GateTypeOK, BeginSelection, EndSelection, ClaimMainProfile
    <3>3. CASE EndTurn(r)
      BY <3>3 DEF GateInv, GateTypeOK, EndTurn
    <3>. QED BY <3>1, <3>2, <3>3
  <2>. QED BY <1>1, <2>1 DEF GateInv, SwitchInv, GateTypeOK, processVars
<1>3. \/ claimed' = claimed
      \/ claimed' = claimed \ {r}
      \/ gate = "ready" /\ claimed' = claimed \cup {r}
  <2>1. CASE AdmitTurn(r) \/ BeginSelection(r) \/ EndSelection(r)
    BY <2>1 DEF AdmitTurn, BeginSelection, EndSelection
  <2>2. CASE ClaimMainProfile(r)
    BY <2>2 DEF ClaimMainProfile
  <2>3. CASE EndTurn(r)
    BY <2>3 DEF EndTurn
  <2>. QED BY <2>1, <2>2, <2>3
<1>4. Closed'
  BY <1>1, <1>3 DEF GateInv, Closed, processVars, switchVars
<1>5. Fenced'
  <2>1. UNCHANGED <<api, drain, startup>>
    BY <1>1 DEF processVars
  <2>2. CASE AdmitTurn(r)
    BY <2>1, <2>2 DEF GateInv, GateTypeOK, Fenced, AdmitTurn
  <2>3. CASE BeginSelection(r)
    BY <2>1, <2>3 DEF GateInv, Fenced, BeginSelection
  <2>4. CASE EndSelection(r)
    BY <2>1, <2>4 DEF GateInv, Fenced, EndSelection
  <2>5. CASE ClaimMainProfile(r)
    BY <2>1, <2>5 DEF GateInv, Fenced, ClaimMainProfile
  <2>6. CASE EndTurn(r)
    BY <2>1, <2>6 DEF GateInv, Fenced, EndTurn
  <2>. QED BY <2>2, <2>3, <2>4, <2>5, <2>6
<1>6. Driven'
  BY <1>1 DEF GateInv, Driven, Rests, processVars, switchVars
<1>. QED BY <1>2, <1>4, <1>5, <1>6 DEF GateInv

LEMMA RequestKeeps ==
    ASSUME GateInv, SwitchInv', AcquireNativeDrain \/ GiveUp \/ ProbeBefore \/ RunOperation \/ EndRequest
    PROVE  GateInv'
<1>1. CASE AcquireNativeDrain
  <2>1. api' = [at |-> "waiting", before |-> FALSE] /\ api.at = "none"
    BY <1>1 DEF AcquireNativeDrain, NoRequest
  <2>. QED BY <1>1, <2>1 DEF AcquireNativeDrain, GateInv, GateTypeOK, SwitchInv, Fenced, Closed,
                 Driven, Rests, turnVars, switchVars
<1>2. CASE GiveUp
  <2>1. api'.at = "none" /\ api'.before = FALSE /\ api' = [at |-> "none", before |-> FALSE]
    BY <1>2 DEF GiveUp, NoRequest
  <2>. QED BY <1>2, <2>1 DEF GiveUp, GateInv, GateTypeOK, SwitchInv, Fenced, Closed,
                 Driven, Rests, turnVars, switchVars
<1>3. CASE ProbeBefore
  <2>1. /\ api' = [at |-> "starting", before |-> journal # NoJournal]
        /\ selecting = {} /\ claimed \cap admitted = {} /\ drain = "native"
    BY <1>3, NobodyCounts DEF ProbeBefore, GateInv, Fenced
  <2>2. api'.at = "starting" /\ api'.before = (journal # NoJournal)
    BY <2>1
  <2>. QED BY <1>3, <2>1, <2>2 DEF ProbeBefore, GateInv, GateTypeOK, SwitchInv, Fenced, Closed,
                 Driven, Rests, turnVars, switchVars
<1>4. CASE RunOperation
  <2>1. api' = [api EXCEPT !.at = "running"] /\ api.at = "starting" /\ startup \in {"sweep", "done"}
    BY <1>4 DEF RunOperation
  <2>2. api' \in [at : {"none", "waiting", "starting", "running"}, before : BOOLEAN]
        /\ api'.at = "running"
    BY <2>1 DEF GateInv, GateTypeOK
  <2>. QED BY <1>4, <2>1, <2>2 DEF RunOperation, GateInv, GateTypeOK, SwitchInv, Fenced, Closed,
                 Driven, turnVars
<1>5. CASE EndRequest
  <2>1. PICK failed \in BOOLEAN :
          /\ Conclude(failed)
          /\ \/ api.at = "starting" /\ failed
             \/ api.at = "running" /\ Rests
    BY <1>5 DEF EndRequest
  <2>2. /\ api' = [at |-> "none", before |-> FALSE] /\ api'.at = "none" /\ api'.before = FALSE
        /\ drain' = "none" /\ UNCHANGED <<switchVars, startup, shutdown, turnVars>>
    BY <2>1 DEF Conclude, NoRequest
  <2>3. gate' \in Blocked \cup {"ready"} /\ (journal # NoJournal => gate' = "recovery-pending")
    BY <2>1 DEF Conclude, GateInv, GateTypeOK, Blocked
  <2>4. GateTypeOK'
    BY <2>2, <2>3 DEF GateInv, SwitchInv, GateTypeOK, turnVars
  <2>5. Fenced' /\ Driven'
    BY <2>1, <2>2 DEF GateInv, Fenced, Driven, Rests, switchVars
  <2>6. Closed'
    <3>1. startup = "recover" => gate' = "recovery-pending"
      BY <2>1 DEF GateInv, Fenced, Closed, Conclude
    <3>. QED BY <2>2, <2>3, <3>1 DEF GateInv, Closed, switchVars, turnVars
  <2>. QED BY <2>4, <2>5, <2>6 DEF GateInv
<1>. QED BY <1>1, <1>2, <1>3, <1>4, <1>5

LEMMA LifecycleKeeps ==
    ASSUME GateInv, SwitchInv', Lifecycle
    PROVE  GateInv'
<1>1. UNCHANGED <<api, drain, shutdown, turnVars>>
  BY DEF Lifecycle
<1>2. gate' \in Blocked \cup {"ready"} /\ startup' \in {"recover", "recovering", "sweep", "done"}
  BY DEF Lifecycle, Converge, FirstSweep, StageSweep, GateInv, GateTypeOK, Blocked
<1>3. GateTypeOK'
  BY <1>1, <1>2 DEF GateInv, SwitchInv, GateTypeOK, turnVars
<1>4. CASE startup = "recover" /\ journal # NoJournal /\ startup' = "recovering" /\ Recover(FALSE)
           /\ UNCHANGED gate
  <2>1. /\ op' = [plan |-> "inspect", step |-> 0, tx |-> journal, target |-> NoProfile]
        /\ journal' = journal
    BY <1>4 DEF Recover
  <2>2. op'.plan = "inspect" /\ op'.target = NoProfile
    BY <2>1
  <2>. QED BY <1>1, <1>3, <1>4, <2>1, <2>2 DEF GateInv, Fenced, Closed, Driven, turnVars
<1>5. CASE UNCHANGED switchVars /\ startup' \in {"sweep", "done"} /\ (startup = "recovering" => Rests)
  BY <1>1, <1>3, <1>5 DEF GateInv, Fenced, Closed, Driven, Rests, turnVars, switchVars
<1>. QED BY <1>4, <1>5 DEF Lifecycle, Converge, FirstSweep, StageSweep

LEMMA FencesKeep ==
    ASSUME GateInv, SwitchInv',
           \/ AcquireUpdateFence \/ ReleaseUpdateFence
           \/ \E approved \in BOOLEAN : SealForUpdate(approved)
           \/ BeginShutdown \/ EndTurns
    PROVE  GateInv'
<1>1. /\ UNCHANGED <<switchVars, gate, startup, api, running, selecting, claimed>>
      /\ drain' # drain => drain # "native" /\ drain' \in {"none", "update"}
      /\ admitted' \in {admitted, {}}
      /\ shutdown' \in {shutdown, "sealed", "draining", "stopping"}
  BY DEF AcquireUpdateFence, ReleaseUpdateFence, SealForUpdate, BeginShutdown, EndTurns, turnVars
<1>2. GateTypeOK'
  BY <1>1 DEF GateInv, SwitchInv, GateTypeOK
<1>. QED BY <1>1, <1>2 DEF GateInv, Fenced, Closed, Driven, Rests, switchVars

\* The process ends, or another one starts.
LEMMA EndsKeep ==
    ASSUME GateInv, SwitchInv', Stop \/ Restart
    PROVE  GateInv'
<1>1. /\ api' = [at |-> "none", before |-> FALSE] /\ api'.at = "none" /\ api'.before = FALSE
      /\ drain' = "none" /\ running' = {} /\ admitted' = {} /\ selecting' = {} /\ claimed' = {}
  BY DEF Stop, Restart, NoRequest
<1>2. GateTypeOK'
  BY <1>1 DEF GateInv, SwitchInv, GateTypeOK, Stop, Restart, Blocked
<1>3. CASE Stop
  BY <1>1, <1>2, <1>3 DEF GateInv, Fenced, Closed, Driven, Rests, Stop, switchVars
<1>4. CASE Restart
  <2>1. Driven'
    BY <1>4 DEF Restart, Crash, Idle, Driven, Rests, Resting
  <2>. QED BY <1>1, <1>2, <1>4, <2>1 DEF GateInv, Fenced, Closed, Restart
<1>. QED BY <1>3, <1>4

LEMMA GateKeeps == GateInv /\ [GateNext]_gateVars => GateInv'
<1>. SUFFICES ASSUME GateInv, [GateNext]_gateVars
              PROVE  GateInv'
  OBVIOUS
<1>1. SwitchInv'
  BY GateMovesSwitch, NextKeeps DEF GateInv
<1>2. CASE UNCHANGED gateVars
  BY <1>1, <1>2 DEF GateInv, SwitchInv, GateTypeOK, Fenced, Closed, Driven, Rests, gateVars, processVars,
                    turnVars, switchVars
<1>. QED BY <1>1, <1>2, OperateKeeps, OutsideKeeps, TurnsKeep, RequestKeeps, LifecycleKeeps, FencesKeep,
            EndsKeep DEF GateNext

\* A switch and every recovery of it have the native login to themselves: no
\* admitted turn uses the login it read, and none is about to read it, while it
\* is written (acquireNativeMainProfileDrain, withMainRequestDrain).
THEOREM LoginUsedAlone == FairGateSpec => []AloneWithTheLogin
<1>. QED BY GateInitInv, GateKeeps, GateImplies, PTL DEF FairGateSpec, GateSpec

\* Type correctness of the gate and of the switch.
THEOREM GateTypeCorrect == FairGateSpec => []GateTypeOK
<1>1. GateInv => GateTypeOK
  BY DEF GateInv
<1>. QED BY <1>1, GateInitInv, GateKeeps, PTL DEF FairGateSpec, GateSpec
=============================================================================
