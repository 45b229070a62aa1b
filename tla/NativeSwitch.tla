---------------------------- MODULE NativeSwitch ----------------------------
(* The switch of the native Codex login (codex/native-profile-manager.ts).   *)
(*                                                                           *)
(* auth.json holds the one login native Codex uses; the encrypted vault      *)
(* holds the login of every other profile.  A switch exchanges two logins    *)
(* over these two files by way of a journal, so that a crash or a failing    *)
(* write at any step can be recovered from.                                  *)
EXTENDS Naturals, Sequences

CONSTANTS
    Profiles,     \* the identities that may have a profile in the vault
    Strangers,    \* identities nobody imported
    NoLogin, NoJournal, NoProfile,
    MaxLogins     \* how many logins an identity is issued

ASSUME SwitchAssumption ==
    /\ Profiles \cap Strangers = {}
    /\ NoLogin \notin Profiles \cup Strangers
    /\ NoProfile \notin Profiles
    /\ MaxLogins \in Nat \ {0}

VARIABLES
    auth,      \* auth.json: whose login it is and which one, or NoLogin
    vault,     \* the vault: the active profile, and the payload of each; 0: null
    journal,   \* the journal of the switch under way, or NoJournal
    op,        \* the operation that holds the transaction lock
    issued     \* the logins each identity was issued so far

switchVars == <<auth, vault, journal, op, issued>>

Identities == Profiles \cup Strangers

Logins == 1..MaxLogins

Vaults == [active : Profiles, kept : [Profiles -> 0..MaxLogins]]

Phases == {"prepared", "auth-replaced", "vault-committed"}

Journals ==
    [phase : Phases, source : Profiles, target : Profiles,
     sourceLogin : Logins, targetLogin : Logins, before : Vaults, after : Vaults]

ASSUME NothingAssumption ==
    NoLogin \notin [id : Identities, login : Logins] /\ NoJournal \notin Journals

\* The writes of an operation, in order.  "switch" and "undo" are the two
\* branches of switch(), the others those of recoverLocked().
Plans ==
    [switch   |-> <<"prepare", "replace", "note", "commit", "seal", "clear">>,
     undo     |-> <<"restore", "unwind", "clear">>,
     rollback |-> <<"restore", "unwind", "clear">>,
     withdraw |-> <<"unwind", "clear">>,
     finish   |-> <<"commit", "clear">>,
     preserve |-> <<"preserve", "keep", "restore", "clear">>]

Idle(how) == [plan |-> how, step |-> 0, tx |-> NoJournal, target |-> NoProfile]

Reading == {"read", "inspect", "inspect-rollback"}
Resting == {"done", "failed"}

TypeOK ==
    /\ auth \in [id : Identities, login : Logins] \cup {NoLogin}
    /\ vault \in Vaults
    /\ journal \in Journals \cup {NoJournal}
    /\ issued \in [Identities -> 0..MaxLogins]
    /\ op \in [plan : DOMAIN Plans \cup Reading \cup Resting, step : 0..6,
               tx : Journals \cup {NoJournal}, target : Profiles \cup {NoProfile}]
    /\ op.plan \in DOMAIN Plans => op.tx \in Journals /\ op.step \in DOMAIN Plans[op.plan]
    /\ op.plan = "read" => op.target \in Profiles
    /\ op.plan \in {"inspect", "inspect-rollback"} => op.tx \in Journals

\* After register() of the login in use, and the import of some others.
Init ==
    \E p \in Profiles, imported \in SUBSET Profiles :
        /\ auth = [id |-> p, login |-> 1]
        /\ vault = [active |-> p,
                    kept |-> [q \in Profiles |-> IF q \in imported \ {p} THEN 1 ELSE 0]]
        /\ journal = NoJournal
        /\ op = Idle("done")
        /\ issued = [i \in Identities |-> 1]

InUse(i) == auth # NoLogin /\ auth.id = i

Rests == op.plan \in Resting

-----------------------------------------------------------------------------
(* switch() and recover() up to their first write.                           *)

\* A residue of an earlier switch is recovered first, under the same lock.
Switch(t) ==
    /\ Rests
    /\ op' = [plan |-> IF journal = NoJournal THEN "read" ELSE "inspect",
              step |-> 0, tx |-> journal, target |-> t]
    /\ UNCHANGED <<auth, vault, journal, issued>>

Recover(rollback) ==
    /\ Rests
    /\ journal # NoJournal
    /\ op' = [plan |-> IF rollback THEN "inspect-rollback" ELSE "inspect",
              step |-> 0, tx |-> journal, target |-> NoProfile]
    /\ UNCHANGED <<auth, vault, journal, issued>>

RecoverNothing ==
    /\ Rests
    /\ journal = NoJournal
    /\ op' = Idle("done")
    /\ UNCHANGED <<auth, vault, journal, issued>>

Start(plan, tx) == op' = [op EXCEPT !.plan = plan, !.step = 1, !.tx = tx]

\* The transaction of a switch from the login in use to the profile t.
Transaction(t) ==
    [phase |-> "prepared", source |-> auth.id, target |-> t,
     sourceLogin |-> auth.login, targetLogin |-> vault.kept[t],
     before |-> vault,
     after |-> [active |-> t,
                kept |-> [vault.kept EXCEPT ![auth.id] = auth.login, ![t] = 0]]]

\* assertCurrentIdentity() and resolveTarget() passed.
Read ==
    /\ op.plan = "read"
    /\ InUse(vault.active)
    /\ vault.kept[op.target] # 0
    /\ Start("switch", Transaction(op.target))
    /\ UNCHANGED <<auth, vault, journal, issued>>

\* Mutant: the journal alone remembers it.
PreservingInJournal(tx) == [tx EXCEPT !.targetLogin = auth.login]

\* The refreshed login of the target is put into the vault a rollback restores.
Preserving(tx) ==
    [tx EXCEPT !.targetLogin = auth.login, !.before.kept[tx.target] = auth.login]

Inspect ==
    /\ op.plan \in {"inspect", "inspect-rollback"}
    /\ \/ /\ InUse(op.tx.source)
          /\ Start("withdraw", op.tx)
       \/ /\ InUse(op.tx.target)
          /\ op.plan = "inspect"
          /\ Start("finish", op.tx)
       \/ /\ InUse(op.tx.target)
          /\ op.plan = "inspect-rollback"
          /\ IF auth.login = op.tx.targetLogin
             THEN Start("rollback", op.tx)
             ELSE Start("preserve", Preserving(op.tx))
    /\ UNCHANGED <<auth, vault, journal, issued>>

\* Another identity is signed in, the profile is unknown or active already, the
\* key is missing or a payload does not decrypt: nothing has been written.
Refuse ==
    /\ op.plan \in Reading
    /\ op' = Idle("failed")
    /\ UNCHANGED <<auth, vault, journal, issued>>

-----------------------------------------------------------------------------
(* The writes.                                                               *)

\* What the files hold when a write has taken effect.
Lands(step) ==
    LET tx == op.tx IN
    \/ /\ step \in {"prepare", "note", "seal", "preserve"}
       /\ journal' = CASE step = "note" -> [tx EXCEPT !.phase = "auth-replaced"]
                       [] step = "seal" -> [tx EXCEPT !.phase = "vault-committed"]
                       [] OTHER -> tx
       /\ UNCHANGED <<auth, vault>>
    \/ /\ step = "replace"
       /\ auth' = [id |-> tx.target, login |-> tx.targetLogin]
       /\ UNCHANGED <<vault, journal>>
    \/ /\ step = "restore"
       /\ auth' = [id |-> tx.source, login |-> tx.sourceLogin]
       /\ UNCHANGED <<vault, journal>>
    \/ /\ step = "commit"
       /\ vault' = tx.after
       /\ UNCHANGED <<auth, journal>>
    \/ /\ step \in {"keep", "unwind"}
       /\ vault' = tx.before
       /\ UNCHANGED <<auth, journal>>
    \/ /\ step = "clear"
       /\ journal' = NoJournal
       /\ UNCHANGED <<auth, vault>>

Writing == op.plan \in DOMAIN Plans

Step == Plans[op.plan][op.step]

\* The last write of a recovery that a switch waits for makes way for it.
Ended ==
    IF op.plan \in {"withdraw", "finish"} /\ op.target # NoProfile
    THEN [op EXCEPT !.plan = "read", !.step = 0, !.tx = NoJournal]
    ELSE Idle(IF op.plan = "undo" THEN "failed" ELSE "done")

Write ==
    /\ Writing
    /\ Lands(Step)
    /\ op' = IF op.step < Len(Plans[op.plan]) THEN [op EXCEPT !.step = @ + 1] ELSE Ended
    /\ UNCHANGED issued

\* A write, or the check that follows it, throws: before the journal is written
\* and after the vault is, the switch ends as it stands; in between it is undone.
Fail(landed) ==
    /\ Writing
    /\ IF landed THEN Lands(Step) ELSE UNCHANGED <<auth, vault, journal>>
    /\ op' = IF op.plan = "switch" /\ Step \in {"replace", "note", "commit"}
             THEN [op EXCEPT !.plan = "undo", !.step = 1]
             ELSE Idle("failed")
    /\ UNCHANGED issued

-----------------------------------------------------------------------------
(* Around the operations.                                                    *)

\* finishStage(): another identity is logged in apart and becomes a profile.
Import(q) ==
    /\ Rests
    /\ journal = NoJournal
    /\ InUse(vault.active)
    /\ ~InUse(q) /\ vault.kept[q] = 0
    /\ issued[q] < MaxLogins
    /\ issued' = [issued EXCEPT ![q] = @ + 1]
    /\ vault' = [vault EXCEPT !.kept[q] = issued'[q]]
    /\ UNCHANGED <<auth, journal, op>>

\* Native Codex refreshes the login it uses.  It is found stopped where the
\* login is going to be written, which a plain recovery does not.
RefreshLogin ==
    /\ \/ Rests
       \/ op.target = NoProfile /\ op.plan \in {"inspect", "withdraw", "finish"}
    /\ auth # NoLogin
    /\ issued[auth.id] < MaxLogins
    /\ issued' = [issued EXCEPT ![auth.id] = @ + 1]
    /\ auth' = [auth EXCEPT !.login = issued'[auth.id]]
    /\ UNCHANGED <<vault, journal, op>>

SignIn(i) ==
    /\ Rests
    /\ issued[i] < MaxLogins
    /\ issued' = [issued EXCEPT ![i] = @ + 1]
    /\ auth' = [id |-> i, login |-> issued'[i]]
    /\ UNCHANGED <<vault, journal, op>>

SignOut ==
    /\ Rests
    /\ auth' = NoLogin
    /\ UNCHANGED <<vault, journal, op, issued>>

\* The process dies and the lock with it; the files stay as they are.
Crash ==
    /\ op' = Idle("failed")
    /\ UNCHANGED <<auth, vault, journal, issued>>

Operate == Read \/ Inspect \/ Refuse \/ Write \/ \E landed \in BOOLEAN : Fail(landed)

Outside ==
    \/ \E q \in Profiles : Import(q)
    \/ RefreshLogin
    \/ \E i \in Identities : SignIn(i)
    \/ SignOut

Next ==
    \/ \E t \in Profiles : Switch(t)
    \/ \E rollback \in BOOLEAN : Recover(rollback)
    \/ RecoverNothing
    \/ Operate \/ Outside \/ Crash

Spec == Init /\ [][Next]_switchVars

-----------------------------------------------------------------------------

\* The login of i that is kept apart from auth.json: what the journal of a switch
\* under way holds of its two profiles, else what the vault does; 0: none.
Copy(i) ==
    IF journal # NoJournal /\ i = journal.source THEN journal.sourceLogin
    ELSE IF journal # NoJournal /\ i = journal.target THEN journal.targetLogin
    ELSE IF i \in Profiles THEN vault.kept[i] ELSE 0

Kept(i) == IF InUse(i) THEN auth.login ELSE Copy(i)

\* Whose login is in use is known to the vault, or to the journal.
Known ==
    auth # NoLogin /\ auth.id \in IF journal = NoJournal THEN {vault.active}
                                  ELSE {journal.source, journal.target}

Exchange == INSTANCE LoginExchange WITH
    active <- IF auth = NoLogin THEN NoLogin ELSE auth.id,
    login <- [i \in Identities |-> Kept(i)],
    known <- Known

\* No operation loses, ages or mixes up a login: whatever write fails and
\* wherever the process dies, each step of a switch, of its undoing and of
\* either recovery exchanges the login in use for another one that is kept, or
\* changes nothing of what is kept.  None writes over a login it does not know,
\* and none ends with auth.json and the vault naming different profiles
\* (native-profile-manager.ts, switch and recoverLocked).
ImplementsExchange == Exchange!Spec
=============================================================================
