------------------------------ MODULE OAuthRefresh ------------------------------
(***************************************************************************)
(* The refresh of an Anthropic login (src/src/oauth/index.ts, store.ts).   *)
(* Its grants are spent by use, so that none may be sent twice: a flight   *)
(* takes the lock file of the account, leaves an intent file that names    *)
(* the credential, sends the grant, stores the answer if the credential    *)
(* is still the one it started from, and removes the intent.  An intent    *)
(* found later for the stored credential means that its grant may be       *)
(* spent: the account is flagged for a new login instead of refreshed.     *)
(*                                                                         *)
(* One account; who only awaits the flight of its process has no step.     *)
(* What a process does without an await is cut into steps where another    *)
(* process, or a crash, can come in between.                               *)
(***************************************************************************)
EXTENDS Naturals, FiniteSets

CONSTANTS
    Processes,         \* programs that share the configuration directory
    Flights,           \* each is used once: its name is its flightId
    NoFlight, NoProcess,
    LockStale,         \* staleAfterMs of the lock file
    FlightStale,       \* OAUTH_TOKEN_REFRESH_FLIGHT_STALE_MS
    MaxTime,           \* bound on the clock
    MaxTokens          \* bound on credentials issued

ASSUME OAuthAssumption ==
    /\ NoFlight \notin Flights /\ NoProcess \notin Processes
    /\ {LockStale, FlightStale, MaxTime, MaxTokens} \subseteq Nat

VARIABLES
    account,           \* the account in auth.json
    expired, issued,   \* credentials near their end; number of the last one
    lock,              \* the lock file of the account
    intent,            \* its intent file
    current,           \* tokenRefreshes of a process
    flight, now

vars == <<account, expired, issued, lock, intent, current, flight, now>>

\* credentialGeneration tells credentials apart, as their numbers do.  The login
\* a credential descends from is history.
Tokens == 0..MaxTokens
Credentials == [token : Tokens, login : Tokens]
FirstCredential == [token |-> 0, login |-> 0]

NoLock == [there |-> FALSE, by |-> NoFlight, at |-> 0]
NoIntent == [there |-> FALSE, token |-> 0, by |-> NoFlight, staleOwner |-> FALSE]

Waiting ==
    [stage |-> "idle", home |-> NoProcess, caller |-> 0, cred |-> FirstCredential,
     flagged |-> FALSE, began |-> 0, aborted |-> FALSE, dispatched |-> FALSE, robbed |-> FALSE,
     replaced |-> NoFlight, replacedSent |-> FALSE,
     relogin |-> FALSE, fresh |-> FirstCredential]

\* Stages that a process passes through without an await.
Synchronous == {"created", "unlinking", "examining", "intending", "intended", "removing"}
Running == Synchronous \cup
    {"locking", "holding", "dispatched", "answered", "condemned", "refused",
     "clearing", "closing", "settling"}

Init ==
    /\ account = [there |-> TRUE, cred |-> FirstCredential, flagged |-> FALSE]
    /\ expired = {} /\ issued = 0
    /\ lock = NoLock /\ intent = NoIntent
    /\ current = [p \in Processes |-> NoFlight]
    /\ flight = [f \in Flights |-> Waiting]
    /\ now = 0

-----------------------------------------------------------------------------

Free(p, f) ==
    \A g \in Flights \ {f} : flight[g].home = p => flight[g].stage \notin Synchronous

\* f is at a stage, and its process is not in the middle of something else.
At(f, stage) == flight[f].stage = stage /\ Free(flight[f].home, f)

Goto(f, stage) == flight' = [flight EXCEPT ![f].stage = stage]

\* The lock is released; relogin says whether a new login is asked for.
Closed(f, relogin) ==
    [flight[f] EXCEPT
        !.stage = "closing", !.relogin = relogin, !.flagged = FALSE, !.fresh = FirstCredential,
        !.replaced = NoFlight, !.replacedSent = FALSE,
        !.caller = IF relogin THEN flight[f].caller ELSE 0]

Closing(f, relogin) == flight' = [flight EXCEPT ![f] = Closed(f, relogin)]

\* What is left of a flight: what it sent.
Over(f) ==
    [Waiting EXCEPT !.stage = "done", !.dispatched = flight[f].dispatched,
                    !.robbed = flight[f].robbed,
                    !.cred = IF flight[f].dispatched THEN flight[f].cred ELSE FirstCredential]

\* Mutant: the flight that has taken its place is deleted as well.
UnlistedWhoever(f) == [current EXCEPT ![flight[f].home] = NoFlight]

\* tokenRefreshes forgets the flight, if it is still the one there.
Unlisted(f) == [p \in Processes |-> IF current[p] = f THEN NoFlight ELSE current[p]]

\* The promise of the flight settles: at once, unless the account has to be
\* flagged first.
Ends(f, others) ==
    IF flight[f].relogin /\ ~flight[f].aborted
    THEN /\ flight' = [others EXCEPT ![f].stage = "settling"]
         /\ UNCHANGED current
    ELSE /\ flight' = [others EXCEPT ![f] = Over(f)]
         /\ current' = Unlisted(f)

Fresh(cred) == cred.token \notin expired

Outdated(f) == now - flight[f].began > FlightStale

\* resolveAccessSnapshotForAccount for a credential near its end: a flight that
\* is too old is aborted and replaced, a younger one would be awaited.
Ask(f, p) ==
    LET old == current[p]
    IN  /\ flight[f].stage = "idle" /\ Free(p, f)
        /\ account.there /\ ~Fresh(account.cred)
        /\ old # NoFlight => Outdated(old)
        /\ current' = [current EXCEPT ![p] = f]
        /\ flight' = [g \in Flights |->
             IF g = f
             THEN [Waiting EXCEPT !.stage = "locking", !.home = p, !.began = now,
                                  !.caller = account.cred.token, !.replaced = old,
                                  !.replacedSent = old # NoFlight /\ flight[old].dispatched]
             ELSE IF g = old THEN [flight[g] EXCEPT !.aborted = TRUE]
             ELSE flight[g]]
        /\ UNCHANGED <<account, expired, issued, lock, intent, now>>

-----------------------------------------------------------------------------
(* The lock file (createOAuthFileLock).                                    *)

CreateLock(f) ==
    /\ At(f, "locking") /\ ~lock.there
    /\ lock' = [there |-> TRUE, by |-> f, at |-> now]
    /\ Goto(f, "created")
    /\ UNCHANGED <<account, expired, issued, intent, current, now>>

\* The file is written and must still be the one that was created.
VerifyLock(f) ==
    /\ flight[f].stage = "created"
    /\ IF lock.by = f THEN Goto(f, "holding") /\ UNCHANGED current ELSE Ends(f, flight)
    /\ UNCHANGED <<account, expired, issued, lock, intent, now>>

\* A file that has been there for too long, looked at twice ...
JudgeLock(f) ==
    /\ At(f, "locking") /\ lock.there
    /\ now - lock.at > LockStale
    /\ Goto(f, "unlinking")
    /\ UNCHANGED <<account, expired, issued, lock, intent, current, now>>

\* What becomes of flights when the lock file is removed by its name: one that
\* counted on it has lost its protection.
Robbed(f) ==
    [g \in Flights |->
        IF g # f /\ lock.by = g /\ flight[g].stage \in Running \ {"closing", "removing", "settling"}
        THEN [flight[g] EXCEPT !.robbed = TRUE] ELSE flight[g]]

\* ... is removed by its name, whoever has put it there meanwhile.
UnlinkLock(f) ==
    /\ flight[f].stage = "unlinking"
    /\ lock' = NoLock
    /\ flight' = [Robbed(f) EXCEPT ![f].stage = "locking"]
    /\ UNCHANGED <<account, expired, issued, intent, current, now>>

\* OAUTH_REFRESH_LOCK_WAIT_MS are over.
GiveUp(f) ==
    /\ At(f, "locking") /\ lock.there
    /\ Ends(f, flight)
    /\ UNCHANGED <<account, expired, issued, lock, intent, now>>

\* guard.release: only the own file ...
Release(f) ==
    /\ At(f, "closing")
    /\ IF lock.by = f THEN Goto(f, "removing") /\ UNCHANGED current ELSE Ends(f, flight)
    /\ UNCHANGED <<account, expired, issued, lock, intent, now>>

\* ... but that, too, is removed by its name.
RemoveLock(f) ==
    /\ flight[f].stage = "removing"
    /\ lock' = NoLock
    /\ Ends(f, Robbed(f))
    /\ UNCHANGED <<account, expired, issued, intent, now>>

-----------------------------------------------------------------------------
(* Under the lock (refreshAnthropicAccountWithLock).                       *)

ReadAccount(f) ==
    /\ At(f, "holding")
    /\ IF account.there
       THEN flight' = [flight EXCEPT ![f].stage = "examining", ![f].cred = account.cred,
                                     ![f].flagged = account.flagged]
       ELSE Closing(f, TRUE)
    /\ UNCHANGED <<account, expired, issued, lock, intent, current, now>>

\* What the intent file means for the credential that was read.
Examine(f) ==
    LET me == flight[f]
        outstanding == intent.there /\ intent.token = me.cred.token
        ofReplaced == intent.by = me.replaced
        undone == ofReplaced /\ ~me.replacedSent /\ ~intent.staleOwner
    IN  /\ me.stage = "examining"
        /\ \/ /\ outstanding /\ intent.staleOwner
              /\ Closing(f, FALSE)
              /\ UNCHANGED intent
           \/ /\ outstanding /\ ~intent.staleOwner /\ ofReplaced /\ me.replacedSent
              /\ intent' = [intent EXCEPT !.staleOwner = TRUE]
              /\ Closing(f, FALSE)
           \/ /\ outstanding /\ ~intent.staleOwner /\ ~ofReplaced
              /\ flight' = [flight EXCEPT ![f] = [@ EXCEPT !.stage = "condemned",
                               !.replaced = NoFlight, !.replacedSent = FALSE, !.flagged = FALSE]]
              /\ UNCHANGED intent
           \/ /\ ~outstanding \/ undone
              /\ intent' = NoIntent
              /\ IF me.flagged THEN Closing(f, TRUE)
                 ELSE IF me.cred.token # me.caller /\ Fresh(me.cred) THEN Closing(f, FALSE)
                 ELSE flight' = [flight EXCEPT ![f] = [@ EXCEPT !.stage = "intending",
                                   !.replaced = NoFlight, !.replacedSent = FALSE]]
        /\ UNCHANGED <<account, expired, issued, lock, current, now>>

\* writeOAuthRefreshIntent.
Intend(f) ==
    /\ flight[f].stage = "intending"
    /\ intent' = [there |-> TRUE, token |-> flight[f].cred.token, by |-> f, staleOwner |-> FALSE]
    /\ Goto(f, "intended")
    /\ UNCHANGED <<account, expired, issued, lock, current, now>>

\* Mutant: whether the flight was replaced is not looked at again.
DispatchAnyway(f) ==
    /\ flight[f].stage = "intended"
    /\ flight' = [flight EXCEPT ![f].stage = "dispatched", ![f].dispatched = TRUE]
    /\ UNCHANGED <<account, expired, issued, lock, intent, current, now>>

\* The grant leaves, unless the flight was replaced meanwhile.
Dispatch(f) ==
    /\ flight[f].stage = "intended"
    /\ IF flight[f].aborted THEN Closing(f, FALSE)
       ELSE flight' = [flight EXCEPT ![f].stage = "dispatched", ![f].dispatched = TRUE]
    /\ UNCHANGED <<account, expired, issued, lock, intent, current, now>>

\* The token endpoint, which alone ends the wait for it: an abort does not.
Answer(f) ==
    /\ flight[f].stage = "dispatched"
    /\ \/ /\ issued < MaxTokens
          /\ issued' = issued + 1
          /\ flight' = [flight EXCEPT ![f].stage = "answered", ![f].fresh =
                          [flight[f].cred EXCEPT !.token = issued + 1]]
       \/ /\ \/ Goto(f, "refused")              \* the grant is not valid
             \/ Closing(f, FALSE)               \* no answer, or none that tells
          /\ UNCHANGED issued
    /\ UNCHANGED <<account, expired, lock, intent, current, now>>

-----------------------------------------------------------------------------
(* The store.                                                              *)

Matches(token) == account.there /\ account.cred.token = token

\* markAccountNeedsReauthIfGeneration.
Flagged(token) == IF Matches(token) THEN [account EXCEPT !.flagged = TRUE] ELSE account

\* Mutant: whatever credential is stored by now is replaced.
MergedAnyway(token, cred) ==
    IF account.there THEN [account EXCEPT !.cred = cred, !.flagged = FALSE] ELSE account

\* mergeAccountCredential.
Merged(token, cred) ==
    IF Matches(token) THEN [account EXCEPT !.cred = cred, !.flagged = FALSE] ELSE account

\* A change of the store that is not made: its queue is full, another program
\* holds its lock, or there is no account to merge into.
Unsaved(f) ==
    /\ Closing(f, FALSE)
    /\ UNCHANGED account

Condemn(f) ==
    /\ At(f, "condemned")
    /\ \/ /\ account' = Flagged(flight[f].cred.token)
          /\ Closing(f, TRUE)
       \/ Unsaved(f)
    /\ UNCHANGED <<expired, issued, lock, intent, current, now>>

Refuse(f) ==
    /\ At(f, "refused")
    /\ \/ /\ account' = Flagged(flight[f].cred.token)
          /\ flight' = [flight EXCEPT ![f].stage = "clearing", ![f].relogin = TRUE]
       \/ Unsaved(f)
    /\ UNCHANGED <<expired, issued, lock, intent, current, now>>

\* The answer is stored, or the stored credential is newer and is handed out.
Merge(f) ==
    LET token == flight[f].cred.token
        relogin == ~Matches(token) /\ ~Fresh(account.cred)
    IN  /\ At(f, "answered")
        /\ \/ /\ account.there
              /\ account' = Merged(token, flight[f].fresh)
              /\ flight' = [flight EXCEPT ![f].stage = "clearing", ![f].relogin = relogin,
                                     ![f].fresh = FirstCredential]
           \/ Unsaved(f)
        /\ UNCHANGED <<expired, issued, lock, intent, current, now>>

\* clearOAuthRefreshIntent.
Clear(f) ==
    /\ At(f, "clearing")
    /\ intent' = IF intent.token = flight[f].cred.token THEN NoIntent ELSE intent
    /\ Closing(f, flight[f].relogin)
    /\ UNCHANGED <<account, expired, issued, lock, current, now>>

\* The account is flagged for the credential that the flight was begun with, if
\* the store can be changed.
Settle(f) ==
    /\ At(f, "settling")
    /\ account' \in {Flagged(flight[f].caller), account}
    /\ flight' = [flight EXCEPT ![f] = Over(f)]
    /\ current' = Unlisted(f)
    /\ UNCHANGED <<expired, issued, lock, intent, now>>

-----------------------------------------------------------------------------
(* The surroundings.                                                       *)

\* A stored credential comes near its end.
Expire ==
    /\ account.there /\ Fresh(account.cred) /\ account.cred.token < MaxTokens
    /\ expired' = expired \cup {account.cred.token}
    /\ UNCHANGED <<account, issued, lock, intent, current, flight, now>>

\* saveCredential, by any program.
Login ==
    /\ issued < MaxTokens
    /\ issued' = issued + 1
    /\ account' = [there |-> TRUE, flagged |-> FALSE,
                   cred |-> [token |-> issued + 1, login |-> issued + 1]]
    /\ UNCHANGED <<expired, lock, intent, current, flight, now>>

\* removeAccount.
Remove ==
    /\ account.there
    /\ account' = [account EXCEPT !.there = FALSE, !.flagged = FALSE]
    /\ UNCHANGED <<expired, issued, lock, intent, current, flight, now>>

\* A process dies and is started again; files stay as they are.
Crash(p) ==
    /\ \E f \in Flights : flight[f].home = p /\ flight[f].stage \in Running
    /\ current' = [current EXCEPT ![p] = NoFlight]
    /\ flight' = [f \in Flights |->
         IF flight[f].home = p /\ flight[f].stage \in Running THEN Over(f) ELSE flight[f]]
    /\ UNCHANGED <<account, expired, issued, lock, intent, now>>

\* The clock also moves on while a computer sleeps.
Tick ==
    /\ now < MaxTime
    /\ now' = now + 1
    /\ UNCHANGED <<account, expired, issued, lock, intent, current, flight>>

Step(f) ==
    \/ CreateLock(f) \/ VerifyLock(f) \/ JudgeLock(f) \/ UnlinkLock(f) \/ GiveUp(f)
    \/ ReadAccount(f) \/ Examine(f) \/ Intend(f) \/ Dispatch(f) \/ Answer(f)
    \/ Condemn(f) \/ Refuse(f) \/ Merge(f) \/ Clear(f)
    \/ Release(f) \/ RemoveLock(f) \/ Settle(f)

Next ==
    \/ \E f \in Flights : Step(f) \/ \E p \in Processes : Ask(f, p)
    \/ Expire \/ Login \/ Remove
    \/ \E p \in Processes : Crash(p)
    \/ Tick

Spec == Init /\ [][Next]_vars

-----------------------------------------------------------------------------

FlightRecords ==
    [stage : Running \cup {"idle", "done"}, home : Processes \cup {NoProcess},
     caller : Tokens, cred : Credentials, flagged : BOOLEAN, began : 0..MaxTime,
     aborted : BOOLEAN, dispatched : BOOLEAN, robbed : BOOLEAN,
     replaced : Flights \cup {NoFlight}, replacedSent : BOOLEAN,
     relogin : BOOLEAN, fresh : Credentials]

\* The last part: a process lists the flight that it runs and has not replaced.
TypeOK ==
    /\ account \in [there : BOOLEAN, cred : Credentials, flagged : BOOLEAN]
    /\ expired \subseteq Tokens /\ issued \in Tokens /\ now \in 0..MaxTime
    /\ lock \in [there : BOOLEAN, by : Flights \cup {NoFlight}, at : 0..MaxTime]
    /\ intent \in [there : BOOLEAN, token : Tokens, by : Flights \cup {NoFlight},
                   staleOwner : BOOLEAN]
    /\ current \in [Processes -> Flights \cup {NoFlight}]
    /\ flight \in [Flights -> FlightRecords]
    /\ \A f \in Flights :
         /\ flight[f].stage \in Running => flight[f].home \in Processes
         /\ \A p \in Processes : current[p] = f <=>
              flight[f].stage \in Running /\ ~flight[f].aborted /\ flight[f].home = p

\* "Anthropic never replays an outstanding oauth-source generation across
\* re-entry": a grant is sent once, whatever died, failed or was replaced since,
\* as long as no running flight has lost its lock file.
NeverReplayed ==
    (\A f \in Flights : ~flight[f].robbed) =>
        \A f, g \in Flights :
            f # g /\ flight[f].dispatched /\ flight[g].dispatched
                => flight[f].cred.token # flight[g].cred.token

\* "A concurrent successful refresh changes the credential generation, so this
\* late failure cannot mark the replacement": only a login brings an account back,
\* no refresh replaces a newer login, and a flag is for a credential that some
\* flight has started from.
LateAnswersYield ==
    [][Login \/
       /\ ~account.there => ~account'.there
       /\ account'.cred.login >= account.cred.login
       /\ (account'.flagged /\ ~account.flagged) =>
            \E f \in Flights :
                /\ flight[f].stage # "idle"
                /\ account.cred.token \in {flight[f].caller, flight[f].cred.token}]_vars

=============================================================================
