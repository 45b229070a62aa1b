--------------------------- MODULE CredentialRefresh ---------------------------
(***************************************************************************)
(* The credentials of pool accounts and their refresh                      *)
(* (src/src/codex/account-store.ts): callers of getValidCodexToken share   *)
(* the flight of their process, flights of several processes meet at a     *)
(* lock file per refresh grant, the upstream may rotate the grant, and the *)
(* answer is stored only for the generation the flight started from.       *)
(*                                                                         *)
(* A process runs one callback at a time; stages that it passes through    *)
(* without an await are separate steps here only where another process     *)
(* can come in between.                                                    *)
(***************************************************************************)
EXTENDS Naturals, FiniteSets

CONSTANTS
    Processes,         \* programs that share the configuration directory
    Accounts,
    Callers,
    NoCaller, NoProcess,
    FlightLimit,       \* MAX_CODEX_REFRESH_FLIGHTS
    LockStale,         \* REFRESH_LOCK_STALE_MS
    FlightStale,       \* CODEX_REFRESH_FLIGHT_STALE_MS
    MaxTime,           \* bound on the clock
    MaxTokens          \* bound on tokens issued

ASSUME RefreshAssumption ==
    /\ Accounts # {}
    /\ NoCaller \notin Callers /\ NoProcess \notin Processes
    /\ FlightLimit \in Nat \ {0}
    /\ {LockStale, FlightStale, MaxTime, MaxTokens} \subseteq Nat

VARIABLES
    record,            \* codex-accounts.json
    expired, issued,   \* tokens past their lifetime; number of the last one
    lock,              \* the lock file of a refresh grant
    flights,           \* refreshLocks of a process: grant -> caller
    call,              \* a caller in getValidCodexToken, with its own flight
    now

upstream == <<expired, issued>>
vars == <<record, expired, issued, lock, flights, call, now>>

Tokens == 0..MaxTokens

\* A grant is named after the token it came with; login is history.
Credentials == [token : Tokens, grant : Tokens, login : Tokens]
FirstCredential == [token |-> 0, grant |-> 0, login |-> 0]

NoLock == [by |-> NoCaller, there |-> FALSE, written |-> FALSE, at |-> 0]

\* The error classes are told apart elsewhere only.
Outcome(kind) == [kind |-> kind, cred |-> FirstCredential, generation |-> 0]
NoOutcome == Outcome("none")
Failure == Outcome("failed")
Token(cred, generation) == [kind |-> "token", cred |-> cred, generation |-> generation]

Resting == [stage |-> "idle", home |-> NoProcess, account |-> CHOOSE a \in Accounts : TRUE, on |-> NoCaller,
            grant |-> 0, start |-> 0, began |-> 0, aborted |-> FALSE,
            reply |-> NoOutcome, outcome |-> NoOutcome]

\* Mutant: an error is handed out like a token.
AnsweredAnyway(p, a, outcome) ==
    [Resting EXCEPT !.stage = "done", !.home = p, !.account = a, !.outcome = outcome]

\* A caller is handed a token, or an error and nothing to hold on to.
Answered(p, a, outcome) ==
    IF outcome.kind = "token"
    THEN [Resting EXCEPT !.stage = "done", !.home = p, !.account = a, !.outcome = outcome]
    ELSE Resting

\* Stages of a flight, and those in which its process does nothing else.
Flying ==
    {"locking", "judging", "reclaiming", "created", "adopting", "requested", "replied", "closing"}
Synchronous == {"judging", "reclaiming", "created", "adopting"}

Init ==
    /\ record = [a \in Accounts |->
                   [generation |-> 1, deleted |-> FALSE, cred |-> FirstCredential]]
    /\ expired = {} /\ issued = 0
    /\ lock = [g \in Tokens |-> NoLock]
    /\ flights = [p \in Processes |-> [g \in Tokens |-> NoCaller]]
    /\ call = [c \in Callers |-> Resting]
    /\ now = 0

-----------------------------------------------------------------------------

Fresh(cred) == cred.token \notin expired

InFlight(p) == {g \in Tokens : flights[p][g] # NoCaller}

\* The process of c is not in the middle of another call, and callers that a
\* promise has woken go first.
Free(p, c) ==
    \A d \in Callers \ {c} : call[d].home = p =>
        /\ call[d].stage \notin Synchronous
        /\ call[d].stage = "resumed" => call[c].stage = "resumed"

Quiet(p) ==
    \A c \in Callers : call[c].home = p =>
        call[c].stage \notin Synchronous \cup {"resumed"}

Turn(c) == Free(call[c].home, c)

\* Tokens past their lifetime are refreshed by the caller itself, by the flight
\* that is under way, or, if that one is too old, by a new one that replaces it.
Entered(c, p, a, flight) ==
    LET rec == record[a]  g == rec.cred.grant
        old == flight /\ now - call[flights[p][g]].began > FlightStale
        taken == IF old THEN InFlight(p) \ {g} ELSE InFlight(p)
        Others == IF old THEN [call EXCEPT ![flights[p][g]].aborted = TRUE] ELSE call
        Without == IF old THEN [flights EXCEPT ![p][g] = NoCaller] ELSE flights
    IN  IF rec.deleted
        THEN /\ call' = [call EXCEPT ![c] = Resting]
             /\ UNCHANGED flights
        ELSE IF Fresh(rec.cred)
        THEN /\ call' = [call EXCEPT ![c] = Answered(p, a, Token(rec.cred, rec.generation))]
             /\ UNCHANGED flights
        ELSE IF flight /\ ~old
        THEN /\ call' = [call EXCEPT ![c] =
                   [Resting EXCEPT !.stage = "joined", !.home = p, !.account = a, !.grant = g,
                                   !.on = flights[p][g]]]
             /\ UNCHANGED flights
        ELSE IF Cardinality(taken) >= FlightLimit
        THEN /\ call' = [Others EXCEPT ![c] = Resting]
             /\ flights' = Without
        ELSE /\ call' = [Others EXCEPT ![c] =
                   [Resting EXCEPT !.stage = "locking", !.home = p, !.account = a, !.grant = g,
                                   !.on = c, !.began = now]]
             /\ flights' = [Without EXCEPT ![p][g] = c]

Enter(c, p, a) == Entered(c, p, a, flights[p][record[a].cred.grant] # NoCaller)

\* getValidCodexToken is called.
Ask(c, p, a) ==
    /\ call[c].stage = "idle" /\ Free(p, c)
    /\ Enter(c, p, a)
    /\ UNCHANGED <<record, upstream, lock, now>>

\* The caller has used what it was handed.
Leave(c) ==
    /\ call[c].stage = "done"
    /\ call' = [call EXCEPT ![c] = Resting]
    /\ UNCHANGED <<record, upstream, lock, flights, now>>

-----------------------------------------------------------------------------
(* The lock file.                                                          *)

Closing(c, outcome) ==
    [call EXCEPT ![c] = [@ EXCEPT !.stage = "closing", !.start = 0,
                                  !.reply = NoOutcome, !.outcome = outcome]]

\* A file that cannot be read or parsed counts as stale: also one that was just
\* created, or that is gone by now.
Abandoned(g) ==
    \/ ~lock[g].there \/ ~lock[g].written
    \/ now - lock[g].at > LockStale

CreateLock(c) ==
    /\ call[c].stage = "locking" /\ ~call[c].aborted /\ Turn(c)
    /\ ~lock[call[c].grant].there
    /\ lock' = [lock EXCEPT ![call[c].grant] = [NoLock EXCEPT !.by = c, !.there = TRUE]]
    /\ call' = [call EXCEPT ![c].stage = "created"]
    /\ UNCHANGED <<record, upstream, flights, now>>

\* The file exists already ...
MeetLock(c) ==
    /\ call[c].stage = "locking" /\ ~call[c].aborted /\ Turn(c)
    /\ lock[call[c].grant].there
    /\ call' = [call EXCEPT ![c].stage = "judging"]
    /\ UNCHANGED <<record, upstream, lock, flights, now>>

\* ... and is read: either it is stale, or it is waited for.
JudgeLock(c) ==
    /\ call[c].stage = "judging"
    /\ call' = [call EXCEPT ![c].stage =
                   IF Abandoned(call[c].grant) THEN "reclaiming" ELSE "locking"]
    /\ UNCHANGED <<record, upstream, lock, flights, now>>

\* The file is removed by its name, whoever has put it there meanwhile.
ReclaimLock(c) ==
    /\ call[c].stage = "reclaiming"
    /\ lock' = [lock EXCEPT ![call[c].grant] = NoLock]
    /\ call' = [call EXCEPT ![c].stage = "locking"]
    /\ UNCHANGED <<record, upstream, flights, now>>

\* Fresh credentials of another account that came with the same grant.
Siblings(a, g) ==
    {record[b].cred : b \in {b \in Accounts \ {a} :
        ~record[b].deleted /\ record[b].cred.grant = g /\ Fresh(record[b].cred)}}

\* The lock is written, and the record read again under it.
Locked(c) ==
    LET a == call[c].account  g == call[c].grant  rec == record[a]
        Goto(stage) == [call EXCEPT ![c].stage = stage, ![c].start = rec.generation]
    IN  /\ call[c].stage = "created"
        /\ lock' = IF lock[g].by = c
                   THEN [lock EXCEPT ![g].written = TRUE, ![g].at = now] ELSE lock
        /\ IF rec.deleted THEN call' = Closing(c, Failure)
           ELSE IF Fresh(rec.cred) THEN call' = Closing(c, Token(rec.cred, rec.generation))
           ELSE IF rec.cred.grant # g THEN call' = Closing(c, Failure)
           ELSE IF Siblings(a, g) # {}
           THEN \E cred \in Siblings(a, g) :
                    call' = [Goto("adopting") EXCEPT ![c].reply = Token(cred, 0)]
           ELSE call' = [Goto("requested") EXCEPT ![c].reply = Token(rec.cred, 0)]
        /\ UNCHANGED <<record, upstream, flights, now>>

-----------------------------------------------------------------------------
(* The store.                                                              *)

Matches(a, generation) == record[a].generation = generation /\ ~record[a].deleted

\* Mutant: the generation is not advanced.
SavedInPlace(a, generation, cred) ==
    IF Matches(a, generation) THEN [record EXCEPT ![a].cred = cred] ELSE record

\* saveCodexAccountCredentialIfGeneration.
Saved(a, generation, cred) ==
    IF Matches(a, generation)
    THEN [record EXCEPT ![a].cred = cred, ![a].generation = generation + 1]
    ELSE record

\* A save, and what the caller is told of it.  Another program may hold the
\* mutation lock of the configuration, which fails the save at once.
Save(a, cred, generation, outcome) ==
    \/ /\ outcome = IF Matches(a, generation) THEN Token(cred, generation + 1) ELSE Failure
       /\ record' = Saved(a, generation, cred)
    \/ /\ outcome = Failure
       /\ UNCHANGED record

SaveReply(c) ==
    \E outcome \in {Failure, Token(call[c].reply.cred, call[c].start + 1)} :
        /\ Save(call[c].account, call[c].reply.cred, call[c].start, outcome)
        /\ call' = Closing(c, outcome)

\* The fresh credential of a sibling is taken over.
Adopt(c) ==
    /\ call[c].stage = "adopting"
    /\ SaveReply(c)
    /\ UNCHANGED <<upstream, lock, flights, now>>

\* The answer of the upstream is read to its end.
Receive(c) ==
    /\ call[c].stage = "replied" /\ ~call[c].aborted /\ Turn(c)
    /\ IF call[c].reply.kind = "token" THEN SaveReply(c)
       ELSE call' = Closing(c, Failure) /\ UNCHANGED record
    /\ UNCHANGED <<upstream, lock, flights, now>>

\* Mutant: the lock file is not removed when a flight ends early.
InterruptAtOnce(c) ==
    /\ call[c].stage \in {"requested", "replied"} /\ Turn(c)
    /\ flights' = [flights EXCEPT ![call[c].home] =
                     [g \in Tokens |-> IF @[g] = c THEN NoCaller ELSE @[g]]]
    /\ call' = [call EXCEPT ![c] = Resting]
    /\ UNCHANGED <<record, upstream, lock, now>>

\* Thirty seconds are over, the flight was replaced, or the upstream cannot be
\* reached.
Interrupt(c) ==
    /\ call[c].stage \in {"requested", "replied"} /\ Turn(c)
    /\ call' = Closing(c, Failure)
    /\ UNCHANGED <<record, upstream, lock, flights, now>>

-----------------------------------------------------------------------------
(* The end of a flight.                                                    *)

\* Mutant: whatever flight has taken its place is cleared as well.
LandedWithSuccessor(c) == [flights EXCEPT ![call[c].home][call[c].grant] = NoCaller]

\* refreshLocks is cleared only of the flight itself.
Landed(c) ==
    LET p == call[c].home
    IN  [flights EXCEPT ![p] = [g \in Tokens |-> IF @[g] = c THEN NoCaller ELSE @[g]]]

\* The flight's promise settles, and with it everyone who awaits it.
Settled(c, outcome) ==
    [d \in Callers |->
        IF d = c THEN Answered(call[c].home, call[c].account, outcome)
        ELSE IF call[d].stage = "joined" /\ call[d].on = c
        THEN [call[d] EXCEPT !.stage = "resumed", !.on = NoCaller, !.outcome = outcome]
        ELSE call[d]]

\* The lock file is removed by its name, then the flight is over.
Close(c) ==
    /\ call[c].stage = "closing" /\ Turn(c)
    /\ lock' = [lock EXCEPT ![call[c].grant] = NoLock]
    /\ flights' = Landed(c)
    /\ call' = Settled(c, call[c].outcome)
    /\ UNCHANGED <<record, upstream, now>>

\* Mutant: a flight that was replaced waits on for the lock.
GiveUpUnlessReplaced(c) ==
    /\ call[c].stage = "locking" /\ ~call[c].aborted /\ Turn(c)
    /\ flights' = Landed(c)
    /\ call' = Settled(c, Failure)
    /\ UNCHANGED <<record, upstream, lock, now>>

\* The flight ends while it waits for the lock.
GiveUp(c) ==
    /\ call[c].stage = "locking" /\ Turn(c)
    /\ flights' = Landed(c)
    /\ call' = Settled(c, Failure)
    /\ UNCHANGED <<record, upstream, lock, now>>

\* Its own account takes the credential over.
TakeOver(c) ==
    LET a == call[c].account  cred == call[c].outcome.cred  generation == record[a].generation
    IN  /\ \E outcome \in {Failure, Token(cred, generation + 1)} :
             /\ Save(a, cred, generation, outcome)
             /\ call' = [call EXCEPT ![c] = Answered(call[c].home, a, outcome)]
        /\ UNCHANGED flights

\* Mutant: the grant of the account is not compared again.
ResumeUnchecked(c) ==
    /\ call[c].stage = "resumed" /\ Turn(c)
    /\ IF call[c].outcome.kind # "token"
       THEN call' = [call EXCEPT ![c] = Resting] /\ UNCHANGED <<record, flights>>
       ELSE TakeOver(c)
    /\ UNCHANGED <<upstream, lock, now>>

\* A caller that had joined: its account takes the credential over if it still
\* has the grant that was refreshed, and is looked at again otherwise.
Resume(c) ==
    LET a == call[c].account
    IN  /\ call[c].stage = "resumed" /\ Turn(c)
        /\ IF call[c].outcome.kind # "token"
           THEN call' = [call EXCEPT ![c] = Resting] /\ UNCHANGED <<record, flights>>
           ELSE IF ~record[a].deleted /\ record[a].cred.grant = call[c].grant
           THEN TakeOver(c)
           ELSE Enter(c, call[c].home, a) /\ UNCHANGED record
        /\ UNCHANGED <<upstream, lock, now>>

-----------------------------------------------------------------------------
(* The surroundings.                                                       *)

\* The token endpoint refreshes a grant, with or without a new grant, or it does
\* not.  It may do so more than once: nothing below relies on grants being spent.
Answer(c) ==
    LET Reply(answer) == call' = [call EXCEPT ![c].stage = "replied", ![c].reply = answer]
    IN  /\ call[c].stage = "requested"
        /\ \/ /\ issued < MaxTokens
              /\ issued' = issued + 1
              /\ \E grant \in {call[c].grant, issued + 1} :
                   Reply(Token([call[c].reply.cred EXCEPT !.token = issued + 1,
                                                          !.grant = grant], 0))
           \/ Reply(Failure) /\ UNCHANGED issued
        /\ UNCHANGED <<record, expired, lock, flights, now>>

\* A stored access token reaches the last minute of its lifetime.
Expire(a) ==
    /\ ~record[a].deleted /\ Fresh(record[a].cred)
    /\ expired' = expired \cup {record[a].cred.token}
    /\ UNCHANGED <<record, issued, lock, flights, call, now>>

\* saveCodexAccountCredential: a login or an import.
SignIn(a) ==
    /\ \E p \in Processes : Quiet(p)
    /\ issued < MaxTokens
    /\ issued' = issued + 1
    /\ record' = [record EXCEPT ![a] =
         [generation |-> @.generation + 1, deleted |-> FALSE,
          cred |-> [token |-> issued + 1, grant |-> issued + 1, login |-> issued + 1]]]
    /\ UNCHANGED <<expired, lock, flights, call, now>>

\* tombstoneCodexAccount.
Remove(a) ==
    /\ \E p \in Processes : Quiet(p)
    /\ ~record[a].deleted
    /\ record' = [record EXCEPT ![a].deleted = TRUE, ![a].generation = @ + 1]
    /\ UNCHANGED <<upstream, lock, flights, call, now>>

\* A process dies and comes back; files stay as they are.
Crash(p) ==
    LET dead == {c \in Callers : call[c].home = p}
    IN  /\ dead # {}
        /\ lock' = [g \in Tokens |->
             IF lock[g].by \in dead THEN [lock[g] EXCEPT !.by = NoCaller] ELSE lock[g]]
        /\ flights' = [flights EXCEPT ![p] = [g \in Tokens |-> NoCaller]]
        /\ call' = [c \in Callers |-> IF c \in dead THEN Resting ELSE call[c]]
        /\ UNCHANGED <<record, upstream, now>>

\* The clock may also jump while a computer sleeps.
Tick ==
    /\ now < MaxTime
    /\ now' = now + 1
    /\ UNCHANGED <<record, upstream, lock, flights, call>>

Flight(c) ==
    \/ CreateLock(c) \/ MeetLock(c) \/ JudgeLock(c) \/ ReclaimLock(c) \/ Locked(c)
    \/ Adopt(c) \/ Receive(c) \/ Interrupt(c) \/ Close(c) \/ GiveUp(c)

Next ==
    \/ \E c \in Callers :
         \/ \E p \in Processes, a \in Accounts : Ask(c, p, a)
         \/ Leave(c) \/ Flight(c) \/ Resume(c) \/ Answer(c)
    \/ \E a \in Accounts : Expire(a) \/ SignIn(a) \/ Remove(a)
    \/ \E p \in Processes : Crash(p)
    \/ Tick

Spec == Init /\ [][Next]_vars

\* A process takes its callbacks in turn, so that none which stays due waits for
\* ever.  The signal of a flight stays fired: the loop that waits for the lock
\* looks at it every time around.
Fairness ==
    \A c \in Callers : SF_vars(Flight(c)) /\ WF_vars(Resume(c)) /\ SF_vars(GiveUp(c))

FairSpec == Spec /\ Fairness

-----------------------------------------------------------------------------

Outcomes == [kind : {"none", "token", "failed"}, cred : Credentials, generation : Nat]

Calls ==
    [stage : Flying \cup {"idle", "joined", "resumed", "done"},
     home : Processes \cup {NoProcess}, account : Accounts, on : Callers \cup {NoCaller},
     grant : Tokens, start : Nat, began : 0..MaxTime, aborted : BOOLEAN,
     reply : Outcomes, outcome : Outcomes]

TypeOK ==
    /\ record \in [Accounts -> [generation : Nat, deleted : BOOLEAN, cred : Credentials]]
    /\ issued \in Tokens /\ now \in 0..MaxTime
    /\ expired \subseteq Tokens
    /\ lock \in [Tokens -> [by : Callers \cup {NoCaller}, there : BOOLEAN,
                            written : BOOLEAN, at : 0..MaxTime]]
    /\ flights \in [Processes -> [Tokens -> Callers \cup {NoCaller}]]
    /\ call \in [Callers -> Calls]
    /\ \A c \in Callers :
         /\ call[c].stage # "idle" => call[c].home \in Processes
         /\ call[c].stage = "done" => call[c].outcome.kind = "token"

Handed(c) == call[c].stage \in {"closing", "done"} /\ call[c].outcome.kind = "token"

\* Everything that uses a token later asks whether its generation is still live
\* (isCodexAccountGenerationLive) and takes that for "still the credential I was
\* given": as long as it is, the stored token is the one that was handed out.
\* A joined caller may work for a sibling of the account it flies with.
GenerationNamesCredential ==
    \A c \in Callers : \A a \in {call[c].account} :
        (Handed(c) /\ Matches(a, call[c].outcome.generation))
            => record[a].cred = call[c].outcome.cred

\* "A newer writer wins, and an older refresh result cannot overwrite it": only
\* a login brings back a removed account, and a refresh of an earlier login never
\* replaces what a later one has stored.
NewerLoginStays ==
    [][\A a \in Accounts :
         \/ SignIn(a)
         \/ /\ record[a].deleted => record'[a].deleted
            /\ record'[a].cred.login >= record[a].cred.login]_vars

\* "Concurrent callers share one refresh promise": a process flies a grant once,
\* but for a flight it has given up.
OneFlightPerGrant ==
    \A c, d \in Callers :
        (/\ c # d /\ call[c].home = call[d].home
         /\ \A f \in {c, d} : call[f].stage \in Flying /\ ~call[f].aborted)
            => call[c].grant # call[d].grant

\* No call ends with its lock file or its place among the flights left behind;
\* only a crash leaves a file.
NothingLeftBehind ==
    /\ \A g \in Tokens : lock[g].by # NoCaller
          => call[lock[g].by].stage \in Flying \ {"locking", "judging", "reclaiming"} /\ call[lock[g].by].grant = g
    /\ \A p \in Processes : \A g \in InFlight(p) :
          call[flights[p][g]].stage \in Flying /\ call[flights[p][g]].grant = g

\* Every call is answered, also if the upstream is silent, the flight it joined
\* was given up, or another process died with the lock.
EveryCallIsAnswered ==
    \A c \in Callers :
        call[c].stage \notin {"idle", "done"} ~> call[c].stage \in {"idle", "done"}

=============================================================================
