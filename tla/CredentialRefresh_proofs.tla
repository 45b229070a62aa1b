------------------------ MODULE CredentialRefresh_proofs ------------------------
(* What holds of CredentialRefresh for any number of processes, accounts and *)
(* callers: types, one flight per grant, and generations that name what was  *)
(* handed out.                                                               *)
EXTENDS CredentialRefresh, TLAPS

\* The outcomes a call is given are typed.
LEMMA OutcomeTypes ==
    ASSUME NEW cred \in Credentials, NEW generation \in Nat
    PROVE  /\ Token(cred, generation) \in Outcomes
           /\ Failure \in Outcomes /\ NoOutcome \in Outcomes
           /\ Failure.kind # "token"
BY RefreshAssumption
DEF Token, Failure, NoOutcome, Outcome, Outcomes, FirstCredential, Credentials, Tokens

LEMMA FirstType == FirstCredential \in Credentials /\ 0 \in Tokens /\ 0 \in 0..MaxTime
BY RefreshAssumption DEF FirstCredential, Credentials, Tokens

\* A resting call is typed, and nobody's flight.
LEMMA RestingType ==
    /\ Resting \in Calls /\ Resting.stage = "idle" /\ ~Resting.aborted
<1>1. NoOutcome \in Outcomes
  BY FirstType, OutcomeTypes, 0 \in Nat
<1>2. (CHOOSE a \in Accounts : TRUE) \in Accounts
  BY RefreshAssumption
<1> QED
  BY <1>1, <1>2, FirstType DEF Resting, Calls

\* So is an answered one.
LEMMA AnsweredType ==
    ASSUME NEW p \in Processes, NEW a \in Accounts, NEW o \in Outcomes
    PROVE  /\ Answered(p, a, o) \in Calls
           /\ Answered(p, a, o).stage \in {"idle", "done"}
           /\ Answered(p, a, o).stage = "done" =>
                /\ o.kind = "token"
                /\ Answered(p, a, o).outcome = o /\ Answered(p, a, o).account = a
<1>1. CASE o.kind = "token"
  <2>1. Answered(p, a, o) =
          [Resting EXCEPT !.stage = "done", !.home = p, !.account = a, !.outcome = o]
    BY <1>1 DEF Answered
  <2> QED
    BY <1>1, <2>1, RestingType DEF Calls
<1>2. CASE o.kind # "token"
  BY <1>2, RestingType DEF Answered
<1> QED
  BY <1>1, <1>2

-----------------------------------------------------------------------------
(* Types.                                                                  *)

\* The part of the type invariant that speaks of calls and flights.
CallsOK ==
    /\ call \in [Callers -> Calls]
    /\ flights \in [Processes -> [Tokens -> Callers \cup {NoCaller}]]
    /\ \A c \in Callers :
         /\ call[c].stage # "idle" => call[c].home \in Processes
         /\ call[c].stage = "done" => call[c].outcome.kind = "token"

LEMMA RecordType ==
    ASSUME TypeOK, NEW a \in Accounts
    PROVE  /\ record[a].generation \in Nat /\ record[a].deleted \in BOOLEAN
           /\ record[a].cred \in Credentials
           /\ record[a].cred.token \in Tokens /\ record[a].cred.grant \in Tokens
BY DEF TypeOK, Credentials

\* One call is replaced by a typed one.
LEMMA ReplacedType ==
    ASSUME CallsOK, NEW c \in Callers, NEW x \in Calls,
           x.stage # "idle" => x.home \in Processes,
           x.stage = "done" => x.outcome.kind = "token",
           call' = [call EXCEPT ![c] = x], UNCHANGED flights
    PROVE  CallsOK'
BY DEF CallsOK

\* Two calls that differ at most in being abandoned by their process.
Alike(x, y) ==
    /\ x.stage = y.stage /\ x.home = y.home /\ x.account = y.account /\ x.on = y.on
    /\ x.grant = y.grant /\ x.start = y.start /\ x.reply = y.reply /\ x.outcome = y.outcome

\* A call is abandoned by its process: nothing else about it changes.
LEMMA AbortedType ==
    ASSUME CallsOK, NEW f \in Callers
    PROVE  LET D == [call EXCEPT ![f].aborted = TRUE]
           IN  /\ D \in [Callers -> Calls]
               /\ \A d \in Callers :
                    /\ Alike(D[d], call[d])
                    /\ d = f => D[d].aborted
                    /\ ~D[d].aborted => ~call[d].aborted
<1>1. call[f] \in Calls
  BY DEF CallsOK
<1> QED
  BY <1>1 DEF CallsOK, Calls, Alike

\* What a call of getValidCodexToken finds at once: it ends, joins or flies, and
\* of the others at most the flight it replaces is told to stop.
EnteredAs(c, p, a) ==
    LET g == record[a].cred.grant
    IN  /\ call'[c].stage \in {"idle", "done", "joined", "locking"}
        /\ call'[c].stage = "done" =>
              /\ call'[c].account = a
              /\ call'[c].outcome = Token(record[a].cred, record[a].generation)
        /\ call'[c].stage \in {"joined", "locking"} =>
              call'[c].home = p /\ call'[c].grant = g /\ call'[c].account = a
        /\ call'[c].stage = "joined" =>
              call'[c].on = flights[p][g] /\ flights[p][g] # NoCaller /\ flights'[p][g] = flights[p][g]
        /\ call'[c].stage = "locking" => flights'[p][g] = c
        /\ flights'[p][g] = c => flights[p][g] = c \/ call'[c].stage = "locking"
        /\ flights'[p][g] \in {NoCaller, flights[p][g], c}
        /\ \A d \in Callers \ {c} :
              /\ Alike(call'[d], call[d])
              /\ ~call'[d].aborted => ~call[d].aborted
              /\ (d = flights[p][g] /\ ~call'[d].aborted) => flights'[p][g] = d
        /\ \A q \in Processes, h \in Tokens :
              (q # p \/ h # g) => flights'[q][h] = flights[q][h]

LEMMA EnterEffect ==
    ASSUME TypeOK, NEW c \in Callers, NEW p \in Processes, NEW a \in Accounts,
           call[c].stage \notin Flying,
           Enter(c, p, a)
    PROVE  CallsOK' /\ EnteredAs(c, p, a)
<1> DEFINE rec == record[a]
           g == rec.cred.grant
           old == flights[p][g] # NoCaller /\ now - call[flights[p][g]].began > FlightStale
           taken == IF old THEN InFlight(p) \ {g} ELSE InFlight(p)
           Others == IF old THEN [call EXCEPT ![flights[p][g]].aborted = TRUE] ELSE call
           Without == IF old THEN [flights EXCEPT ![p][g] = NoCaller] ELSE flights
<1>0. /\ CallsOK /\ g \in Tokens /\ rec.cred \in Credentials /\ rec.generation \in Nat
      /\ flights[p][g] \in Callers \cup {NoCaller} /\ now \in 0..MaxTime
  BY RecordType DEF TypeOK, CallsOK
<1>1. CASE call' = [call EXCEPT ![c] = Resting] /\ UNCHANGED flights
  BY <1>0, <1>1, ReplacedType, RestingType DEF CallsOK, EnteredAs, Alike
<1>2. CASE /\ call' = [call EXCEPT ![c] = Answered(p, a, Token(rec.cred, rec.generation))]
           /\ UNCHANGED flights
  <2>1. Token(rec.cred, rec.generation) \in Outcomes
    BY <1>0, OutcomeTypes
  <2>2. Answered(p, a, Token(rec.cred, rec.generation)).home = p
    BY RestingType DEF Answered, Token, Calls
  <2> QED
    BY <1>0, <1>2, <2>1, <2>2, AnsweredType, ReplacedType DEF CallsOK, EnteredAs, Alike
<1>3. CASE /\ flights[p][g] # NoCaller
           /\ call' = [call EXCEPT ![c] =
                [Resting EXCEPT !.stage = "joined", !.home = p, !.account = a, !.grant = g,
                                !.on = flights[p][g]]]
           /\ UNCHANGED flights
  <2> DEFINE x == [Resting EXCEPT !.stage = "joined", !.home = p, !.account = a, !.grant = g,
                                  !.on = flights[p][g]]
  <2>1. x \in Calls /\ x.stage = "joined" /\ x.home = p
    BY <1>0, RestingType DEF Calls
  <2> QED
    BY <1>0, <1>3, <2>1, ReplacedType DEF CallsOK, EnteredAs, Alike
<1>4. /\ Others \in [Callers -> Calls]
      /\ Without \in [Processes -> [Tokens -> Callers \cup {NoCaller}]]
      /\ \A d \in Callers :
           /\ Alike(Others[d], call[d])
           /\ ~Others[d].aborted => ~call[d].aborted
           /\ old /\ d = flights[p][g] => Others[d].aborted
      /\ Without[p][g] \in {NoCaller, flights[p][g]}
      /\ \A q \in Processes, h \in Tokens :
           /\ (q # p \/ h # g) => Without[q][h] = flights[q][h]
           /\ ~old => Without[q][h] = flights[q][h]
  <2>1. CASE old
    <3>1. flights[p][g] \in Callers
      BY <1>0, <2>1
    <3>2. Others = [call EXCEPT ![flights[p][g]].aborted = TRUE]
      BY <2>1
    <3>3. Without = [flights EXCEPT ![p][g] = NoCaller]
      BY <2>1
    <3> HIDE DEF Others, Without, old
    <3>4. Others \in [Callers -> Calls] /\ \A d \in Callers :
           /\ Alike(Others[d], call[d])
           /\ d = flights[p][g] => Others[d].aborted
           /\ ~Others[d].aborted => ~call[d].aborted
      BY <1>0, <3>1, <3>2, AbortedType
    <3>5. /\ Without \in [Processes -> [Tokens -> Callers \cup {NoCaller}]]
          /\ Without[p][g] = NoCaller
          /\ \A q \in Processes, h \in Tokens :
               (q # p \/ h # g) => Without[q][h] = flights[q][h]
      BY <1>0, <3>3 DEF CallsOK
    <3> QED
      BY <2>1, <3>4, <3>5
  <2>2. CASE ~old
    BY <1>0, <2>2 DEF CallsOK, Alike
  <2> QED
    BY <2>1, <2>2
<1>5. CASE call' = [Others EXCEPT ![c] = Resting] /\ flights' = Without
  <2> HIDE DEF Others, Without, old
  <2>1. CallsOK'
    BY <1>0, <1>4, <1>5, RestingType DEF CallsOK, Alike
  <2>2. \A d \in Callers \ {c} : call'[d] = Others[d]
    BY <1>4, <1>5
  <2>3. call'[c] = Resting
    BY <1>4, <1>5
  <2>4. \A d \in Callers \ {c} :
          (d = flights[p][g] /\ ~call'[d].aborted) => flights'[p][g] = d
    BY <1>0, <1>4, <1>5, <2>2
  <2>5. flights'[p][g] \in {NoCaller, flights[p][g], c}
        /\ (flights'[p][g] = c => flights[p][g] = c)
    BY <1>4, <1>5, RefreshAssumption
  <2> QED
    BY <1>4, <1>5, <2>1, <2>2, <2>3, <2>4, <2>5, RestingType DEF EnteredAs
<1>6. CASE /\ flights[p][g] # NoCaller => old
           /\ call' = [Others EXCEPT ![c] =
                [Resting EXCEPT !.stage = "locking", !.home = p, !.account = a, !.grant = g,
                                !.on = c, !.began = now]]
           /\ flights' = [Without EXCEPT ![p][g] = c]
  <2> DEFINE x == [Resting EXCEPT !.stage = "locking", !.home = p, !.account = a, !.grant = g,
                                  !.on = c, !.began = now]
  <2>1. x \in Calls /\ x.stage = "locking" /\ x.home = p /\ x.grant = g /\ x.account = a
    BY <1>0, RestingType DEF Calls, Flying
  <2> HIDE DEF x, Others, Without
  <2>2. call' = [Others EXCEPT ![c] = x]
    BY <1>6 DEF x
  <2>3. CallsOK'
    BY <1>0, <1>4, <1>6, <2>1, <2>2 DEF CallsOK, Alike
  <2>4. call'[c] = x /\ \A d \in Callers \ {c} : call'[d] = Others[d]
    BY <1>4, <2>2
  <2>5. flights'[p][g] = c /\ \A q \in Processes, h \in Tokens :
          (q # p \/ h # g) => flights'[q][h] = flights[q][h]
    BY <1>0, <1>4, <1>6
  <2>6. \A d \in Callers \ {c} : d = flights[p][g] => call'[d].aborted
    BY <1>4, <1>6, <2>4, RefreshAssumption
  <2>7. \A d \in Callers \ {c} :
          /\ Alike(call'[d], call[d])
          /\ ~call'[d].aborted => ~call[d].aborted
    BY <1>4, <2>4
  <2> QED
    BY <2>1, <2>3, <2>4, <2>5, <2>6, <2>7 DEF EnteredAs
<1>7. Entered(c, p, a, flights[p][g] # NoCaller)
  BY DEF Enter
<1>a. CASE rec.deleted
  BY <1>1, <1>7, <1>a DEF Entered
<1>b. CASE ~rec.deleted /\ Fresh(rec.cred)
  BY <1>2, <1>7, <1>b DEF Entered
<1>c. CASE ~rec.deleted /\ ~Fresh(rec.cred) /\ flights[p][g] # NoCaller /\ ~old
  BY <1>3, <1>7, <1>c DEF Entered
<1>d. CASE /\ ~rec.deleted /\ ~Fresh(rec.cred) /\ ~(flights[p][g] # NoCaller /\ ~old)
           /\ Cardinality(taken) >= FlightLimit
  BY <1>5, <1>7, <1>d DEF Entered
<1>e. CASE /\ ~rec.deleted /\ ~Fresh(rec.cred) /\ ~(flights[p][g] # NoCaller /\ ~old)
           /\ ~(Cardinality(taken) >= FlightLimit)
  BY <1>6, <1>7, <1>e DEF Entered
<1> QED
  BY <1>a, <1>b, <1>c, <1>d, <1>e

-----------------------------------------------------------------------------
(* The inductive invariant.                                                *)

\* While a flight was not replaced, its place among the flights is its own.
HoldsItsPlace ==
    \A c \in Callers :
        (call[c].stage \in Flying /\ ~call[c].aborted)
            => flights[call[c].home][call[c].grant] = c

\* What x was handed is not ahead of the record, and the record's credential if
\* it has the record's generation.
Names(x, rec) ==
    x.outcome.kind = "token" =>
        /\ x.outcome.generation <= rec.generation
        /\ (x.outcome.generation = rec.generation /\ ~rec.deleted)
              => rec.cred = x.outcome.cred

Named ==
    \A c \in Callers :
        call[c].stage \in {"closing", "done"} => Names(call[c], record[call[c].account])

RefreshInv == TypeOK /\ HoldsItsPlace /\ Named

\* The generation of a record that changes goes up.
Grows ==
    \A a \in Accounts :
        record'[a] = record[a] \/ record'[a].generation > record[a].generation

Records == [Accounts -> [generation : Nat, deleted : BOOLEAN, cred : Credentials]]

LEMMA CallType ==
    ASSUME CallsOK, NEW c \in Callers
    PROVE  /\ call[c] \in Calls /\ call[c].account \in Accounts
           /\ call[c].grant \in Tokens /\ call[c].start \in Nat
           /\ call[c].outcome \in Outcomes /\ call[c].reply \in Outcomes
           /\ call[c].outcome.generation \in Nat /\ call[c].outcome.cred \in Credentials
           /\ call[c].reply.cred \in Credentials
           /\ call[c].home \in Processes \cup {NoProcess}
BY DEF CallsOK, Calls, Outcomes

\* What was handed out stays true of a record that grows.
LEMMA GrownNames ==
    ASSUME CallsOK, record \in Records, record' \in Records, Grows,
           NEW c \in Callers, Names(call[c], record[call[c].account])
    PROVE  Names(call[c], record'[call[c].account])
<1>1. call[c].account \in Accounts /\ call[c].outcome.generation \in Nat
  BY CallType
<1>2. \A a \in Accounts : record[a].generation \in Nat /\ record'[a].generation \in Nat
  BY DEF Records
<1>3. CASE record'[call[c].account] = record[call[c].account]
  BY <1>3
<1>4. CASE record'[call[c].account].generation > record[call[c].account].generation
  BY <1>1, <1>2, <1>4 DEF Names
<1> QED
  BY <1>1, <1>3, <1>4 DEF Grows

\* A flight goes on: it keeps its place, and what it is handed is named.
LEMMA GoesOn ==
    ASSUME RefreshInv, NEW c \in Callers, NEW x \in Calls,
           call[c].stage \in Flying, x.stage \in Flying,
           x.home = call[c].home, x.grant = call[c].grant,
           ~x.aborted => ~call[c].aborted,
           call' = [call EXCEPT ![c] = x], UNCHANGED flights,
           record' \in Records, Grows,
           x.stage = "closing" => Names(x, record'[x.account])
    PROVE  CallsOK' /\ HoldsItsPlace' /\ Named'
<1>0. CallsOK /\ record \in Records
  BY DEF RefreshInv, TypeOK, CallsOK, Records
<1>1. call'[c] = x /\ \A d \in Callers \ {c} : call'[d] = call[d]
  BY <1>0 DEF CallsOK
<1>2. x.stage \notin {"idle", "done"}
  BY DEF Flying
<1>3. CallsOK'
  <2>1. call[c].stage # "idle"
    BY DEF Flying
  <2>2. x.home \in Processes
    BY <1>0, <2>1 DEF CallsOK
  <2> QED
    BY <1>0, <1>2, <2>2, ReplacedType
<1>4. HoldsItsPlace'
  BY <1>1 DEF RefreshInv, HoldsItsPlace
<1>5. Named'
  <2>1. \A d \in Callers \ {c} : call[d].stage \in {"closing", "done"} =>
            Names(call[d], record'[call[d].account])
    BY <1>0, GrownNames DEF RefreshInv, Named
  <2> QED
    BY <1>1, <1>2, <2>1 DEF Named
<1> QED
  BY <1>3, <1>4, <1>5

\* A flight that ends leaves its place and wakes those who joined it.
LEMMA Ends ==
    ASSUME RefreshInv, NEW c \in Callers, NEW o \in Outcomes,
           call[c].stage # "idle", Names([outcome |-> o], record[call[c].account]),
           flights' = Landed(c), call' = Settled(c, o), UNCHANGED record
    PROVE  CallsOK' /\ HoldsItsPlace' /\ Named'
<1> DEFINE p == call[c].home
           a == call[c].account
<1>0. CallsOK /\ p \in Processes /\ a \in Accounts
  BY CallType DEF RefreshInv, TypeOK, CallsOK
<1>1. /\ Answered(p, a, o) \in Calls /\ Answered(p, a, o).stage \in {"idle", "done"}
      /\ Answered(p, a, o).stage = "done" =>
           /\ o.kind = "token" /\ Answered(p, a, o).home = p
           /\ Answered(p, a, o).outcome = o /\ Answered(p, a, o).account = a
  <2>1. CASE o.kind = "token"
    BY <1>0, <2>1, AnsweredType, RestingType DEF Answered, Calls
  <2>2. CASE o.kind # "token"
    BY <1>0, <2>2, AnsweredType, RestingType DEF Answered
  <2> QED
    BY <2>1, <2>2
<1>2. call'[c] = Answered(p, a, o)
  BY DEF Settled
<1>3. \A d \in Callers \ {c} :
        \/ call'[d] = call[d]
        \/ /\ call[d].stage = "joined" /\ call'[d].stage = "resumed"
           /\ call'[d] = [call[d] EXCEPT !.stage = "resumed", !.on = NoCaller, !.outcome = o]
  <2> SUFFICES ASSUME NEW d \in Callers \ {c}
               PROVE  \/ call'[d] = call[d]
                      \/ /\ call[d].stage = "joined" /\ call'[d].stage = "resumed"
                         /\ call'[d] = [call[d] EXCEPT !.stage = "resumed", !.on = NoCaller, !.outcome = o]
    OBVIOUS
  <2>1. call[d] \in Calls
    BY <1>0, CallType
  <2>2. CASE call[d].stage = "joined" /\ call[d].on = c
    <3>1. call'[d] = [call[d] EXCEPT !.stage = "resumed", !.on = NoCaller, !.outcome = o]
      BY <2>2 DEF Settled
    <3> QED
      BY <2>1, <2>2, <3>1 DEF Calls
  <2>3. CASE ~(call[d].stage = "joined" /\ call[d].on = c)
    BY <2>3 DEF Settled
  <2> QED
    BY <2>2, <2>3
<1>4. \A d \in Callers \ {c} :
        /\ call'[d] \in Calls
        /\ call'[d].stage # "idle" => call'[d].home \in Processes
        /\ call'[d].stage = "done" => call'[d].outcome.kind = "token"
  <2> SUFFICES ASSUME NEW d \in Callers \ {c}
               PROVE  /\ call'[d] \in Calls
                      /\ call'[d].stage # "idle" => call'[d].home \in Processes
                      /\ call'[d].stage = "done" => call'[d].outcome.kind = "token"
    OBVIOUS
  <2>1. call[d] \in Calls
    BY <1>0, CallType
  <2>2. CASE call'[d] = call[d]
    BY <1>0, <2>1, <2>2 DEF CallsOK
  <2>3. CASE /\ call[d].stage = "joined" /\ call'[d].stage = "resumed"
             /\ call'[d] = [call[d] EXCEPT !.stage = "resumed", !.on = NoCaller, !.outcome = o]
    <3>1. call[d].home \in Processes
      BY <1>0, <2>3 DEF CallsOK
    <3> QED
      BY <2>1, <2>3, <3>1 DEF Calls
  <2> QED
    BY <1>3, <2>2, <2>3
<1>5. /\ flights' \in [Processes -> [Tokens -> Callers \cup {NoCaller}]]
      /\ \A q \in Processes, h \in Tokens :
           flights[q][h] # c => flights'[q][h] = flights[q][h]
  <2>1. flights' = [flights EXCEPT ![p] =
                      [g \in Tokens |-> IF flights[p][g] = c THEN NoCaller ELSE flights[p][g]]]
    BY DEF Landed
  <2> QED
    BY <1>0, <2>1 DEF CallsOK
<1>6. CallsOK'
  <2>1. call' = [d \in Callers |-> call'[d]]
    BY DEF Settled
  <2>2. \A d \in Callers :
          /\ call'[d] \in Calls
          /\ call'[d].stage # "idle" => call'[d].home \in Processes
          /\ call'[d].stage = "done" => call'[d].outcome.kind = "token"
    BY <1>0, <1>1, <1>2, <1>4
  <2> QED
    BY <1>5, <2>1, <2>2 DEF CallsOK
<1>7. HoldsItsPlace'
  <2> SUFFICES ASSUME NEW d \in Callers, call'[d].stage \in Flying, ~call'[d].aborted
               PROVE  flights'[call'[d].home][call'[d].grant] = d
    BY DEF HoldsItsPlace
  <2>1. d # c /\ call'[d] = call[d]
    BY <1>1, <1>2, <1>3 DEF Flying
  <2>2. flights[call[d].home][call[d].grant] = d /\ call[d].grant \in Tokens
    BY <1>0, <2>1, CallType DEF RefreshInv, HoldsItsPlace
  <2>3. call[d].home \in Processes
    BY <1>0, <2>1 DEF CallsOK, Flying
  <2> QED
    BY <1>5, <2>1, <2>2, <2>3
<1>8. Named'
  <2> SUFFICES ASSUME NEW d \in Callers, call'[d].stage \in {"closing", "done"}
               PROVE  Names(call'[d], record[call'[d].account])
    BY DEF Named
  <2>1. CASE d = c
    BY <1>1, <1>2, <2>1 DEF Names
  <2>2. CASE d # c
    BY <1>3, <2>2 DEF RefreshInv, Named
  <2> QED
    BY <2>1, <2>2
<1> QED
  BY <1>6, <1>7, <1>8

-----------------------------------------------------------------------------
(* The steps of a flight.                                                  *)

Locks == [Tokens -> [by : Callers \cup {NoCaller}, there : BOOLEAN,
                     written : BOOLEAN, at : 0..MaxTime]]

\* The rest of the type invariant: the store, the lock files, the upstream.
FilesOK ==
    /\ record \in Records /\ lock \in Locks
    /\ issued \in Tokens /\ now \in 0..MaxTime /\ expired \subseteq Tokens

LEMMA TypeParts ==
    (TypeOK <=> CallsOK /\ FilesOK) /\ (TypeOK' <=> CallsOK' /\ FilesOK')
BY DEF TypeOK, CallsOK, FilesOK, Records, Locks

LEMMA SameRecord ==
    ASSUME FilesOK, UNCHANGED record
    PROVE  record' \in Records /\ Grows
BY DEF FilesOK, Records, Grows

\* A lock file is put, written or removed.
LEMMA LockTypes ==
    ASSUME FilesOK, NEW g \in Tokens, NEW c \in Callers
    PROVE  /\ [lock EXCEPT ![g] = NoLock] \in Locks
           /\ [lock EXCEPT ![g] = [NoLock EXCEPT !.by = c, !.there = TRUE]] \in Locks
           /\ [lock EXCEPT ![g].written = TRUE, ![g].at = now] \in Locks
<1>1. NoLock \in [by : Callers \cup {NoCaller}, there : BOOLEAN,
                  written : BOOLEAN, at : 0..MaxTime]
  BY FirstType DEF NoLock
<1>2. [NoLock EXCEPT !.by = c, !.there = TRUE] \in
        [by : Callers \cup {NoCaller}, there : BOOLEAN, written : BOOLEAN, at : 0..MaxTime]
  BY <1>1
<1>3. [lock[g] EXCEPT !.written = TRUE, !.at = now] \in
        [by : Callers \cup {NoCaller}, there : BOOLEAN, written : BOOLEAN, at : 0..MaxTime]
  BY DEF FilesOK, Locks
<1>4. [lock EXCEPT ![g].written = TRUE, ![g].at = now] =
        [lock EXCEPT ![g] = [lock[g] EXCEPT !.written = TRUE, !.at = now]]
  BY DEF FilesOK, Locks
<1> QED
  BY <1>1, <1>2, <1>3, <1>4 DEF FilesOK, Locks

\* A flight moves to a stage in which it has not been handed anything.
LEMMA StageStep ==
    ASSUME RefreshInv, NEW c \in Callers, NEW stage \in Flying \ {"closing"},
           call[c].stage \in Flying,
           call' = [call EXCEPT ![c].stage = stage], UNCHANGED <<record, flights>>
    PROVE  CallsOK' /\ HoldsItsPlace' /\ Named'
<1>0. CallsOK /\ FilesOK /\ call[c] \in Calls
  BY CallType, TypeParts DEF RefreshInv
<1> DEFINE x == [call[c] EXCEPT !.stage = stage]
<1>1. /\ x \in Calls /\ x.stage \in Flying /\ x.stage # "closing"
      /\ x.home = call[c].home /\ x.grant = call[c].grant
      /\ ~x.aborted => ~call[c].aborted
  BY <1>0 DEF Calls
<1>2. call' = [call EXCEPT ![c] = x]
  BY <1>0 DEF CallsOK
<1> HIDE DEF x
<1> QED
  BY <1>0, <1>1, <1>2, GoesOn, SameRecord

\* A flight closes with an outcome that its account's record bears out.
LEMMA ClosingStep ==
    ASSUME RefreshInv, NEW c \in Callers, NEW o \in Outcomes,
           call[c].stage \in Flying, call' = Closing(c, o), UNCHANGED flights,
           record' \in Records, Grows,
           Names([outcome |-> o], record'[call[c].account])
    PROVE  CallsOK' /\ HoldsItsPlace' /\ Named'
<1>0. CallsOK /\ call[c] \in Calls
  BY CallType, TypeParts DEF RefreshInv
<1> DEFINE x == [call[c] EXCEPT !.stage = "closing", !.start = 0,
                                !.reply = NoOutcome, !.outcome = o]
<1>1. NoOutcome \in Outcomes
  BY FirstType, OutcomeTypes, 0 \in Nat
<1>2. /\ x \in Calls /\ x.stage = "closing" /\ x.outcome = o
      /\ x.home = call[c].home /\ x.grant = call[c].grant /\ x.account = call[c].account
      /\ ~x.aborted => ~call[c].aborted
  BY <1>0, <1>1 DEF Calls, Flying
<1>3. call' = [call EXCEPT ![c] = x]
  BY <1>0 DEF Closing
<1>4. Names(x, record'[x.account])
  BY <1>2 DEF Names
<1> HIDE DEF x
<1> QED
  BY <1>0, <1>2, <1>3, <1>4, GoesOn DEF Flying

\* An error names nothing.
LEMMA FailureNames ==
    ASSUME NEW rec PROVE Failure \in Outcomes /\ Names([outcome |-> Failure], rec)
BY FirstType, OutcomeTypes, 0 \in Nat DEF Names

LEMMA CreateLockStep ==
    ASSUME RefreshInv, NEW c \in Callers, CreateLock(c) PROVE RefreshInv'
<1>1. CallsOK /\ FilesOK /\ call[c].grant \in Tokens
  BY CallType, TypeParts DEF RefreshInv
<1>2. CallsOK' /\ HoldsItsPlace' /\ Named'
  BY StageStep DEF CreateLock, Flying
<1>3. FilesOK'
  BY <1>1, LockTypes DEF CreateLock, FilesOK, upstream
<1> QED
  BY <1>2, <1>3, TypeParts DEF RefreshInv

LEMMA WaitStep ==
    ASSUME RefreshInv, NEW c \in Callers, MeetLock(c) \/ JudgeLock(c) \/ ReclaimLock(c)
    PROVE  RefreshInv'
<1>1. CallsOK /\ FilesOK /\ call[c].grant \in Tokens
  BY CallType, TypeParts DEF RefreshInv
<1>2. CallsOK' /\ HoldsItsPlace' /\ Named'
  <2>1. CASE MeetLock(c)
    BY <2>1, StageStep DEF MeetLock, Flying
  <2>2. CASE JudgeLock(c)
    BY <2>2, StageStep DEF JudgeLock, Flying
  <2>3. CASE ReclaimLock(c)
    BY <2>3, StageStep DEF ReclaimLock, Flying
  <2> QED
    BY <2>1, <2>2, <2>3
<1>3. FilesOK'
  BY <1>1, LockTypes DEF MeetLock, JudgeLock, ReclaimLock, FilesOK, upstream
<1> QED
  BY <1>2, <1>3, TypeParts DEF RefreshInv

\* What a flight asks for is the account's own credential or that of a sibling.
LEMMA LockedStep ==
    ASSUME RefreshInv, NEW c \in Callers, Locked(c) PROVE RefreshInv'
<1> DEFINE a == call[c].account
           g == call[c].grant
           rec == record[a]
<1>1. /\ CallsOK /\ FilesOK /\ g \in Tokens /\ a \in Accounts /\ call[c] \in Calls
      /\ call[c].stage \in Flying /\ UNCHANGED <<record, flights>>
  BY CallType, TypeParts DEF RefreshInv, Locked, Flying
<1>2. rec.generation \in Nat /\ rec.cred \in Credentials
  BY <1>1, RecordType, TypeParts
<1>3. FilesOK'
  BY <1>1, LockTypes DEF Locked, FilesOK, upstream
<1> SUFFICES CallsOK' /\ HoldsItsPlace' /\ Named'
  BY <1>3, TypeParts DEF RefreshInv
<1>4. CASE call' = Closing(c, Failure)
  BY <1>1, <1>4, FailureNames, SameRecord, ClosingStep
<1>5. CASE call' = Closing(c, Token(rec.cred, rec.generation))
  <2>1. Names([outcome |-> Token(rec.cred, rec.generation)], rec)
    BY <1>2 DEF Names, Token
  <2>2. Names([outcome |-> Token(rec.cred, rec.generation)], record'[call[c].account])
    BY <1>1, <2>1
  <2>3. Token(rec.cred, rec.generation) \in Outcomes
    BY <1>2, OutcomeTypes
  <2> HIDE DEF rec, a
  <2> QED
    BY <1>1, <1>5, <2>2, <2>3, SameRecord, ClosingStep
<1>6. ASSUME NEW cred \in Credentials, NEW stage \in {"adopting", "requested"},
             call' = [call EXCEPT ![c].stage = stage, ![c].start = rec.generation,
                                  ![c].reply = Token(cred, 0)]
      PROVE  CallsOK' /\ HoldsItsPlace' /\ Named'
  <2> DEFINE x == [call[c] EXCEPT !.stage = stage, !.start = rec.generation,
                                  !.reply = Token(cred, 0)]
  <2>1. Token(cred, 0) \in Outcomes
    BY <1>6, OutcomeTypes, 0 \in Nat
  <2>2. /\ x \in Calls /\ x.stage \in Flying /\ x.stage # "closing"
        /\ x.home = call[c].home /\ x.grant = call[c].grant
        /\ ~x.aborted => ~call[c].aborted
    BY <1>1, <1>2, <2>1 DEF Calls, Flying
  <2>3. call' = [call EXCEPT ![c] = x]
    BY <1>1, <1>6 DEF CallsOK
  <2> HIDE DEF x, rec
  <2> QED
    BY <1>1, <2>2, <2>3, GoesOn, SameRecord
<1>7. CASE \E cred \in Siblings(a, g) :
             call' = [call EXCEPT ![c].stage = "adopting", ![c].start = rec.generation,
                                  ![c].reply = Token(cred, 0)]
  <2>1. Siblings(a, g) \subseteq Credentials
    BY <1>1, RecordType, TypeParts DEF Siblings
  <2>2. PICK cred \in Siblings(a, g) :
           call' = [call EXCEPT ![c].stage = "adopting", ![c].start = rec.generation,
                                ![c].reply = Token(cred, 0)]
    BY <1>7
  <2>3. cred \in Credentials
    BY <2>1
  <2> DEFINE stage == "adopting"
  <2>4. /\ stage \in {"adopting", "requested"}
        /\ call' = [call EXCEPT ![c].stage = stage, ![c].start = rec.generation,
                                ![c].reply = Token(cred, 0)]
    BY <2>2
  <2> HIDE DEF stage, rec, a, g
  <2> QED
    BY <1>6, <2>3, <2>4
<1>8. CASE call' = [call EXCEPT ![c].stage = "requested", ![c].start = rec.generation,
                                ![c].reply = Token(rec.cred, 0)]
  <2> DEFINE stage == "requested"
  <2>1. /\ stage \in {"adopting", "requested"}
        /\ call' = [call EXCEPT ![c].stage = stage, ![c].start = rec.generation,
                                ![c].reply = Token(rec.cred, 0)]
    BY <1>8
  <2> HIDE DEF stage, rec, a, g
  <2> QED
    BY <1>2, <1>6, <2>1
<1>9. \/ call' = Closing(c, Failure)
      \/ call' = Closing(c, Token(rec.cred, rec.generation))
      \/ \E cred \in Siblings(a, g) :
             call' = [call EXCEPT ![c].stage = "adopting", ![c].start = rec.generation,
                                  ![c].reply = Token(cred, 0)]
      \/ call' = [call EXCEPT ![c].stage = "requested", ![c].start = rec.generation,
                              ![c].reply = Token(rec.cred, 0)]
  BY <1>1 DEF Locked, CallsOK, Calls
<1> QED
  BY <1>4, <1>5, <1>7, <1>8, <1>9

-----------------------------------------------------------------------------
(* The store.                                                              *)

\* A save advances the generation of the record it changes, and what it reports
\* is what is stored.
LEMMA SaveEffect ==
    ASSUME RefreshInv, NEW a \in Accounts, NEW cred \in Credentials, NEW generation \in Nat,
           NEW o, Save(a, cred, generation, o)
    PROVE  /\ record' \in Records /\ Grows /\ o \in Outcomes
           /\ Names([outcome |-> o], record'[a])
<1>1. record \in Records /\ record[a].generation \in Nat
  BY TypeParts DEF RefreshInv, FilesOK, Records
<1>2. CASE o = Failure /\ UNCHANGED record
  BY <1>2, FailureNames, SameRecord, TypeParts DEF RefreshInv
<1>3. CASE Matches(a, generation) /\ o = Token(cred, generation + 1)
           /\ record' = [record EXCEPT ![a].cred = cred, ![a].generation = generation + 1]
  <2> DEFINE x == [record[a] EXCEPT !.cred = cred, !.generation = generation + 1]
  <2>1. record' = [record EXCEPT ![a] = x]
    BY <1>1, <1>3 DEF Records
  <2>2. /\ x \in [generation : Nat, deleted : BOOLEAN, cred : Credentials]
        /\ x.cred = cred /\ x.generation = generation + 1
    <3>1. record[a] \in [generation : Nat, deleted : BOOLEAN, cred : Credentials]
      BY <1>1 DEF Records
    <3>2. generation + 1 \in Nat
      OBVIOUS
    <3> QED
      BY <3>1, <3>2
  <2>3. generation = record[a].generation
    BY <1>3 DEF Matches
  <2> HIDE DEF x
  <2>4. record' \in Records /\ Grows
    BY <1>1, <2>1, <2>2, <2>3 DEF Records, Grows
  <2>5. record'[a] = x
    BY <1>1, <2>1 DEF Records
  <2>6. Names([outcome |-> o], record'[a])
    BY <1>3, <2>2, <2>5 DEF Names, Token
  <2>7. generation + 1 \in Nat
    OBVIOUS
  <2> QED
    BY <1>3, <2>4, <2>6, <2>7, OutcomeTypes
<1> QED
  BY <1>2, <1>3 DEF Save, Saved

\* The save of a flight, and the closing with what it reports.
LEMMA SaveReplyStep ==
    ASSUME RefreshInv, NEW c \in Callers, call[c].stage \in Flying, SaveReply(c),
           UNCHANGED flights
    PROVE  CallsOK' /\ HoldsItsPlace' /\ Named' /\ record' \in Records
<1>1. /\ call[c].account \in Accounts /\ call[c].reply.cred \in Credentials
      /\ call[c].start \in Nat
  BY CallType, TypeParts DEF RefreshInv
<1>2. PICK o \in {Failure, Token(call[c].reply.cred, call[c].start + 1)} :
         /\ Save(call[c].account, call[c].reply.cred, call[c].start, o)
         /\ call' = Closing(c, o)
  BY DEF SaveReply
<1>3. /\ record' \in Records /\ Grows /\ o \in Outcomes
      /\ Names([outcome |-> o], record'[call[c].account])
  BY <1>1, <1>2, SaveEffect
<1> QED
  BY <1>2, <1>3, ClosingStep

LEMMA AnswerReadStep ==
    ASSUME RefreshInv, NEW c \in Callers, Adopt(c) \/ Receive(c) \/ Interrupt(c)
    PROVE  RefreshInv'
<1>1. /\ CallsOK /\ FilesOK /\ call[c].stage \in Flying
      /\ UNCHANGED <<upstream, lock, flights, now>>
  BY TypeParts DEF RefreshInv, Adopt, Receive, Interrupt, Flying
<1>2. \/ SaveReply(c)
      \/ call' = Closing(c, Failure) /\ UNCHANGED record
  BY DEF Adopt, Receive, Interrupt
<1>3. CASE SaveReply(c)
  <2>1. CallsOK' /\ HoldsItsPlace' /\ Named' /\ record' \in Records
    BY <1>1, <1>3, SaveReplyStep
  <2>2. FilesOK'
    BY <1>1, <2>1 DEF FilesOK, upstream
  <2> QED
    BY <2>1, <2>2, TypeParts DEF RefreshInv
<1>4. CASE call' = Closing(c, Failure) /\ UNCHANGED record
  <2>1. CallsOK' /\ HoldsItsPlace' /\ Named'
    BY <1>1, <1>4, FailureNames, SameRecord, ClosingStep
  <2>2. FilesOK'
    BY <1>1, <1>4 DEF FilesOK, upstream
  <2> QED
    BY <2>1, <2>2, TypeParts DEF RefreshInv
<1> QED
  BY <1>2, <1>3, <1>4

\* The end of a flight hands out what it closed with, which is still named.
LEMMA EndStep ==
    ASSUME RefreshInv, NEW c \in Callers, Close(c) \/ GiveUp(c) PROVE RefreshInv'
<1>1. /\ CallsOK /\ FilesOK /\ call[c].grant \in Tokens /\ call[c].outcome \in Outcomes
      /\ UNCHANGED record
  BY CallType, TypeParts DEF RefreshInv, Close, GiveUp
<1>2. CallsOK' /\ HoldsItsPlace' /\ Named'
  <2>1. CASE Close(c)
    <3>1. Names([outcome |-> call[c].outcome], record[call[c].account])
      BY <2>1 DEF RefreshInv, Named, Names, Close
    <3> QED
      BY <1>1, <2>1, <3>1, Ends DEF Close
  <2>2. CASE GiveUp(c)
    BY <1>1, <2>2, FailureNames, Ends DEF GiveUp
  <2> QED
    BY <2>1, <2>2
<1>3. FilesOK'
  BY <1>1, LockTypes DEF Close, GiveUp, FilesOK, upstream
<1> QED
  BY <1>2, <1>3, TypeParts DEF RefreshInv

-----------------------------------------------------------------------------
(* The steps of callers.                                                   *)

\* A call that flies no more, or never did, is answered from a record that grows.
LEMMA Replies ==
    ASSUME RefreshInv, NEW c \in Callers, NEW x \in Calls,
           x.stage \in {"idle", "done"},
           x.stage = "done" => /\ x.home \in Processes /\ x.outcome.kind = "token"
                               /\ Names(x, record'[x.account]),
           call' = [call EXCEPT ![c] = x], UNCHANGED flights,
           record' \in Records, Grows
    PROVE  CallsOK' /\ HoldsItsPlace' /\ Named'
<1>0. CallsOK /\ record \in Records
  BY TypeParts DEF RefreshInv, FilesOK
<1>1. call'[c] = x /\ \A d \in Callers \ {c} : call'[d] = call[d]
  BY <1>0 DEF CallsOK
<1>2. CallsOK'
  BY <1>0, ReplacedType
<1>3. HoldsItsPlace'
  BY <1>1 DEF RefreshInv, HoldsItsPlace, Flying
<1>4. Named'
  <2>1. \A d \in Callers \ {c} : call[d].stage \in {"closing", "done"} =>
            Names(call[d], record'[call[d].account])
    BY <1>0, GrownNames DEF RefreshInv, Named
  <2> QED
    BY <1>1, <2>1 DEF Named
<1> QED
  BY <1>2, <1>3, <1>4

LEMMA LeaveStep == ASSUME RefreshInv, NEW c \in Callers, Leave(c) PROVE RefreshInv'
<1>1. CallsOK /\ FilesOK
  BY TypeParts DEF RefreshInv
<1>2. CallsOK' /\ HoldsItsPlace' /\ Named'
  BY <1>1, Replies, RestingType, SameRecord DEF Leave
<1>3. FilesOK'
  BY <1>1 DEF Leave, FilesOK, upstream
<1> QED
  BY <1>2, <1>3, TypeParts DEF RefreshInv

\* A call of getValidCodexToken disturbs nobody but the flight it replaces.
LEMMA EnterStep ==
    ASSUME RefreshInv, NEW c \in Callers, NEW p \in Processes, NEW a \in Accounts,
           call[c].stage \notin Flying, Enter(c, p, a), UNCHANGED record
    PROVE  CallsOK' /\ HoldsItsPlace' /\ Named'
<1>0. CallsOK /\ FilesOK /\ TypeOK
  BY TypeParts DEF RefreshInv
<1>1. CallsOK' /\ EnteredAs(c, p, a)
  BY <1>0, EnterEffect
<1>2. record[a].generation \in Nat
  BY <1>0, RecordType
<1>3. HoldsItsPlace'
  <2> SUFFICES ASSUME NEW d \in Callers, call'[d].stage \in Flying, ~call'[d].aborted
               PROVE  flights'[call'[d].home][call'[d].grant] = d
    BY DEF HoldsItsPlace
  <2>1. CASE d = c
    BY <1>1, <2>1 DEF EnteredAs, Flying
  <2>2. CASE d # c
    <3>1. /\ call'[d].home = call[d].home /\ call'[d].grant = call[d].grant
          /\ call[d].stage \in Flying /\ ~call[d].aborted
      BY <1>1, <2>2 DEF EnteredAs, Alike
    <3>2. flights[call[d].home][call[d].grant] = d
      BY <3>1 DEF RefreshInv, HoldsItsPlace
    <3>3. call[d].home \in Processes /\ call[d].grant \in Tokens
      BY <1>0, <3>1, CallType DEF CallsOK, Flying
    <3>4. CASE call[d].home = p /\ call[d].grant = record[a].cred.grant
      BY <1>1, <2>2, <3>1, <3>2, <3>4 DEF EnteredAs
    <3>5. CASE ~(call[d].home = p /\ call[d].grant = record[a].cred.grant)
      BY <1>1, <3>1, <3>2, <3>3, <3>5 DEF EnteredAs
    <3> QED
      BY <3>4, <3>5
  <2> QED
    BY <2>1, <2>2
<1>4. Named'
  <2> SUFFICES ASSUME NEW d \in Callers, call'[d].stage \in {"closing", "done"}
               PROVE  Names(call'[d], record[call'[d].account])
    BY DEF Named
  <2>1. CASE d = c
    BY <1>1, <1>2, <2>1 DEF EnteredAs, Names, Token
  <2>2. CASE d # c
    BY <1>1, <2>2 DEF EnteredAs, RefreshInv, Named, Names, Alike
  <2> QED
    BY <2>1, <2>2
<1> QED
  BY <1>1, <1>3, <1>4

LEMMA AskStep ==
    ASSUME RefreshInv, NEW c \in Callers, NEW p \in Processes, NEW a \in Accounts, Ask(c, p, a)
    PROVE  RefreshInv'
<1>1. CallsOK /\ FilesOK
  BY TypeParts DEF RefreshInv
<1>2. CallsOK' /\ HoldsItsPlace' /\ Named'
  BY EnterStep DEF Ask, Flying
<1>3. FilesOK'
  BY <1>1 DEF Ask, FilesOK, upstream
<1> QED
  BY <1>2, <1>3, TypeParts DEF RefreshInv

\* A caller that was woken takes the credential over, or begins again.
LEMMA ResumeStep == ASSUME RefreshInv, NEW c \in Callers, Resume(c) PROVE RefreshInv'
<1> DEFINE a == call[c].account
           p == call[c].home
           cred == call[c].outcome.cred
           generation == record[a].generation
<1>1. /\ CallsOK /\ FilesOK /\ TypeOK /\ a \in Accounts /\ cred \in Credentials
      /\ call[c].stage = "resumed" /\ UNCHANGED <<upstream, lock, now>>
  BY CallType, TypeParts DEF RefreshInv, Resume
<1>2. p \in Processes /\ generation \in Nat
  BY <1>1, RecordType DEF CallsOK
<1> SUFFICES CallsOK' /\ HoldsItsPlace' /\ Named' /\ record' \in Records
  BY <1>1, TypeParts DEF RefreshInv, FilesOK, upstream
<1>3. CASE call' = [call EXCEPT ![c] = Resting] /\ UNCHANGED <<record, flights>>
  BY <1>1, <1>3, Replies, RestingType, SameRecord
<1>4. CASE TakeOver(c)
  <2>1. PICK o \in {Failure, Token(cred, generation + 1)} :
           /\ Save(a, cred, generation, o)
           /\ call' = [call EXCEPT ![c] = Answered(p, a, o)]
    BY <1>4 DEF TakeOver
  <2>2. /\ record' \in Records /\ Grows /\ o \in Outcomes
        /\ Names([outcome |-> o], record'[a])
    <3> HIDE DEF a, cred, generation
    <3> QED
      BY <1>1, <1>2, <2>1, SaveEffect
  <2> DEFINE x == Answered(p, a, o)
  <2>3. /\ x \in Calls /\ x.stage \in {"idle", "done"}
        /\ x.stage = "done" => o.kind = "token" /\ x.outcome = o /\ x.account = a
    <3> HIDE DEF a, p
    <3> QED
      BY <1>1, <1>2, <2>2, AnsweredType
  <2>4. x.stage = "done" => x.home \in Processes
    <3>1. CASE o.kind = "token"
      BY <1>2, <3>1, RestingType DEF Answered, Calls
    <3>2. CASE o.kind # "token"
      BY <3>2, RestingType DEF Answered
    <3> QED
      BY <3>1, <3>2
  <2>5. call' = [call EXCEPT ![c] = x] /\ UNCHANGED flights
    BY <1>4, <2>1 DEF TakeOver
  <2> HIDE DEF x
  <2>6. x.stage = "done" => Names(x, record'[x.account])
    BY <2>2, <2>3 DEF Names
  <2> QED
    BY <2>2, <2>3, <2>4, <2>5, <2>6, Replies
<1>5. CASE Enter(c, p, a) /\ UNCHANGED record
  <2> HIDE DEF p, a
  <2> QED
    BY <1>1, <1>2, <1>5, EnterStep, SameRecord DEF Flying
<1> QED
  BY <1>3, <1>4, <1>5 DEF Resume

-----------------------------------------------------------------------------
(* The surroundings.                                                       *)

\* The upstream's answer is held, and not handed out before it is stored.
LEMMA AnswerStep == ASSUME RefreshInv, NEW c \in Callers, Answer(c) PROVE RefreshInv'
<1>1. /\ CallsOK /\ FilesOK /\ call[c] \in Calls /\ call[c].grant \in Tokens
      /\ call[c].reply.cred \in Credentials /\ call[c].stage \in Flying
      /\ UNCHANGED <<record, expired, lock, flights, now>>
  BY CallType, TypeParts DEF RefreshInv, Answer, Flying
<1>2. ASSUME NEW o \in Outcomes,
             call' = [call EXCEPT ![c].stage = "replied", ![c].reply = o]
      PROVE  CallsOK' /\ HoldsItsPlace' /\ Named'
  <2> DEFINE x == [call[c] EXCEPT !.stage = "replied", !.reply = o]
  <2>1. /\ x \in Calls /\ x.stage \in Flying /\ x.stage # "closing"
        /\ x.home = call[c].home /\ x.grant = call[c].grant
        /\ ~x.aborted => ~call[c].aborted
    BY <1>1 DEF Calls, Flying
  <2>2. call' = [call EXCEPT ![c] = x]
    BY <1>1, <1>2 DEF CallsOK
  <2> HIDE DEF x
  <2> QED
    BY <1>1, <2>1, <2>2, GoesOn, SameRecord
<1>3. issued' \in Tokens
  BY <1>1, RefreshAssumption DEF Answer, FilesOK, Tokens
<1>4. \E o \in Outcomes : call' = [call EXCEPT ![c].stage = "replied", ![c].reply = o]
  <2>1. CASE call' = [call EXCEPT ![c].stage = "replied", ![c].reply = Failure]
    BY <2>1, FirstType, OutcomeTypes, 0 \in Nat
  <2>2. CASE /\ issued < MaxTokens /\ issued' = issued + 1
             /\ \E grant \in {call[c].grant, issued + 1} :
                  call' = [call EXCEPT ![c].stage = "replied",
                     ![c].reply = Token([call[c].reply.cred EXCEPT !.token = issued + 1,
                                                                   !.grant = grant], 0)]
    <3>1. PICK grant \in {call[c].grant, issued + 1} :
             call' = [call EXCEPT ![c].stage = "replied",
                     ![c].reply = Token([call[c].reply.cred EXCEPT !.token = issued + 1,
                                                                   !.grant = grant], 0)]
      BY <2>2
    <3>2. issued + 1 \in Tokens /\ grant \in Tokens
      BY <1>1, <1>3, <2>2
    <3>3. [call[c].reply.cred EXCEPT !.token = issued + 1, !.grant = grant] \in Credentials
      BY <1>1, <3>2 DEF Credentials
    <3> QED
      BY <3>1, <3>3, OutcomeTypes, 0 \in Nat
  <2> QED
    BY <2>1, <2>2 DEF Answer
<1>5. FilesOK'
  BY <1>1, <1>3 DEF FilesOK
<1> QED
  BY <1>2, <1>4, <1>5, TypeParts DEF RefreshInv

\* A step that leaves calls alone keeps their invariants if records only grow.
LEMMA CallsStay ==
    ASSUME RefreshInv, UNCHANGED <<call, flights>>, record' \in Records, Grows
    PROVE  CallsOK' /\ HoldsItsPlace' /\ Named'
<1>0. CallsOK /\ record \in Records
  BY TypeParts DEF RefreshInv, FilesOK
<1>1. CallsOK' /\ HoldsItsPlace'
  BY <1>0 DEF CallsOK, RefreshInv, HoldsItsPlace
<1>2. Named'
  BY <1>0, GrownNames DEF RefreshInv, Named
<1> QED
  BY <1>1, <1>2

LEMMA StoreStep ==
    ASSUME RefreshInv, NEW a \in Accounts, Expire(a) \/ SignIn(a) \/ Remove(a)
    PROVE  RefreshInv'
<1>1. /\ FilesOK /\ record[a].generation \in Nat /\ record[a].cred.token \in Tokens
      /\ record[a] \in [generation : Nat, deleted : BOOLEAN, cred : Credentials]
  BY RecordType, TypeParts DEF RefreshInv, FilesOK, Records
<1>2. UNCHANGED <<call, flights, lock, now>>
  BY DEF Expire, SignIn, Remove
<1>3. record' \in Records /\ Grows /\ issued' \in Tokens /\ expired' \subseteq Tokens
  <2>1. CASE Expire(a)
    BY <1>1, <2>1, SameRecord DEF Expire, FilesOK
  <2>2. CASE SignIn(a)
    <3> DEFINE x == [generation |-> record[a].generation + 1, deleted |-> FALSE,
                     cred |-> [token |-> issued + 1, grant |-> issued + 1, login |-> issued + 1]]
    <3>1. issued + 1 \in Tokens /\ issued' = issued + 1
      BY <1>1, <2>2, RefreshAssumption DEF SignIn, FilesOK, Tokens
    <3>2. x \in [generation : Nat, deleted : BOOLEAN, cred : Credentials]
      BY <1>1, <3>1 DEF Credentials
    <3>3. record' = [record EXCEPT ![a] = x] /\ x.generation > record[a].generation
      BY <1>1, <2>2 DEF SignIn
    <3> HIDE DEF x
    <3> QED
      BY <1>1, <2>2, <3>1, <3>2, <3>3 DEF SignIn, FilesOK, Records, Grows
  <2>3. CASE Remove(a)
    <3> DEFINE x == [record[a] EXCEPT !.deleted = TRUE, !.generation = record[a].generation + 1]
    <3>1. /\ x \in [generation : Nat, deleted : BOOLEAN, cred : Credentials]
          /\ x.generation > record[a].generation
      <4>1. record[a].generation + 1 \in Nat
        BY <1>1
      <4>2. x.generation = record[a].generation + 1
        BY <1>1
      <4>3. x \in [generation : Nat, deleted : BOOLEAN, cred : Credentials]
        BY <1>1, <4>1
      <4> HIDE DEF x
      <4> QED
        BY <1>1, <4>2, <4>3
    <3>2. record' = [record EXCEPT ![a] = x]
      BY <1>1, <2>3 DEF Remove, FilesOK, Records
    <3> HIDE DEF x
    <3> QED
      BY <1>1, <2>3, <3>1, <3>2 DEF Remove, FilesOK, Records, Grows, upstream
  <2> QED
    BY <2>1, <2>2, <2>3
<1>4. FilesOK'
  BY <1>1, <1>2, <1>3 DEF FilesOK
<1> QED
  BY <1>2, <1>3, <1>4, CallsStay, TypeParts DEF RefreshInv

\* A process that dies takes its calls and its flights with it.
LEMMA CrashStep ==
    ASSUME RefreshInv, NEW p \in Processes, Crash(p) PROVE RefreshInv'
<1> DEFINE dead == {c \in Callers : call[c].home = p}
<1>1. CallsOK /\ FilesOK
  BY TypeParts DEF RefreshInv
<1>2. /\ call' = [c \in Callers |-> IF c \in dead THEN Resting ELSE call[c]]
      /\ flights' = [flights EXCEPT ![p] = [g \in Tokens |-> NoCaller]]
      /\ lock' = [g \in Tokens |->
           IF lock[g].by \in dead THEN [lock[g] EXCEPT !.by = NoCaller] ELSE lock[g]]
      /\ UNCHANGED <<record, expired, issued, now>>
  BY DEF Crash, upstream
<1>3. CallsOK'
  <2>1. \A c \in Callers : call[c] \in Calls
    BY <1>1 DEF CallsOK
  <2> HIDE DEF dead
  <2> QED
    BY <1>1, <1>2, <2>1, RestingType DEF CallsOK
<1>4. HoldsItsPlace'
  <2> SUFFICES ASSUME NEW c \in Callers, call'[c].stage \in Flying, ~call'[c].aborted
               PROVE  flights'[call'[c].home][call'[c].grant] = c
    BY DEF HoldsItsPlace
  <2>1. c \notin dead /\ call'[c] = call[c]
    BY <1>2, RestingType DEF Flying
  <2>2. call[c].home \in Processes \ {p}
    BY <1>1, <2>1 DEF CallsOK, Flying
  <2>3. flights'[call[c].home] = flights[call[c].home]
    BY <1>1, <1>2, <2>2 DEF CallsOK
  <2> QED
    BY <2>1, <2>3 DEF RefreshInv, HoldsItsPlace
<1>5. Named'
  <2> HIDE DEF dead
  <2> QED
    BY <1>2, RestingType DEF RefreshInv, Named
<1>6. FilesOK'
  <2>1. ASSUME NEW g \in Tokens
        PROVE  [lock[g] EXCEPT !.by = NoCaller] \in
                 [by : Callers \cup {NoCaller}, there : BOOLEAN, written : BOOLEAN, at : 0..MaxTime]
    BY <1>1 DEF FilesOK, Locks
  <2> HIDE DEF dead
  <2> QED
    BY <1>1, <1>2, <2>1 DEF FilesOK, Locks
<1> QED
  BY <1>3, <1>4, <1>5, <1>6, TypeParts DEF RefreshInv

LEMMA TickStep == ASSUME RefreshInv, Tick PROVE RefreshInv'
<1>1. FilesOK
  BY TypeParts DEF RefreshInv
<1>2. FilesOK'
  BY <1>1, RefreshAssumption DEF Tick, FilesOK, upstream
<1>3. CallsOK' /\ HoldsItsPlace' /\ Named'
  BY <1>1, CallsStay, SameRecord DEF Tick
<1> QED
  BY <1>2, <1>3, TypeParts DEF RefreshInv

LEMMA RefreshInvInit == Init => RefreshInv
<1> SUFFICES ASSUME Init PROVE RefreshInv
  OBVIOUS
<1>1. CallsOK
  BY RestingType DEF Init, CallsOK
<1>2. FilesOK
  BY FirstType, RefreshAssumption DEF Init, FilesOK, Records, Locks, NoLock
<1>3. HoldsItsPlace /\ Named
  BY RestingType DEF Init, HoldsItsPlace, Named, Flying
<1> QED
  BY <1>1, <1>2, <1>3, TypeParts DEF RefreshInv

\* RefreshInv is inductive.
LEMMA RefreshInvStep == RefreshInv /\ [Next]_vars => RefreshInv'
<1> SUFFICES ASSUME RefreshInv, [Next]_vars PROVE RefreshInv'
  OBVIOUS
<1>1. CASE UNCHANGED vars
  BY <1>1 DEF vars, upstream, RefreshInv, TypeOK, HoldsItsPlace, Named, Names
<1>2. ASSUME NEW c \in Callers, NEW p \in Processes, NEW a \in Accounts, Ask(c, p, a)
      PROVE  RefreshInv'
  BY <1>2, AskStep
<1>3. ASSUME NEW c \in Callers, Leave(c) \/ Resume(c) \/ Answer(c) PROVE RefreshInv'
  BY <1>3, LeaveStep, ResumeStep, AnswerStep
<1>4. ASSUME NEW c \in Callers, Flight(c) PROVE RefreshInv'
  BY <1>4, CreateLockStep, WaitStep, LockedStep, AnswerReadStep, EndStep DEF Flight
<1>5. ASSUME NEW a \in Accounts, Expire(a) \/ SignIn(a) \/ Remove(a) PROVE RefreshInv'
  BY <1>5, StoreStep
<1>6. ASSUME NEW p \in Processes, Crash(p) PROVE RefreshInv'
  BY <1>6, CrashStep
<1>7. CASE Tick
  BY <1>7, TickStep
<1> QED
  BY <1>1, <1>2, <1>3, <1>4, <1>5, <1>6, <1>7 DEF Next

LEMMA RefreshInvHolds == Spec => []RefreshInv
BY RefreshInvInit, RefreshInvStep, PTL DEF Spec

-----------------------------------------------------------------------------

\* Every state of the store, the lock files and the calls is well formed, for
\* any number of processes, accounts and callers.
THEOREM RefreshTypeCorrect == Spec => []TypeOK
<1>1. RefreshInv => TypeOK
  BY DEF RefreshInv
<1> QED
  BY <1>1, RefreshInvHolds, PTL

\* While the generation that a caller was handed is live, the stored credential
\* is the one it was handed, whichever flight, sibling or login wrote it.
THEOREM GenerationsName == Spec => []GenerationNamesCredential
<1>1. RefreshInv => GenerationNamesCredential
  BY DEF RefreshInv, Named, Names, GenerationNamesCredential, Handed, Matches
<1> QED
  BY <1>1, RefreshInvHolds, PTL

\* No process ever has two flights of one grant, but for a flight it gave up.
THEOREM OneFlight == Spec => []OneFlightPerGrant
<1>1. RefreshInv => OneFlightPerGrant
  BY DEF RefreshInv, HoldsItsPlace, OneFlightPerGrant
<1> QED
  BY <1>1, RefreshInvHolds, PTL


-----------------------------------------------------------------------------
(* What a flight holds, and who waits for it.                              *)

Holding == {"created", "adopting", "requested", "replied", "closing"}

LocksHeld ==
    \A g \in Tokens, c \in Callers :
        lock[g].by = c => call[c].stage \in Holding /\ call[c].grant = g

PlacesHeld ==
    \A p \in Processes, g \in Tokens, c \in Callers :
        flights[p][g] = c =>
            call[c].stage \in Flying /\ call[c].grant = g /\ call[c].home = p

\* Who has joined waits for a flight of its own process and grant.
JoinsFlight ==
    \A d \in Callers : call[d].stage = "joined" =>
        LET f == call[d].on
        IN  /\ f \in Callers /\ call[f].stage \in Flying
            /\ call[f].grant = call[d].grant /\ call[f].home = call[d].home

HeldInv == RefreshInv /\ LocksHeld /\ PlacesHeld /\ JoinsFlight

\* What one step may do to a call.
Same(d) ==
    /\ call'[d].home = call[d].home /\ call'[d].account = call[d].account
    /\ call'[d].grant = call[d].grant

Waits(d) ==
    /\ Same(d) /\ call[d].stage \in {"locking", "judging", "reclaiming"}
    /\ call'[d].stage \in {"locking", "judging", "reclaiming", "created"}

\* The credential asked about, its own or a sibling's, came with the grant.
Asks(d) ==
    /\ Same(d) /\ UNCHANGED record
    /\ call[d].stage = "created" /\ call'[d].stage \in {"adopting", "requested"}
    /\ call'[d].start = record[call[d].account].generation
    /\ record[call[d].account].cred.grant = call[d].grant
    /\ \E b \in Accounts :
         record[b].cred.grant = call[d].grant /\ call'[d].reply.cred = record[b].cred

Hears(d) ==
    /\ Same(d) /\ call'[d].start = call[d].start
    /\ call[d].stage = "requested" /\ call'[d].stage = "replied"
    /\ \/ call'[d].reply.kind # "token"
       \/ /\ issued' = issued + 1
          /\ call'[d].reply.cred.login = call[d].reply.cred.login
          /\ call'[d].reply.cred.grant \in {call[d].grant, issued + 1}

\* A reply that can be stored.
Bears(x) == x.stage = "adopting" \/ (x.stage = "replied" /\ x.reply.kind = "token")

Closes(d) ==
    /\ Same(d) /\ call'[d].stage = "closing"
    /\ call[d].stage \in Holding
    /\ \/ call'[d].outcome.kind # "token"
       \/ call'[d].outcome.cred = record[call[d].account].cred
       \/ Bears(call[d]) /\ call'[d].outcome.cred = call[d].reply.cred

Woken(d) ==
    /\ Same(d) /\ call[d].stage = "joined" /\ call'[d].stage = "resumed"
    /\ \/ call'[d].outcome.kind # "token"
       \/ call[call[d].on].stage = "closing" /\ call'[d].outcome = call[call[d].on].outcome

Begins(d) ==
    /\ call[d].stage \notin Flying /\ call'[d].stage = "locking"
    /\ call'[d].grant = record[call'[d].account].cred.grant

Joins(d) ==
    /\ call[d].stage \notin Flying /\ call'[d].stage = "joined"
    /\ call'[d].grant = record[call'[d].account].cred.grant
    /\ flights[call'[d].home][call'[d].grant] # NoCaller
    /\ call'[d].on = flights[call'[d].home][call'[d].grant]
    /\ call'[d].on = flights'[call'[d].home][call'[d].grant]

Rests(d) == call'[d].stage \in {"idle", "done"}

CallMoves(d) ==
    \/ Alike(call'[d], call[d]) \/ Waits(d) \/ Asks(d) \/ Hears(d) \/ Closes(d)
    \/ Woken(d) \/ Begins(d) \/ Joins(d) \/ Rests(d)

\* What a step may do to the flights of a process and to a lock file.
PlaceMoves(p, g) ==
    \A d \in Callers : flights'[p][g] = d =>
        \/ flights[p][g] = d
        \/ Begins(d) /\ call'[d].home = p /\ call'[d].grant = g

LockMoves(g) ==
    \A d \in Callers : lock'[g].by = d =>
        \/ lock[g].by = d
        \/ Waits(d) /\ call'[d].stage = "created" /\ call[d].grant = g

\* Nothing refers to the flight any more.
Gone(d) ==
    /\ \A p \in Processes, g \in Tokens : flights'[p][g] # d
    /\ \A g \in Tokens : lock'[g].by # d
    /\ \A e \in Callers : call[e].stage = "joined" /\ call[e].on = d => call'[e].stage # "joined"

Moves ==
    /\ \A d \in Callers :
         /\ CallMoves(d)
         /\ call[d].stage \in Flying /\ Rests(d) => Gone(d)
    /\ \A p \in Processes, g \in Tokens : PlaceMoves(p, g)
    /\ \A g \in Tokens : LockMoves(g)

\* What is held and waited for follows from how calls move.
LEMMA HeldStep ==
    ASSUME HeldInv, RefreshInv', Moves
    PROVE  HeldInv'
<1>0. CallsOK /\ CallsOK'
  BY TypeParts DEF HeldInv, RefreshInv
<1>1. ASSUME NEW d \in Callers, call[d].stage \in Flying, ~Gone(d)
      PROVE  /\ call'[d].stage \in Flying
             /\ call'[d].home = call[d].home /\ call'[d].grant = call[d].grant
             /\ call[d].stage \in Holding => call'[d].stage \in Holding
  <2>1. CallMoves(d) /\ ~Rests(d)
    BY <1>1 DEF Moves
  <2> QED
    BY <1>1, <2>1 DEF CallMoves, Alike, Same, Waits, Asks, Hears, Closes, Woken, Begins, Joins,
                      Flying, Holding
<1>2. LocksHeld'
  <2> SUFFICES ASSUME NEW g \in Tokens, NEW d \in Callers, lock'[g].by = d
               PROVE  call'[d].stage \in Holding /\ call'[d].grant = g
    BY DEF LocksHeld
  <2>1. LockMoves(g) /\ ~Gone(d)
    BY DEF Moves, Gone
  <2>2. CASE lock[g].by = d
    BY <1>1, <2>1, <2>2 DEF HeldInv, LocksHeld, Holding, Flying
  <2>3. CASE Waits(d) /\ call'[d].stage = "created" /\ call[d].grant = g
    BY <2>3 DEF Waits, Same, Holding
  <2> QED
    BY <2>1, <2>2, <2>3 DEF LockMoves
<1>3. PlacesHeld'
  <2> SUFFICES ASSUME NEW p \in Processes, NEW g \in Tokens, NEW d \in Callers, flights'[p][g] = d
               PROVE  call'[d].stage \in Flying /\ call'[d].grant = g /\ call'[d].home = p
    BY DEF PlacesHeld
  <2>1. PlaceMoves(p, g) /\ ~Gone(d)
    BY DEF Moves, Gone
  <2>2. CASE flights[p][g] = d
    BY <1>1, <2>1, <2>2 DEF HeldInv, PlacesHeld
  <2>3. CASE Begins(d) /\ call'[d].home = p /\ call'[d].grant = g
    BY <2>3 DEF Begins, Flying
  <2> QED
    BY <2>1, <2>2, <2>3 DEF PlaceMoves
<1>4. JoinsFlight'
  <2> SUFFICES ASSUME NEW d \in Callers, call'[d].stage = "joined"
               PROVE  /\ call'[d].on \in Callers /\ call'[call'[d].on].stage \in Flying
                      /\ call'[call'[d].on].grant = call'[d].grant
                      /\ call'[call'[d].on].home = call'[d].home
    BY DEF JoinsFlight
  <2>1. CallMoves(d)
    BY DEF Moves
  <2>2. CASE Alike(call'[d], call[d])
    <3> DEFINE f == call[d].on
    <3>1. /\ f \in Callers /\ call[f].stage \in Flying /\ call[d].stage = "joined"
          /\ call[f].grant = call[d].grant /\ call[f].home = call[d].home
      BY <2>2 DEF Alike, HeldInv, JoinsFlight
    <3>2. ~Gone(f)
      BY <3>1 DEF Gone
    <3> QED
      BY <1>1, <2>2, <3>1, <3>2 DEF Alike
  <2>3. CASE Joins(d)
    <3> DEFINE f == call'[d].on
    <3>1. /\ call'[d].home \in Processes /\ call'[d].grant \in Tokens /\ f \in Callers
          /\ flights[call'[d].home][call'[d].grant] = f
      BY <1>0, <2>3 DEF Joins, CallsOK, Calls
    <3>2. /\ call[f].stage \in Flying /\ call[f].grant = call'[d].grant
          /\ call[f].home = call'[d].home
      BY <3>1 DEF HeldInv, PlacesHeld
    <3>3. ~Gone(f)
      BY <2>3, <3>1 DEF Joins, Gone
    <3> QED
      BY <1>1, <3>1, <3>2, <3>3
  <2> QED
    BY <2>1, <2>2, <2>3 DEF CallMoves, Waits, Asks, Hears, Closes, Woken, Begins, Rests
<1> QED
  BY <1>2, <1>3, <1>4 DEF HeldInv

\* One call moves, and its flight, if it has one, does not end.
LEMMA OneMoves ==
    ASSUME HeldInv, NEW c \in Callers, \A d \in Callers \ {c} : call'[d] = call[d],
           CallMoves(c), call[c].stage \in Flying => ~Rests(c),
           \A p \in Processes, g \in Tokens : PlaceMoves(p, g), \A g \in Tokens : LockMoves(g)
    PROVE  Moves
<1>1. \A d \in Callers \ {c} : CallMoves(d) /\ (call[d].stage \in Flying => ~Rests(d))
  BY DEF CallMoves, Alike, Rests, Flying
<1> QED
  BY <1>1 DEF Moves

\* Flights and lock files that do not change.
LEMMA StillPlaces ==
    (UNCHANGED flights => \A p \in Processes, g \in Tokens : PlaceMoves(p, g))
        /\ (UNCHANGED lock => \A g \in Tokens : LockMoves(g))
BY DEF PlaceMoves, LockMoves

\* Waiting for the lock file.
LEMMA WaitMoves ==
    ASSUME HeldInv, NEW c \in Callers,
           CreateLock(c) \/ MeetLock(c) \/ JudgeLock(c) \/ ReclaimLock(c)
    PROVE  Moves /\ Waits(c) /\ \A d \in Callers \ {c} : call'[d] = call[d]
<1>0. CallsOK /\ FilesOK /\ call[c] \in Calls /\ call[c].grant \in Tokens
  BY CallType, TypeParts DEF HeldInv, RefreshInv
<1>1. \A d \in Callers \ {c} : call'[d] = call[d]
  BY <1>0 DEF CallsOK, CreateLock, MeetLock, JudgeLock, ReclaimLock
<1>2. Waits(c)
  BY <1>0 DEF CallsOK, Calls, Waits, Same, CreateLock, MeetLock, JudgeLock, ReclaimLock
<1>3. \A g \in Tokens : LockMoves(g)
  <2>1. CASE CreateLock(c)
    <3>1. call'[c].stage = "created" /\ lock' \in Locks
      BY <1>0, <2>1, LockTypes DEF CreateLock, CallsOK, Calls
    <3>2. lock'[call[c].grant].by = c
      BY <1>0, <2>1, LockTypes DEF CreateLock, FilesOK, Locks, NoLock
    <3>3. \A g \in Tokens : g # call[c].grant => lock'[g] = lock[g]
      BY <1>0, <2>1 DEF CreateLock, FilesOK, Locks
    <3> QED
      BY <1>2, <3>1, <3>2, <3>3 DEF LockMoves
  <2>2. CASE ReclaimLock(c)
    BY <1>0, <2>2, RefreshAssumption DEF ReclaimLock, FilesOK, Locks, NoLock, LockMoves
  <2>3. CASE MeetLock(c) \/ JudgeLock(c)
    BY <2>3, StillPlaces DEF MeetLock, JudgeLock
  <2> QED
    BY <2>1, <2>2, <2>3
<1>4. \A p \in Processes, g \in Tokens : PlaceMoves(p, g)
  BY StillPlaces DEF CreateLock, MeetLock, JudgeLock, ReclaimLock
<1>5. CallMoves(c) /\ ~Rests(c)
  BY <1>2 DEF CallMoves, Waits, Rests
<1> QED
  BY <1>1, <1>2, <1>3, <1>4, <1>5, OneMoves

\* A flight that is about to close with an outcome.
LEMMA ClosingEffect ==
    ASSUME HeldInv, NEW c \in Callers, NEW o, call' = Closing(c, o)
    PROVE  /\ Same(c) /\ call'[c].stage = "closing" /\ call'[c].outcome = o
           /\ \A d \in Callers \ {c} : call'[d] = call[d]
<1>0. CallsOK /\ call[c] \in Calls
  BY CallType, TypeParts DEF HeldInv, RefreshInv
<1> QED
  BY <1>0 DEF Closing, CallsOK, Calls, Same

\* An error is not a token.
LEMMA FailureKind == Failure.kind # "token"
BY DEF Failure, Outcome

\* The lock is written, and the record read again under it.
LEMMA LockedMoves ==
    ASSUME HeldInv, NEW c \in Callers, Locked(c)
    PROVE  /\ Moves /\ (Asks(c) \/ Closes(c))
           /\ \A d \in Callers \ {c} : call'[d] = call[d]
<1> DEFINE a == call[c].account
           g == call[c].grant
           rec == record[a]
<1>0. /\ CallsOK /\ FilesOK /\ call[c] \in Calls /\ g \in Tokens /\ a \in Accounts
      /\ call[c].stage = "created" /\ UNCHANGED <<record, flights>>
  BY CallType, TypeParts DEF HeldInv, RefreshInv, Locked
<1>1. \/ call' = Closing(c, Failure)
      \/ call' = Closing(c, Token(rec.cred, rec.generation))
      \/ /\ rec.cred.grant = g
         /\ \E b \in Accounts : \E stage \in {"adopting", "requested"} :
              /\ record[b].cred.grant = g
              /\ call' = [call EXCEPT ![c] = [call[c] EXCEPT !.stage = stage, !.start = rec.generation,
                                                !.reply = Token(record[b].cred, 0)]]
  <2>1. CASE call' = Closing(c, Failure) \/ call' = Closing(c, Token(rec.cred, rec.generation))
    BY <2>1
  <2>2. CASE /\ rec.cred.grant = g
             /\ call' = [call EXCEPT ![c].stage = "requested", ![c].start = rec.generation,
                                     ![c].reply = Token(rec.cred, 0)]
    <3>1. call' = [call EXCEPT ![c] = [call[c] EXCEPT !.stage = "requested", !.start = rec.generation,
                                         !.reply = Token(rec.cred, 0)]]
      BY <1>0, <2>2 DEF CallsOK
    <3> QED
      BY <1>0, <2>2, <3>1
  <2>3. CASE /\ rec.cred.grant = g
             /\ \E cred \in Siblings(a, g) :
                  call' = [call EXCEPT ![c].stage = "adopting", ![c].start = rec.generation,
                                       ![c].reply = Token(cred, 0)]
    <3>1. PICK b \in Accounts :
             /\ record[b].cred.grant = g
             /\ call' = [call EXCEPT ![c].stage = "adopting", ![c].start = rec.generation,
                                     ![c].reply = Token(record[b].cred, 0)]
      BY <2>3 DEF Siblings
    <3>2. call' = [call EXCEPT ![c] = [call[c] EXCEPT !.stage = "adopting", !.start = rec.generation,
                                         !.reply = Token(record[b].cred, 0)]]
      BY <1>0, <3>1 DEF CallsOK
    <3> QED
      BY <2>3, <3>1, <3>2
  <2> QED
    BY <1>0, <2>1, <2>2, <2>3 DEF Locked, CallsOK, Calls
<1>2. Asks(c) \/ Closes(c)
  <2>1. CASE call' = Closing(c, Failure) \/ call' = Closing(c, Token(rec.cred, rec.generation))
    <3>1. PICK o \in {Failure, Token(rec.cred, rec.generation)} : call' = Closing(c, o)
      BY <2>1
    <3>2. Same(c) /\ call'[c].stage = "closing" /\ call'[c].outcome = o
      <4> HIDE DEF rec
      <4> QED
        BY <3>1, ClosingEffect
    <3>3. o.kind # "token" \/ o.cred = rec.cred
      BY <3>1, FailureKind DEF Token
    <3> QED
      BY <1>0, <3>2, <3>3 DEF Closes, Holding
  <2>2. ASSUME rec.cred.grant = g, NEW b \in Accounts, NEW stage \in {"adopting", "requested"},
               record[b].cred.grant = g,
               call' = [call EXCEPT ![c] = [call[c] EXCEPT !.stage = stage, !.start = rec.generation,
                                              !.reply = Token(record[b].cred, 0)]]
        PROVE  Asks(c)
    <3> DEFINE x == [call[c] EXCEPT !.stage = stage, !.start = rec.generation,
                                    !.reply = Token(record[b].cred, 0)]
    <3>1. call'[c] = x
      BY <1>0, <2>2 DEF CallsOK
    <3>2. /\ x.stage = stage /\ x.start = rec.generation /\ x.reply = Token(record[b].cred, 0)
          /\ x.home = call[c].home /\ x.grant = g /\ x.account = a
      BY <1>0 DEF Calls
    <3>3. x.reply.cred = record[b].cred
      BY <3>2 DEF Token
    <3> HIDE DEF x
    <3> QED
      BY <1>0, <2>2, <3>1, <3>2, <3>3 DEF Asks, Same
  <2> QED
    BY <1>1, <2>1, <2>2
<1>3. \A d \in Callers \ {c} : call'[d] = call[d]
  <2> HIDE DEF rec
  <2> QED
    BY <1>0, <1>1, ClosingEffect DEF CallsOK
<1>4. \A h \in Tokens : LockMoves(h)
  <2>1. \A h \in Tokens : lock'[h].by = lock[h].by
    BY <1>0 DEF Locked, FilesOK, Locks
  <2> QED
    BY <2>1 DEF LockMoves
<1>5. CallMoves(c) /\ ~Rests(c)
  BY <1>2 DEF CallMoves, Asks, Closes, Rests
<1> QED
  BY <1>0, <1>2, <1>3, <1>4, <1>5, OneMoves, StillPlaces

\* A flight stores what it bears, or fails, and closes.
LEMMA StoreMoves ==
    ASSUME HeldInv, NEW c \in Callers, Adopt(c) \/ Receive(c) \/ Interrupt(c)
    PROVE  /\ Moves /\ Closes(c)
           /\ \A d \in Callers \ {c} : call'[d] = call[d]
           /\ UNCHANGED record \/ (Bears(call[c]) /\ SaveReply(c))
<1>1. /\ call[c].stage \in Holding /\ UNCHANGED <<flights, lock>>
      /\ \/ Bears(call[c]) /\ SaveReply(c)
         \/ call' = Closing(c, Failure) /\ UNCHANGED record
  BY DEF Adopt, Receive, Interrupt, Holding, Bears
<1>2. /\ Closes(c) /\ \A d \in Callers \ {c} : call'[d] = call[d]
  <2>1. CASE call' = Closing(c, Failure)
    BY <1>1, <2>1, ClosingEffect, FailureKind DEF Closes
  <2>2. CASE Bears(call[c]) /\ SaveReply(c)
    <3>1. PICK o \in {Failure, Token(call[c].reply.cred, call[c].start + 1)} : call' = Closing(c, o)
      BY <2>2 DEF SaveReply
    <3>2. o.kind # "token" \/ o.cred = call[c].reply.cred
      BY <3>1, FailureKind DEF Token
    <3> QED
      BY <1>1, <2>2, <3>1, <3>2, ClosingEffect DEF Closes
  <2> QED
    BY <1>1, <2>1, <2>2
<1>3. CallMoves(c) /\ ~Rests(c)
  BY <1>2 DEF CallMoves, Closes, Rests
<1> QED
  BY <1>1, <1>2, <1>3, OneMoves, StillPlaces

\* The upstream answers, with the login that it was asked with.
LEMMA AnswerMoves ==
    ASSUME HeldInv, NEW c \in Callers, Answer(c)
    PROVE  Moves /\ Hears(c) /\ \A d \in Callers \ {c} : call'[d] = call[d]
<1>0. /\ CallsOK /\ call[c] \in Calls /\ call[c].stage = "requested"
      /\ call[c].reply.cred \in Credentials /\ UNCHANGED <<flights, lock>>
  BY CallType, TypeParts DEF HeldInv, RefreshInv, Answer
<1>1. PICK o : /\ call' = [call EXCEPT ![c].stage = "replied", ![c].reply = o]
               /\ \/ o = Failure
                  \/ /\ issued' = issued + 1
                     /\ \E grant \in {call[c].grant, issued + 1} :
                          o = Token([call[c].reply.cred EXCEPT !.token = issued + 1,
                                                               !.grant = grant], 0)
  BY DEF Answer
<1>2. o.kind # "token" \/
        (/\ issued' = issued + 1
         /\ o.cred.login = call[c].reply.cred.login
         /\ o.cred.grant \in {call[c].grant, issued + 1})
  <2>1. CASE o = Failure
    BY <2>1, FailureKind
  <2>2. ASSUME NEW grant \in {call[c].grant, issued + 1}, issued' = issued + 1,
               o = Token([call[c].reply.cred EXCEPT !.token = issued + 1, !.grant = grant], 0)
        PROVE  o.cred.login = call[c].reply.cred.login /\ o.cred.grant = grant
    BY <1>0, <2>2 DEF Token, Credentials
  <2> QED
    BY <1>1, <2>1, <2>2
<1>3. call'[c].reply = o /\ call'[c].stage = "replied" /\ call'[c].start = call[c].start /\ Same(c)
  BY <1>0, <1>1 DEF CallsOK, Calls, Same
<1>4. Hears(c) /\ \A d \in Callers \ {c} : call'[d] = call[d]
  BY <1>0, <1>1, <1>2, <1>3 DEF CallsOK, Hears
<1>5. CallMoves(c) /\ ~Rests(c)
  BY <1>4 DEF CallMoves, Hears, Rests
<1> QED
  BY <1>0, <1>4, <1>5, OneMoves, StillPlaces

\* A flight that ends leaves nothing behind that names it.
LEMMA EndMoves ==
    ASSUME HeldInv, NEW c \in Callers, Close(c) \/ GiveUp(c)
    PROVE  Moves
<1> DEFINE p == call[c].home
           o == IF call[c].stage = "closing" THEN call[c].outcome ELSE Failure
<1>0. /\ CallsOK /\ FilesOK /\ p \in Processes /\ call[c].grant \in Tokens
      /\ call[c].stage \in {"closing", "locking"}
      /\ call' = Settled(c, o) /\ flights' = Landed(c)
      /\ lock' = lock \/ lock' = [lock EXCEPT ![call[c].grant] = NoLock]
      /\ call[c].stage = "closing" => lock' = [lock EXCEPT ![call[c].grant] = NoLock]
  BY CallType, TypeParts DEF HeldInv, RefreshInv, CallsOK, Close, GiveUp
<1> HIDE DEF o
<1>1. Rests(c)
  BY <1>0, RestingType DEF Settled, Answered, Calls, Rests
<1>2. \A d \in Callers \ {c} :
        /\ Alike(call'[d], call[d]) \/ Woken(d)
        /\ (call[d].stage = "joined" /\ call[d].on = c) => call'[d].stage = "resumed"
  <2> SUFFICES ASSUME NEW d \in Callers \ {c}
               PROVE  /\ Alike(call'[d], call[d]) \/ Woken(d)
                      /\ (call[d].stage = "joined" /\ call[d].on = c) => call'[d].stage = "resumed"
    OBVIOUS
  <2>1. CASE call[d].stage = "joined" /\ call[d].on = c
    <3>1. call[d] \in Calls
      BY <1>0, CallType
    <3>2. call'[d] = [call[d] EXCEPT !.stage = "resumed", !.on = NoCaller, !.outcome = o]
      BY <1>0, <2>1 DEF Settled
    <3>3. o.kind # "token" \/ (call[c].stage = "closing" /\ o = call[c].outcome)
      BY FailureKind DEF o
    <3> QED
      BY <2>1, <3>1, <3>2, <3>3 DEF Calls, Woken, Same
  <2>2. CASE ~(call[d].stage = "joined" /\ call[d].on = c)
    BY <1>0, <2>2 DEF Settled, Alike
  <2> QED
    BY <2>1, <2>2
<1>3. \A q \in Processes, g \in Tokens :
        /\ PlaceMoves(q, g) /\ flights'[q][g] # c
  <2>1. flights' = [flights EXCEPT ![p] =
                      [g \in Tokens |-> IF flights[p][g] = c THEN NoCaller ELSE flights[p][g]]]
    BY <1>0 DEF Landed
  <2>2. \A q \in Processes, g \in Tokens : flights[q][g] = c => q = p
    BY DEF HeldInv, PlacesHeld
  <2> QED
    BY <1>0, <2>1, <2>2, RefreshAssumption DEF CallsOK, PlaceMoves
<1>4. \A g \in Tokens : LockMoves(g) /\ lock'[g].by # c
  <2>1. \A g \in Tokens : lock[g].by = c => call[c].stage = "closing" /\ g = call[c].grant
    BY <1>0 DEF HeldInv, LocksHeld, Holding
  <2>2. \A g \in Tokens : lock'[g] = lock[g] \/ lock'[g] = NoLock
    BY <1>0 DEF FilesOK, Locks
  <2>3. call[c].stage = "closing" => lock'[call[c].grant] = NoLock
    BY <1>0 DEF FilesOK, Locks
  <2> QED
    BY <2>1, <2>2, <2>3, RefreshAssumption DEF LockMoves, NoLock
<1>5. Gone(c)
  BY <1>1, <1>2, <1>3, <1>4 DEF Gone, Rests
<1>6. \A d \in Callers \ {c} : CallMoves(d) /\ (call[d].stage \in Flying => ~Rests(d))
  BY <1>2 DEF CallMoves, Alike, Woken, Rests, Flying
<1>7. CallMoves(c)
  BY <1>1 DEF CallMoves
<1> QED
  BY <1>3, <1>4, <1>5, <1>6, <1>7 DEF Moves

\* A call of getValidCodexToken joins the flight that has its grant's place, or
\* takes that place.
LEMMA EnterMoves ==
    ASSUME HeldInv, NEW c \in Callers, NEW p \in Processes, NEW a \in Accounts,
           call[c].stage \notin Flying, Enter(c, p, a), UNCHANGED lock
    PROVE  Moves
<1> DEFINE g == record[a].cred.grant
<1>0. TypeOK /\ CallsOK /\ g \in Tokens
  BY RecordType, TypeParts DEF HeldInv, RefreshInv
<1>1. EnteredAs(c, p, a)
  BY <1>0, EnterEffect
<1>2. CallMoves(c)
  <2>1. CASE call'[c].stage = "joined"
    BY <1>1, <2>1 DEF EnteredAs, CallMoves, Joins
  <2>2. CASE call'[c].stage = "locking"
    BY <1>1, <2>2 DEF EnteredAs, CallMoves, Begins
  <2>3. CASE call'[c].stage \in {"idle", "done"}
    BY <2>3 DEF CallMoves, Rests
  <2> QED
    BY <1>1, <2>1, <2>2, <2>3 DEF EnteredAs
<1>3. \A d \in Callers \ {c} : CallMoves(d) /\ (call[d].stage \in Flying => ~Rests(d))
  BY <1>1 DEF EnteredAs, CallMoves, Alike, Rests, Flying
<1>4. \A q \in Processes, h \in Tokens : PlaceMoves(q, h)
  <2> SUFFICES ASSUME NEW q \in Processes, NEW h \in Tokens, NEW d \in Callers,
                      flights'[q][h] = d, flights[q][h] # d
               PROVE  Begins(d) /\ call'[d].home = q /\ call'[d].grant = h
    BY DEF PlaceMoves
  <2>1. q = p /\ h = g /\ d = c /\ call'[c].stage = "locking"
    BY <1>1, RefreshAssumption DEF EnteredAs
  <2> QED
    BY <1>1, <2>1 DEF EnteredAs, Begins
<1> QED
  BY <1>2, <1>3, <1>4, StillPlaces DEF Moves

\* A caller that flies no flight is answered.
LEMMA RestMoves ==
    ASSUME HeldInv, NEW c \in Callers, call[c].stage \notin Flying, Rests(c),
           \A d \in Callers \ {c} : call'[d] = call[d],
           UNCHANGED <<lock, flights>>
    PROVE  Moves
<1>1. CallMoves(c)
  BY DEF CallMoves
<1> QED
  BY <1>1, OneMoves, StillPlaces

\* An answered caller flies nothing.
LEMMA AnsweredRests ==
    ASSUME NEW p, NEW a, NEW o
    PROVE  Answered(p, a, o).stage \in {"idle", "done"}
BY RestingType DEF Answered, Calls

\* A caller that was woken: a record changes only if it still has the grant.
LEMMA ResumeMoves ==
    ASSUME HeldInv, NEW c \in Callers, Resume(c)
    PROVE  Moves /\ (UNCHANGED record \/
                       (/\ call[c].stage = "resumed" /\ call[c].outcome.kind = "token"
                        /\ ~record[call[c].account].deleted
                        /\ record[call[c].account].cred.grant = call[c].grant
                        /\ TakeOver(c)))
<1> DEFINE a == call[c].account
           p == call[c].home
<1>0. /\ CallsOK /\ call[c].stage = "resumed" /\ a \in Accounts /\ p \in Processes
      /\ UNCHANGED lock /\ call[c].stage \notin Flying
  BY CallType, TypeParts DEF HeldInv, RefreshInv, CallsOK, Resume, Flying
<1>1. CASE call' = [call EXCEPT ![c] = Resting] /\ UNCHANGED <<record, flights>>
  <2>1. Rests(c) /\ \A d \in Callers \ {c} : call'[d] = call[d]
    BY <1>0, <1>1, RestingType DEF CallsOK, Rests
  <2> QED
    BY <1>0, <1>1, <2>1, RestMoves
<1>2. CASE /\ call[c].outcome.kind = "token" /\ ~record[a].deleted
           /\ record[a].cred.grant = call[c].grant /\ TakeOver(c)
  <2>1. PICK o : call' = [call EXCEPT ![c] = Answered(p, a, o)] /\ UNCHANGED flights
    BY <1>2 DEF TakeOver
  <2> DEFINE x == Answered(p, a, o)
  <2>2. x.stage \in {"idle", "done"}
    BY AnsweredRests
  <2>3. call' = [call EXCEPT ![c] = x] /\ UNCHANGED flights
    BY <2>1
  <2> HIDE DEF x
  <2>4. Rests(c) /\ \A d \in Callers \ {c} : call'[d] = call[d]
    BY <1>0, <2>2, <2>3 DEF CallsOK, Rests
  <2>5. Moves
    BY <1>0, <2>3, <2>4, RestMoves
  <2> QED
    BY <1>0, <1>2, <2>5
<1>3. CASE Enter(c, p, a) /\ UNCHANGED record
  <2> HIDE DEF p, a
  <2> QED
    BY <1>0, <1>3, EnterMoves
<1> QED
  BY <1>1, <1>2, <1>3 DEF Resume

\* A step of the surroundings moves no call.
LEMMA StillMoves ==
    ASSUME HeldInv, UNCHANGED <<call, lock, flights>> PROVE Moves
<1>1. \A d \in Callers : CallMoves(d) /\ (call[d].stage \in Flying => ~Rests(d))
  BY DEF CallMoves, Alike, Rests, Flying
<1> QED
  BY <1>1, StillPlaces DEF Moves

\* A process that dies is named by nothing any more; only its lock files stay.
LEMMA CrashMoves ==
    ASSUME HeldInv, NEW p \in Processes, Crash(p) PROVE Moves
<1> DEFINE dead == {c \in Callers : call[c].home = p}
<1>0. CallsOK /\ FilesOK
  BY TypeParts DEF HeldInv, RefreshInv
<1>1. /\ call' = [c \in Callers |-> IF c \in dead THEN Resting ELSE call[c]]
      /\ flights' = [flights EXCEPT ![p] = [g \in Tokens |-> NoCaller]]
      /\ lock' = [g \in Tokens |->
           IF lock[g].by \in dead THEN [lock[g] EXCEPT !.by = NoCaller] ELSE lock[g]]
  BY DEF Crash
<1>2. \A d \in Callers : IF d \in dead THEN call'[d] = Resting ELSE call'[d] = call[d]
  BY <1>1
<1>3. /\ \A q \in Processes, g \in Tokens :
           flights'[q][g] = IF q = p THEN NoCaller ELSE flights[q][g]
      /\ \A g \in Tokens : lock'[g].by = IF lock[g].by \in dead THEN NoCaller ELSE lock[g].by
  BY <1>0, <1>1 DEF CallsOK, FilesOK, Locks
<1>4. \A q \in Processes, g \in Tokens : PlaceMoves(q, g)
  BY <1>3, RefreshAssumption DEF PlaceMoves
<1>5. \A g \in Tokens : LockMoves(g)
  BY <1>3, RefreshAssumption DEF LockMoves
<1>6. ASSUME NEW d \in Callers
      PROVE  CallMoves(d) /\ (call[d].stage \in Flying /\ Rests(d) => Gone(d))
  <2>1. CASE d \in dead
    <3>1. \A q \in Processes, g \in Tokens : flights'[q][g] # d
      BY <1>3, <2>1, RefreshAssumption DEF HeldInv, PlacesHeld
    <3>2. \A g \in Tokens : lock'[g].by # d
      BY <1>3, <2>1, RefreshAssumption
    <3>3. \A e \in Callers : call[e].stage = "joined" /\ call[e].on = d => call'[e].stage # "joined"
      <4>1. \A e \in Callers : call[e].stage = "joined" /\ call[e].on = d => e \in dead
        BY <2>1 DEF HeldInv, JoinsFlight
      <4> QED
        BY <1>2, <4>1, RestingType
    <3> QED
      BY <1>2, <2>1, <3>1, <3>2, <3>3, RestingType DEF Gone, CallMoves, Rests
  <2>2. CASE d \notin dead
    BY <1>2, <2>2 DEF CallMoves, Alike, Rests, Flying
  <2> QED
    BY <2>1, <2>2
<1> QED
  BY <1>4, <1>5, <1>6 DEF Moves

\* However the calls of a step interleave, each moves as Moves says.
LEMMA EveryStepMoves ==
    ASSUME HeldInv, [Next]_vars PROVE Moves
<1>1. CASE UNCHANGED vars \/ Tick \/ \E a \in Accounts : Expire(a) \/ SignIn(a) \/ Remove(a)
  BY <1>1, StillMoves DEF vars, Tick, Expire, SignIn, Remove
<1>2. ASSUME NEW c \in Callers, NEW p \in Processes, NEW a \in Accounts, Ask(c, p, a)
      PROVE  Moves
  BY <1>2, EnterMoves DEF Ask, Flying
<1>3. ASSUME NEW c \in Callers, Leave(c) \/ Flight(c) \/ Resume(c) \/ Answer(c) PROVE Moves
  <2>1. CASE Leave(c)
    <3>1. CallsOK
      BY TypeParts DEF HeldInv, RefreshInv
    <3>2. Rests(c) /\ \A d \in Callers \ {c} : call'[d] = call[d]
      BY <2>1, <3>1, RestingType DEF Leave, CallsOK, Rests
    <3> QED
      BY <2>1, <3>2, RestMoves DEF Leave, Flying
  <2> QED
    BY <1>3, <2>1, WaitMoves, LockedMoves, StoreMoves, EndMoves, ResumeMoves, AnswerMoves DEF Flight
<1>4. ASSUME NEW p \in Processes, Crash(p) PROVE Moves
  BY <1>4, CrashMoves
<1> QED
  BY <1>1, <1>2, <1>3, <1>4 DEF Next

\* Nothing is held at the start ...
LEMMA HeldInvInit == Init => HeldInv
<1> SUFFICES ASSUME Init PROVE HeldInv
  OBVIOUS
<1>1. LocksHeld /\ PlacesHeld
  BY RefreshAssumption DEF Init, LocksHeld, PlacesHeld, NoLock
<1>2. JoinsFlight
  BY RestingType DEF Init, JoinsFlight
<1> QED
  BY <1>1, <1>2, RefreshInvInit DEF HeldInv

\* ... and HeldInv is inductive.
LEMMA HeldInvHolds == Spec => []HeldInv
<1>1. HeldInv /\ [Next]_vars => HeldInv'
  <2> SUFFICES ASSUME HeldInv, [Next]_vars PROVE HeldInv'
    OBVIOUS
  <2> QED
    BY EveryStepMoves, HeldStep, RefreshInvStep DEF HeldInv
<1> QED
  BY <1>1, HeldInvInit, PTL DEF Spec

\* Whatever ends a call, its lock file and its place among the flights go with
\* it; only a crash leaves a file, and that names nobody.
THEOREM CallsLeaveNothing == Spec => []NothingLeftBehind
<1>1. HeldInv => NothingLeftBehind
  <2> SUFFICES ASSUME HeldInv PROVE NothingLeftBehind
    OBVIOUS
  <2>1. /\ \A g \in Tokens : lock[g].by \in Callers \cup {NoCaller}
        /\ \A p \in Processes, g \in Tokens : flights[p][g] \in Callers \cup {NoCaller}
    BY DEF HeldInv, RefreshInv, TypeOK
  <2> QED
    BY <2>1 DEF HeldInv, LocksHeld, PlacesHeld, Holding, Flying, InFlight, NothingLeftBehind
<1> QED
  BY <1>1, HeldInvHolds, PTL

-----------------------------------------------------------------------------
(* Which login a grant descends from.                                      *)

Asking == {"adopting", "requested", "replied"}

\* A flight asks for the grant of the record whose generation it saves for.
StartKnown(x, rec) ==
    x.stage \in Asking =>
        /\ x.start <= rec.generation
        /\ (x.start = rec.generation /\ ~rec.deleted) => rec.cred.grant = x.grant

\* L tells the login that a grant descends from, for the first n tokens.
LoginOf(L, n, cred) ==
    cred.grant <= n /\ cred.login <= n /\ cred.login = L[cred.grant]

Carries(L, n, grant, cred) == LoginOf(L, n, cred) /\ L[grant] <= cred.login

\* A call knows grants by their logins, and what it could store for its account
\* is of no earlier login than the grant it flies with.
Knows(L, n, x, rec) ==
    /\ x.stage \in Flying \cup {"joined", "resumed"} => x.grant <= n
    /\ x.stage \in Flying => L[x.grant] <= rec.cred.login
    /\ (Bears(x) \/ x.stage = "requested") => Carries(L, n, x.grant, x.reply.cred)
    /\ x.stage = "requested" => x.reply.cred.grant = x.grant
    /\ (x.stage \in {"closing", "resumed"} /\ x.outcome.kind = "token")
          => Carries(L, n, x.grant, x.outcome.cred)

Logins(L) ==
    /\ \A a \in Accounts : LoginOf(L, issued, record[a].cred)
    /\ \A c \in Callers :
         /\ Knows(L, issued, call[c], record[call[c].account])
         /\ StartKnown(call[c], record[call[c].account])

LoginInv == HeldInv /\ \E L \in [Tokens -> Tokens] : Logins(L)

\* What a step may do to a record: a login, a removal, or a save of a credential
\* that descends from no earlier login than the stored one.
RecordMoves(L, a) ==
    \/ record'[a] = record[a]
    \/ /\ record'[a].generation > record[a].generation
       /\ \/ SignIn(a)
          \/ record'[a].deleted /\ record'[a].cred = record[a].cred
          \/ /\ ~record[a].deleted
             /\ Carries(L, issued, record[a].cred.grant, record'[a].cred)

\* A save that changes a record found the generation it saves for.
LEMMA SaveChanges ==
    ASSUME FilesOK, NEW a \in Accounts, NEW cred \in Credentials, NEW generation \in Nat,
           NEW o, Save(a, cred, generation, o)
    PROVE  \/ UNCHANGED record
           \/ /\ Matches(a, generation)
              /\ record'[a].cred = cred /\ record'[a].generation = generation + 1
              /\ \A b \in Accounts \ {a} : record'[b] = record[b]
<1>1. CASE Matches(a, generation)
           /\ record' = [record EXCEPT ![a].cred = cred, ![a].generation = generation + 1]
  <2>1. record \in Records
    BY DEF FilesOK
  <2>2. record'[a].cred = cred /\ record'[a].generation = generation + 1
    BY <1>1, <2>1 DEF Records
  <2>3. \A b \in Accounts \ {a} : record'[b] = record[b]
    BY <1>1, <2>1 DEF Records
  <2> QED
    BY <1>1, <2>2, <2>3
<1>2. CASE UNCHANGED record
  BY <1>2
<1> QED
  BY <1>1, <1>2 DEF Save, Saved

\* Every step changes records as RecordMoves says.
LEMMA RecordStep ==
    ASSUME HeldInv, [Next]_vars, NEW L \in [Tokens -> Tokens], Logins(L), NEW a \in Accounts
    PROVE  RecordMoves(L, a)
<1>0. /\ CallsOK /\ FilesOK /\ record[a].generation \in Nat
  BY RecordType, TypeParts DEF HeldInv, RefreshInv
<1>1. CASE UNCHANGED record
  BY <1>1 DEF RecordMoves
<1>2. ASSUME NEW c \in Callers, Bears(call[c]), SaveReply(c) PROVE RecordMoves(L, a)
  <2>1. /\ call[c].account \in Accounts /\ call[c].reply.cred \in Credentials
        /\ call[c].start \in Nat
    BY <1>0, CallType
  <2>2. PICK o : Save(call[c].account, call[c].reply.cred, call[c].start, o)
    BY <1>2 DEF SaveReply
  <2>3. \/ UNCHANGED record
        \/ /\ Matches(call[c].account, call[c].start)
           /\ record'[call[c].account].cred = call[c].reply.cred
           /\ record'[call[c].account].generation = call[c].start + 1
           /\ \A b \in Accounts \ {call[c].account} : record'[b] = record[b]
    BY <1>0, <2>1, <2>2, SaveChanges
  <2>4. CASE a = call[c].account /\ Matches(a, call[c].start)
             /\ record'[a].cred = call[c].reply.cred
             /\ record'[a].generation = call[c].start + 1
    <3>1. /\ ~record[a].deleted /\ call[c].start = record[a].generation
          /\ record[a].cred.grant = call[c].grant
      BY <1>2, <2>4 DEF Matches, Logins, StartKnown, Asking, Bears
    <3>2. Carries(L, issued, call[c].grant, call[c].reply.cred)
      BY <1>2 DEF Logins, Knows
    <3> QED
      BY <1>0, <2>4, <3>1, <3>2 DEF RecordMoves
  <2> QED
    BY <1>1, <2>3, <2>4 DEF RecordMoves
<1>3. ASSUME NEW c \in Callers, Resume(c) PROVE RecordMoves(L, a)
  <2> DEFINE b == call[c].account
             cred == call[c].outcome.cred
             generation == record[b].generation
  <2>1. b \in Accounts /\ cred \in Credentials
    BY <1>0, CallType
  <2>2. generation \in Nat
    BY <2>1, RecordType, TypeParts DEF HeldInv, RefreshInv
  <2>3. CASE /\ call[c].stage = "resumed" /\ call[c].outcome.kind = "token"
             /\ ~record[b].deleted /\ record[b].cred.grant = call[c].grant
             /\ TakeOver(c)
    <3>1. PICK o : Save(b, cred, generation, o)
      BY <2>3 DEF TakeOver
    <3>2. \/ UNCHANGED record
          \/ /\ record'[b].cred = cred /\ record'[b].generation = generation + 1
             /\ \A d \in Accounts \ {b} : record'[d] = record[d]
      <4> HIDE DEF b, cred, generation
      <4> QED
        BY <1>0, <2>1, <2>2, <3>1, SaveChanges
    <3>3. Carries(L, issued, record[b].cred.grant, cred)
      BY <2>3 DEF Logins, Knows
    <3>4. CASE a = b /\ record'[b].cred = cred /\ record'[b].generation = generation + 1
      BY <2>2, <2>3, <3>3, <3>4 DEF RecordMoves
    <3> QED
      BY <1>1, <3>2, <3>4 DEF RecordMoves
  <2> QED
    BY <1>1, <1>3, <2>3, ResumeMoves
<1>4. ASSUME NEW b \in Accounts, SignIn(b) \/ Remove(b) PROVE RecordMoves(L, a)
  <2>1. CASE a # b
    BY <1>0, <1>4, <2>1 DEF SignIn, Remove, FilesOK, Records, RecordMoves
  <2>2. CASE a = b /\ SignIn(b)
    <3>1. record'[a].generation = record[a].generation + 1
      BY <1>0, <2>2 DEF SignIn, FilesOK, Records
    <3> QED
      BY <1>0, <2>2, <3>1 DEF RecordMoves
  <2>3. CASE a = b /\ Remove(b)
    <3>1. record[a] \in [generation : Nat, deleted : BOOLEAN, cred : Credentials]
      BY <1>0 DEF FilesOK, Records
    <3>2. record'[a] = [record[a] EXCEPT !.deleted = TRUE, !.generation = record[a].generation + 1]
      BY <1>0, <2>3 DEF Remove, FilesOK, Records
    <3>3. /\ record'[a].generation = record[a].generation + 1
          /\ record'[a].deleted /\ record'[a].cred = record[a].cred
      BY <3>1, <3>2
    <3> QED
      BY <1>0, <3>3 DEF RecordMoves
  <2> QED
    BY <1>4, <2>1, <2>2, <2>3
<1>5. \/ UNCHANGED record
      \/ \E c \in Callers : Resume(c) \/ Adopt(c) \/ Receive(c) \/ Interrupt(c)
      \/ \E b \in Accounts : SignIn(b) \/ Remove(b)
  BY DEF Next, vars, Ask, Leave, Flight, CreateLock, MeetLock, JudgeLock, ReclaimLock, Locked,
         Close, GiveUp, Answer, Expire, Crash, Tick
<1> QED
  BY <1>1, <1>2, <1>3, <1>4, <1>5, StoreMoves

\* A record's login is never replaced by an earlier one.
LEMMA LoginRises ==
    ASSUME HeldInv, NEW L \in [Tokens -> Tokens], Logins(L), NEW a \in Accounts, RecordMoves(L, a)
    PROVE  /\ record'[a].cred.login >= record[a].cred.login
           /\ SignIn(a) \/ (record[a].deleted => record'[a].deleted)
<1>1. FilesOK /\ issued \in Nat /\ record[a].cred.login \in Nat
  BY TypeParts, RefreshAssumption DEF HeldInv, RefreshInv, FilesOK, Records, Credentials, Tokens
<1>2. LoginOf(L, issued, record[a].cred)
  BY DEF Logins
<1>3. CASE SignIn(a)
  <2>1. record'[a].cred.login = issued + 1
    BY <1>1, <1>3 DEF SignIn, FilesOK, Records
  <2> QED
    BY <1>1, <1>2, <1>3, <2>1 DEF LoginOf
<1> QED
  BY <1>1, <1>2, <1>3 DEF RecordMoves, Carries, LoginOf

\* M tells what L tells, and may tell of a token that the step issues.
Extends(M, L) ==
    /\ M \in [Tokens -> Tokens] /\ issued <= issued'
    /\ \A g \in Tokens : g <= issued => M[g] = L[g]

\* What L tells of a credential, M tells as well.
LEMMA StillCarries ==
    ASSUME HeldInv, NEW L \in [Tokens -> Tokens], NEW M, Extends(M, L), issued' \in Tokens,
           NEW cred \in Credentials, LoginOf(L, issued, cred)
    PROVE  /\ LoginOf(M, issued', cred)
           /\ \A g \in Tokens : g <= issued /\ L[g] <= cred.login => M[g] <= cred.login
<1>1. issued \in Nat /\ issued' \in Nat /\ cred.grant \in Nat /\ cred.login \in Nat /\ cred.grant \in Tokens
  BY RefreshAssumption DEF HeldInv, RefreshInv, TypeOK, Credentials, Tokens
<1> QED
  BY <1>1 DEF LoginOf, Extends

\* A step issues at most one token; its login is known from who asked for it.
LEMMA LoginsExtend ==
    ASSUME HeldInv, [Next]_vars, RefreshInv', NEW L \in [Tokens -> Tokens], Logins(L)
    PROVE  \E M \in [Tokens -> Tokens] :
             /\ Extends(M, L)
             /\ \A a \in Accounts : SignIn(a) => LoginOf(M, issued', record'[a].cred)
             /\ \A c \in Callers :
                  (Hears(c) /\ call'[c].reply.kind = "token")
                     => Carries(M, issued', call[c].grant, call'[c].reply.cred)
<1>0. /\ CallsOK /\ FilesOK /\ issued \in Tokens /\ issued' \in Tokens /\ issued \in Nat
      /\ \A g \in Tokens : g \in Nat
  BY TypeParts, RefreshAssumption DEF HeldInv, RefreshInv, FilesOK, Tokens
<1>1. CASE UNCHANGED issued
  <2>1. Extends(L, L)
    BY <1>0, <1>1 DEF Extends
  <2>2. \A a \in Accounts : ~SignIn(a)
    BY <1>0, <1>1 DEF SignIn
  <2>3. \A c \in Callers : Hears(c) => call'[c].reply.kind # "token"
    BY <1>0, <1>1 DEF Hears
  <2> QED
    BY <2>1, <2>2, <2>3
<1>2. ASSUME NEW a \in Accounts, SignIn(a)
      PROVE  \E M \in [Tokens -> Tokens] :
               /\ Extends(M, L)
               /\ \A b \in Accounts : SignIn(b) => LoginOf(M, issued', record'[b].cred)
               /\ \A c \in Callers : ~Hears(c)
  <2> DEFINE M == [L EXCEPT ![issued + 1] = issued + 1]
  <2>1. issued' = issued + 1 /\ issued + 1 \in Tokens
    BY <1>0, <1>2 DEF SignIn
  <2>2. M \in [Tokens -> Tokens] /\ M[issued + 1] = issued + 1 /\ Extends(M, L)
    BY <1>0, <2>1 DEF Extends
  <2>3. ASSUME NEW b \in Accounts, SignIn(b) PROVE LoginOf(M, issued', record'[b].cred)
    <3>1. record'[b].cred = [token |-> issued + 1, grant |-> issued + 1, login |-> issued + 1]
      BY <1>0, <2>3 DEF SignIn, FilesOK, Records
    <3> HIDE DEF M
    <3> QED
      BY <1>0, <2>1, <2>2, <3>1 DEF LoginOf
  <2>4. \A c \in Callers : ~Hears(c)
    BY <1>2 DEF SignIn, Hears
  <2> HIDE DEF M
  <2> QED
    BY <2>2, <2>3, <2>4
<1>3. ASSUME NEW c \in Callers, Answer(c), ~UNCHANGED issued
      PROVE  \E M \in [Tokens -> Tokens] :
               /\ Extends(M, L)
               /\ \A b \in Accounts : ~SignIn(b)
               /\ \A d \in Callers :
                    (Hears(d) /\ call'[d].reply.kind = "token")
                       => Carries(M, issued', call[d].grant, call'[d].reply.cred)
  <2> DEFINE login == call[c].reply.cred.login
             M == [L EXCEPT ![issued + 1] = login]
  <2>1. issued' = issued + 1 /\ issued + 1 \in Tokens
    BY <1>0, <1>3 DEF Answer
  <2>2. /\ call[c].reply.cred \in Credentials /\ login \in Tokens /\ call[c].grant \in Tokens
    BY <1>0, CallType DEF Credentials
  <2>3. M \in [Tokens -> Tokens] /\ M[issued + 1] = login /\ Extends(M, L)
    BY <1>0, <2>1, <2>2 DEF Extends
  <2>4. Hears(c) /\ \A d \in Callers \ {c} : call'[d] = call[d]
    BY <1>3, AnswerMoves
  <2>5. \A b \in Accounts : ~SignIn(b)
    BY <2>4 DEF SignIn, Hears
  <2>6. /\ LoginOf(L, issued, call[c].reply.cred) /\ call[c].reply.cred.grant = call[c].grant
        /\ call[c].grant <= issued
    BY <2>4 DEF Logins, Knows, Carries, Hears, Flying
  <2>7. call'[c].reply.kind = "token" => Carries(M, issued', call[c].grant, call'[c].reply.cred)
    <3> SUFFICES ASSUME call'[c].reply.kind = "token"
                 PROVE  Carries(M, issued', call[c].grant, call'[c].reply.cred)
      OBVIOUS
    <3>1. /\ call'[c].reply.cred.login = login
          /\ call'[c].reply.cred.grant \in {call[c].grant, issued + 1}
      BY <2>4 DEF Hears
    <3>2. M[call[c].grant] = login
      BY <2>2, <2>3, <2>6 DEF Extends, LoginOf
    <3>3. login <= issued /\ login \in Nat
      BY <1>0, <2>2, <2>6 DEF LoginOf
    <3> DEFINE g == call[c].grant
               new == call'[c].reply.cred.grant
    <3>4. g \in Nat /\ g <= issued
      BY <1>0, <2>2, <2>6
    <3> HIDE DEF M, login
    <3>5. M[new] = login /\ new <= issued'
      <4>1. CASE new = g
        BY <1>0, <2>1, <3>2, <3>4, <4>1
      <4>2. CASE new = issued + 1
        BY <1>0, <2>1, <2>3, <4>2
      <4> QED
        BY <3>1, <4>1, <4>2
    <3>6. login <= issued' /\ M[g] <= login
      BY <1>0, <2>1, <3>2, <3>3
    <3> QED
      BY <3>1, <3>5, <3>6 DEF Carries, LoginOf
  <2>8. \A d \in Callers \ {c} : ~Hears(d)
    BY <2>4 DEF Hears
  <2> HIDE DEF M, login
  <2> QED
    BY <2>3, <2>5, <2>7, <2>8
<1>4. UNCHANGED issued \/ (\E a \in Accounts : SignIn(a)) \/ \E c \in Callers : Answer(c)
  BY DEF Next, vars, upstream, Ask, Leave, Flight, CreateLock, MeetLock, JudgeLock, ReclaimLock,
         Locked, Adopt, Receive, Interrupt, Close, GiveUp, Resume, Expire, Remove, Crash, Tick
<1> QED
  BY <1>1, <1>2, <1>3, <1>4

\* What calls know of logins stays known, whoever moves.
LEMMA KnownStep ==
    ASSUME HeldInv, HeldInv', [Next]_vars, NEW L \in [Tokens -> Tokens], Logins(L),
           NEW M \in [Tokens -> Tokens], Extends(M, L), NEW c \in Callers,
           \A d \in Callers :
              (Hears(d) /\ call'[d].reply.kind = "token")
                 => Carries(M, issued', call[d].grant, call'[d].reply.cred)
    PROVE  Knows(M, issued', call'[c], record'[call'[c].account])
<1> DEFINE x == call[c]
           y == call'[c]
           a == call[c].account
<1>0. /\ CallsOK /\ FilesOK /\ CallsOK' /\ FilesOK'
      /\ issued \in Nat /\ issued' \in Nat /\ issued' \in Tokens /\ issued <= issued'
      /\ \A g \in Tokens : g \in Nat
  BY TypeParts, RefreshAssumption DEF HeldInv, RefreshInv, FilesOK, Tokens, Extends
<1>1. /\ x \in Calls /\ y \in Calls /\ a \in Accounts /\ x.grant \in Tokens /\ y.account \in Accounts
      /\ x.reply.cred \in Credentials /\ x.outcome.cred \in Credentials
  BY <1>0, CallType DEF CallsOK, Calls
<1>2. \A b \in Accounts :
        /\ record[b].cred \in Credentials /\ LoginOf(L, issued, record[b].cred)
        /\ record[b].cred.login \in Nat /\ record'[b].cred.login \in Nat
        /\ record'[b].cred.login >= record[b].cred.login
  <2> SUFFICES ASSUME NEW b \in Accounts
               PROVE  /\ record[b].cred \in Credentials /\ LoginOf(L, issued, record[b].cred)
                      /\ record[b].cred.login \in Nat /\ record'[b].cred.login \in Nat
                      /\ record'[b].cred.login >= record[b].cred.login
    OBVIOUS
  <2>1. /\ record[b].cred \in Credentials /\ record[b].cred.login \in Nat
        /\ record'[b].cred.login \in Nat
    BY <1>0 DEF FilesOK, Records, Credentials
  <2> QED
    BY <2>1, LoginRises, RecordStep DEF Logins
<1>3. \A cred \in Credentials : LoginOf(L, issued, cred) =>
        /\ LoginOf(M, issued', cred)
        /\ \A g \in Tokens : g <= issued /\ L[g] <= cred.login => M[g] <= cred.login
  BY <1>0, StillCarries
<1>4. \A cred \in Credentials, g \in Tokens :
        g <= issued /\ Carries(L, issued, g, cred) => Carries(M, issued', g, cred)
  BY <1>3 DEF Carries
<1>5. \A g \in Tokens : g <= issued => M[g] = L[g] /\ g <= issued'
  <2>1. \A g \in Tokens : g <= issued => g <= issued'
    BY <1>0
  <2> QED
    BY <2>1 DEF Extends
<1>6. Knows(L, issued, x, record[a])
  BY DEF Logins
<1>7. CallMoves(c)
  BY EveryStepMoves DEF Moves
<1>8. \A g \in Tokens : g <= issued /\ L[g] <= record[a].cred.login =>
        M[g] <= record'[a].cred.login
  BY <1>0, <1>1, <1>2, <1>5
<1>9. \A g \in Tokens : L[g] \in Nat /\ M[g] \in Nat
  BY <1>0
<1>a. (x.stage \in Flying \cup {"joined", "resumed"} /\ Same(c)) =>
         /\ y.grant = x.grant /\ y.account = a /\ x.grant <= issued /\ y.grant <= issued'
         /\ x.stage \in Flying => M[y.grant] <= record'[a].cred.login
  BY <1>1, <1>5, <1>6, <1>8 DEF Knows, Same
<1>b. CASE Alike(y, x)
  BY <1>1, <1>4, <1>5, <1>6, <1>8, <1>b DEF Knows, Alike, Bears, Flying
<1>c. CASE Waits(c)
  BY <1>a, <1>c DEF Waits, Knows, Bears, Flying
<1>d. CASE Asks(c)
  <2>1. PICK b \in Accounts : record[b].cred.grant = x.grant /\ y.reply.cred = record[b].cred
    BY <1>d DEF Asks
  <2>2. Carries(L, issued, x.grant, y.reply.cred) /\ x.grant <= issued
    BY <1>1, <1>2, <1>9, <2>1 DEF Carries, LoginOf
  <2>3. Carries(M, issued', x.grant, y.reply.cred)
    BY <1>1, <1>2, <1>4, <2>1, <2>2
  <2> QED
    BY <1>a, <1>d, <2>1, <2>3 DEF Asks, Knows, Bears, Flying
<1>e. CASE Hears(c)
  BY <1>a, <1>e DEF Hears, Knows, Bears, Flying
<1>f. CASE Closes(c)
  <2>1. y.outcome.kind = "token" => Carries(M, issued', x.grant, y.outcome.cred)
    <3>1. CASE y.outcome.cred = record[a].cred
      <4>1. x.stage \in Flying /\ x.grant <= issued
        BY <1>6, <1>f DEF Closes, Knows, Holding, Flying
      <4>2. Carries(L, issued, x.grant, record[a].cred)
        BY <1>1, <1>2, <1>6, <4>1 DEF Knows, Carries
      <4> QED
        BY <1>1, <1>2, <1>4, <3>1, <4>1, <4>2
    <3>2. CASE Bears(x) /\ y.outcome.cred = x.reply.cred
      BY <1>1, <1>4, <1>6, <3>2 DEF Knows, Bears, Flying
    <3> QED
      BY <1>f, <3>1, <3>2 DEF Closes
  <2> QED
    BY <1>a, <1>f, <2>1 DEF Closes, Knows, Bears, Flying, Holding
<1>g. CASE Woken(c)
  <2>1. y.outcome.kind = "token" => Carries(M, issued', x.grant, y.outcome.cred)
    <3> SUFFICES ASSUME y.outcome.kind = "token"
                 PROVE  Carries(M, issued', x.grant, y.outcome.cred)
      OBVIOUS
    <3> DEFINE f == x.on
    <3>1. /\ f \in Callers /\ call[f].grant = x.grant /\ call[f].stage = "closing"
          /\ y.outcome = call[f].outcome
      BY <1>g DEF Woken, HeldInv, JoinsFlight
    <3>2. Carries(L, issued, x.grant, y.outcome.cred) /\ x.grant <= issued
      BY <3>1 DEF Logins, Knows, Flying
    <3>3. y.outcome.cred \in Credentials
      BY <1>0, <3>1, CallType
    <3> QED
      BY <1>1, <1>4, <3>2, <3>3
  <2> QED
    BY <1>a, <1>g, <2>1 DEF Woken, Knows, Bears, Flying
<1>h. CASE Begins(c) \/ Joins(c)
  <2>1. /\ y.grant = record[y.account].cred.grant /\ y.stage \in {"locking", "joined"}
        /\ y.grant \in Tokens
    BY <1>1, <1>h DEF Begins, Joins, Calls
  <2>2. y.grant <= issued /\ L[y.grant] = record[y.account].cred.login
    BY <1>1, <1>2, <2>1 DEF LoginOf
  <2>3. y.grant <= issued' /\ M[y.grant] <= record'[y.account].cred.login
    BY <1>1, <1>2, <1>5, <2>1, <2>2
  <2> QED
    BY <2>1, <2>3 DEF Knows, Bears, Flying
<1>i. CASE Rests(c)
  BY <1>i DEF Rests, Knows, Bears, Flying
<1> QED
  BY <1>7, <1>b, <1>c, <1>d, <1>e, <1>f, <1>g, <1>h, <1>i DEF CallMoves

\* A save for a generation that has passed is no save: of a record that changes,
\* no flight holds the generation.
LEMMA StartStep ==
    ASSUME HeldInv, RefreshInv', [Next]_vars, NEW L \in [Tokens -> Tokens], Logins(L),
           NEW c \in Callers
    PROVE  StartKnown(call'[c], record'[call'[c].account])
<1> DEFINE x == call[c]
           y == call'[c]
           a == call[c].account
<1>0. /\ CallsOK /\ FilesOK /\ FilesOK' /\ a \in Accounts /\ x.start \in Nat
      /\ record[a].generation \in Nat /\ record'[a].generation \in Nat
  <2>1. CallsOK /\ FilesOK /\ FilesOK' /\ a \in Accounts /\ x.start \in Nat
    BY TypeParts, CallType DEF HeldInv, RefreshInv
  <2> QED
    BY <2>1 DEF FilesOK, Records
<1>1. StartKnown(x, record[a]) /\ RecordMoves(L, a) /\ CallMoves(c)
  BY <1>0, RecordStep, EveryStepMoves DEF Logins, Moves
<1>2. record'[a] = record[a] \/ record'[a].generation > record[a].generation
  BY <1>1 DEF RecordMoves
<1>3. ASSUME x.stage \in Asking, y.start = x.start, y.grant = x.grant, y.account = a
      PROVE  StartKnown(y, record'[y.account])
  BY <1>0, <1>1, <1>2, <1>3 DEF StartKnown
<1>4. CASE Alike(y, x)
  BY <1>3, <1>4 DEF Alike, StartKnown
<1>5. CASE Hears(c)
  BY <1>3, <1>5 DEF Hears, Same, Asking
<1>6. CASE Asks(c)
  BY <1>0, <1>6 DEF Asks, Same, StartKnown
<1>7. CASE ~(Alike(y, x) \/ Hears(c) \/ Asks(c))
  BY <1>1, <1>7 DEF CallMoves, Waits, Closes, Woken, Begins, Joins, Rests, StartKnown, Asking
<1> QED
  BY <1>4, <1>5, <1>6, <1>7

\* LoginInv is inductive.
LEMMA LoginInvStep == LoginInv /\ [Next]_vars => LoginInv'
<1> SUFFICES ASSUME LoginInv, [Next]_vars PROVE LoginInv'
  OBVIOUS
<1>1. HeldInv /\ RefreshInv' /\ HeldInv'
  BY EveryStepMoves, HeldStep, RefreshInvStep DEF LoginInv, HeldInv
<1>2. PICK L \in [Tokens -> Tokens] : Logins(L)
  BY DEF LoginInv
<1>3. PICK M \in [Tokens -> Tokens] :
         /\ Extends(M, L)
         /\ \A a \in Accounts : SignIn(a) => LoginOf(M, issued', record'[a].cred)
         /\ \A c \in Callers :
              (Hears(c) /\ call'[c].reply.kind = "token")
                 => Carries(M, issued', call[c].grant, call'[c].reply.cred)
  BY <1>1, <1>2, LoginsExtend
<1>4. ASSUME NEW a \in Accounts PROVE LoginOf(M, issued', record'[a].cred)
  <2>1. RecordMoves(L, a) /\ LoginOf(L, issued, record[a].cred)
    BY <1>1, <1>2, RecordStep DEF Logins
  <2>2. record[a].cred \in Credentials /\ record'[a].cred \in Credentials /\ issued' \in Tokens
    BY <1>1, TypeParts DEF HeldInv, RefreshInv, FilesOK, Records
  <2>3. CASE SignIn(a)
    BY <1>3, <2>3
  <2>4. CASE record'[a].cred = record[a].cred
    BY <1>1, <1>3, <2>1, <2>2, <2>4, StillCarries
  <2>5. CASE LoginOf(L, issued, record'[a].cred)
    BY <1>1, <1>3, <2>2, <2>5, StillCarries
  <2> QED
    BY <2>1, <2>3, <2>4, <2>5 DEF RecordMoves, Carries
<1>5. ASSUME NEW c \in Callers
      PROVE  /\ Knows(M, issued', call'[c], record'[call'[c].account])
             /\ StartKnown(call'[c], record'[call'[c].account])
  BY <1>1, <1>2, <1>3, KnownStep, StartStep
<1>6. Logins(M)'
  BY <1>4, <1>5 DEF Logins
<1> QED
  BY <1>1, <1>6 DEF LoginInv

\* At the start every account has the first login.
LEMMA LoginInvInit == Init => LoginInv
<1> SUFFICES ASSUME Init PROVE LoginInv
  OBVIOUS
<1>1. HeldInv
  BY HeldInvInit
<1> DEFINE L == [g \in Tokens |-> 0]
<1>2. L \in [Tokens -> Tokens] /\ L[0] = 0
  BY FirstType
<1>3. Logins(L)
  <2>1. \A a \in Accounts : LoginOf(L, issued, record[a].cred)
    BY <1>2 DEF Init, LoginOf, FirstCredential
  <2>2. \A c \in Callers : call[c].stage = "idle"
    BY RestingType DEF Init
  <2> QED
    BY <2>1, <2>2 DEF Logins, Knows, StartKnown, Bears, Asking, Flying
<1> HIDE DEF L
<1> QED
  BY <1>1, <1>2, <1>3 DEF LoginInv

\* Only a login brings back a removed account, and no refresh, whoever shares or
\* takes it over, replaces what a later login has stored.
THEOREM NewerLoginsStay == Spec => NewerLoginStays
<1>1. LoginInv /\ [Next]_vars =>
        [\A a \in Accounts :
           \/ SignIn(a)
           \/ /\ record[a].deleted => record'[a].deleted
              /\ record'[a].cred.login >= record[a].cred.login]_vars
  <2> SUFFICES ASSUME LoginInv, [Next]_vars, NEW a \in Accounts, ~SignIn(a)
               PROVE  /\ record[a].deleted => record'[a].deleted
                      /\ record'[a].cred.login >= record[a].cred.login
    OBVIOUS
  <2>1. PICK L \in [Tokens -> Tokens] : Logins(L)
    BY DEF LoginInv
  <2> QED
    BY <2>1, RecordStep, LoginRises DEF LoginInv
<1>2. Spec => []LoginInv
  BY LoginInvInit, LoginInvStep, PTL DEF Spec
<1> QED
  BY <1>1, <1>2, PTL DEF Spec, NewerLoginStays

=============================================================================
