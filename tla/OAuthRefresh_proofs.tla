--------------------------- MODULE OAuthRefresh_proofs ---------------------------
(***************************************************************************)
(* That no grant is sent twice, that a late answer leaves a newer login    *)
(* alone, and that the state stays well formed, for any number of          *)
(* processes and flights and for all bounds.                               *)
(*                                                                         *)
(* Base holds always.  Safe holds until a flight is robbed of its lock     *)
(* file: it says what a flight that holds the lock may rely on at each     *)
(* stage, and how sent grants, intents and the stored account agree.       *)
(***************************************************************************)
EXTENDS OAuthRefresh, TLAPS

-----------------------------------------------------------------------------
(* The invariants.                                                         *)

Typed ==
    /\ account \in [there : BOOLEAN, cred : Credentials, flagged : BOOLEAN]
    /\ expired \subseteq Tokens /\ issued \in Tokens /\ now \in 0..MaxTime
    /\ lock \in [there : BOOLEAN, by : Flights \cup {NoFlight}, at : 0..MaxTime]
    /\ intent \in [there : BOOLEAN, token : Tokens, by : Flights \cup {NoFlight},
                   staleOwner : BOOLEAN]
    /\ current \in [Processes -> Flights \cup {NoFlight}]
    /\ flight \in [Flights -> FlightRecords]

Listed ==
    \A f \in Flights :
         /\ flight[f].stage \in Running => flight[f].home \in Processes
         /\ \A p \in Processes : current[p] = f <=>
              flight[f].stage \in Running /\ ~flight[f].aborted /\ flight[f].home = p

\* The stages before the grant is sent.
Unsending == {"idle", "locking", "created", "unlinking", "holding", "examining",
              "intending", "intended", "condemned"}

Unsent ==
    \A f \in Flights :
        /\ flight[f].stage \in Unsending => ~flight[f].dispatched
        /\ flight[f].stage = "idle" => ~flight[f].robbed

\* A flight that was replaced before it had sent its grant never will.
ReplacedIsStill ==
    \A f \in Flights : \A r \in Flights :
        (flight[f].replaced = r /\ ~flight[f].replacedSent) =>
            /\ ~flight[r].dispatched /\ flight[r].stage # "idle"
            /\ flight[r].aborted \/ flight[r].stage = "done"

\* Credentials are numbered in the order in which they are stored.
Numbered ==
    /\ account.cred.token <= issued
    /\ account.cred.token = 0 => account.cred.login = 0
    /\ intent.token <= account.cred.token
    /\ \A f \in Flights :
         /\ flight[f].cred.token <= account.cred.token
         /\ flight[f].cred.token = account.cred.token =>
              flight[f].cred.login = account.cred.login
         /\ flight[f].stage = "answered" =>
              /\ flight[f].cred.token < flight[f].fresh.token
              /\ flight[f].fresh.token <= issued
              /\ flight[f].fresh.login = flight[f].cred.login

Base == Typed /\ Listed /\ Unsent /\ ReplacedIsStill /\ Numbered

Kept == \A f \in Flights : ~flight[f].robbed

\* The stages under the lock.
Holding == {"created", "holding", "examining", "intending", "intended", "dispatched",
            "answered", "condemned", "refused", "clearing"}

Sent(token) == \E g \in Flights : flight[g].dispatched /\ flight[g].cred.token = token
Usable(token) == account.there /\ account.cred.token = token /\ ~account.flagged
Outstanding(token) == intent.there /\ intent.token = token

HoldsLock ==
    \A f \in Flights : flight[f].stage \in Holding => lock.there /\ lock.by = f

\* A sent grant is no longer usable, or its intent is there and names its flight.
Accounted ==
    \A f \in Flights : flight[f].dispatched =>
        /\ Outstanding(flight[f].cred.token) => intent.by = f
        /\ Usable(flight[f].cred.token) => Outstanding(flight[f].cred.token)

\* What a flight relies on at a stage.
Ready(f) ==
    LET token == flight[f].cred.token
    IN  /\ flight[f].stage = "examining" =>
             /\ Sent(token) => flight[f].flagged \/ Outstanding(token)
             /\ intent.there => intent.token <= token
        /\ flight[f].stage = "intending" => ~Sent(token) /\ ~intent.there
        /\ flight[f].stage = "intended" =>
             ~Sent(token) /\ Outstanding(token) /\ intent.by = f
        /\ flight[f].stage = "clearing" => ~Usable(token)

SentOnce ==
    \A f, g \in Flights :
        f # g /\ flight[f].dispatched /\ flight[g].dispatched
            => flight[f].cred.token # flight[g].cred.token

Promises == Accounted /\ SentOnce /\ \A f \in Flights : Ready(f)

Safe == Kept => HoldsLock /\ Promises

-----------------------------------------------------------------------------
(* What a step does to the flights.                                        *)

\* s says of flight g what the state says of it, but that it may be robbed.
Like(s, g) ==
    /\ s.stage = flight[g].stage /\ s.home = flight[g].home /\ s.cred = flight[g].cred
    /\ s.flagged = flight[g].flagged /\ s.aborted = flight[g].aborted
    /\ s.dispatched = flight[g].dispatched /\ s.replaced = flight[g].replaced
    /\ s.replacedSent = flight[g].replacedSent /\ s.fresh = flight[g].fresh
    /\ flight[g].robbed => s.robbed

GoesOn(f) ==
    /\ flight[f].stage \in Running /\ flight'[f].stage \in Running
    /\ flight'[f].home = flight[f].home /\ flight'[f].aborted = flight[f].aborted
    /\ flight[f].robbed => flight'[f].robbed
    /\ \/ flight'[f].replaced = NoFlight
       \/ /\ flight'[f].replaced = flight[f].replaced
          /\ flight'[f].replacedSent = flight[f].replacedSent
    /\ flight[f].dispatched => flight'[f].dispatched
    /\ flight'[f].dispatched => flight[f].dispatched \/ ~flight[f].aborted
    /\ flight'[f].stage \in Unsending =>
         flight[f].stage \in Unsending /\ flight'[f].dispatched = flight[f].dispatched
    /\ current' = current

Finishes(f) ==
    /\ flight[f].stage \in Running
    /\ flight'[f].stage = "done" /\ flight'[f].home = NoProcess /\ ~flight'[f].aborted
    /\ flight'[f].dispatched = flight[f].dispatched
    /\ flight'[f].cred = IF flight[f].dispatched THEN flight[f].cred ELSE FirstCredential
    /\ flight[f].robbed => flight'[f].robbed
    /\ flight'[f].replaced = NoFlight
    /\ current' = Unlisted(f)

Shape(f) ==
    /\ flight' \in [Flights -> FlightRecords]
    /\ \A g \in Flights \ {f} : Like(flight'[g], g)
    /\ GoesOn(f) \/ Finishes(f)

LEMMA Stages ==
    /\ Running = {"created", "unlinking", "examining", "intending", "intended", "removing",
         "locking", "holding", "dispatched", "answered", "condemned", "refused",
         "clearing", "closing", "settling"}
    /\ "idle" \notin Running /\ "done" \notin Running
BY DEF Running, Synchronous

LEMMA FirstTyped == FirstCredential \in Credentials /\ 0 \in Tokens
BY OAuthAssumption DEF FirstCredential, Credentials, Tokens

LEMMA WaitingTyped == Waiting \in FlightRecords
BY OAuthAssumption, FirstTyped DEF Waiting, FlightRecords, Tokens

LEMMA OverFields ==
    ASSUME Typed, NEW f \in Flights
    PROVE  /\ Over(f) \in FlightRecords
           /\ Over(f).stage = "done" /\ Over(f).home = NoProcess /\ Over(f).aborted = FALSE
           /\ Over(f).dispatched = flight[f].dispatched
           /\ Over(f).robbed = flight[f].robbed
           /\ Over(f).replaced = NoFlight
           /\ Over(f).cred = IF flight[f].dispatched THEN flight[f].cred ELSE FirstCredential
<1>1. flight[f] \in FlightRecords
  BY DEF Typed
<1>2. /\ flight[f].cred \in Credentials /\ flight[f].dispatched \in BOOLEAN
      /\ flight[f].robbed \in BOOLEAN
  BY <1>1 DEF FlightRecords
<1> DEFINE d == flight[f].dispatched
           b == flight[f].robbed
           c == IF flight[f].dispatched THEN flight[f].cred ELSE FirstCredential
           record == [stage |-> "done", home |-> NoProcess, caller |-> 0, cred |-> c,
             flagged |-> FALSE, began |-> 0, aborted |-> FALSE, dispatched |-> d, robbed |-> b,
             replaced |-> NoFlight, replacedSent |-> FALSE,
             relogin |-> FALSE, fresh |-> FirstCredential]
<1>3. Over(f) = [Waiting EXCEPT !.stage = "done", !.dispatched = d, !.robbed = b, !.cred = c]
  BY Zenon DEF Over
<1>4. c \in Credentials /\ d \in BOOLEAN /\ b \in BOOLEAN
  BY <1>2, FirstTyped
<1>5. c = IF flight[f].dispatched THEN flight[f].cred ELSE FirstCredential
  OBVIOUS
<1> HIDE DEF c, d, b
<1>6. Over(f) = record
  BY <1>3 DEF Waiting
<1>7. record \in FlightRecords
  BY <1>4, OAuthAssumption, FirstTyped DEF FlightRecords, Tokens
<1>8. /\ record.stage = "done" /\ record.home = NoProcess /\ record.aborted = FALSE
      /\ record.dispatched = d /\ record.robbed = b /\ record.replaced = NoFlight
      /\ record.cred = c
  OBVIOUS
<1> HIDE DEF record
<1> QED BY <1>5, <1>6, <1>7, <1>8 DEF c, d, b

LEMMA RobbedShape ==
    ASSUME Typed, NEW f \in Flights
    PROVE  /\ Robbed(f) \in [Flights -> FlightRecords]
           /\ \A g \in Flights : Like(Robbed(f)[g], g)
           /\ Robbed(f)[f] = flight[f]
<1>1. ASSUME NEW g \in Flights
      PROVE  Robbed(f)[g] \in FlightRecords /\ Like(Robbed(f)[g], g)
  <2>1. flight[g] \in FlightRecords
    BY DEF Typed
  <2>2. Robbed(f)[g] = flight[g] \/ Robbed(f)[g] = [flight[g] EXCEPT !.robbed = TRUE]
    BY Zenon DEF Robbed
  <2>3. /\ [flight[g] EXCEPT !.robbed = TRUE] \in FlightRecords
        /\ Like([flight[g] EXCEPT !.robbed = TRUE], g)
    BY <2>1 DEF FlightRecords, Like
  <2>4. Like(flight[g], g)
    BY DEF Like
  <2> QED BY <2>1, <2>2, <2>3, <2>4
<1>2. Robbed(f) = [g \in Flights |-> Robbed(f)[g]]
  BY DEF Robbed
<1>3. Robbed(f)[f] = flight[f]
  BY DEF Robbed
<1> QED BY <1>1, <1>2, <1>3

LEMMA EndsShape ==
    ASSUME Typed, NEW f \in Flights, NEW others \in [Flights -> FlightRecords],
           \A g \in Flights : Like(others[g], g), others[f] = flight[f],
           flight[f].stage \in Running, Ends(f, others)
    PROVE  Shape(f)
<1> USE DEF Shape
<1>1. CASE flight[f].relogin /\ ~flight[f].aborted
  <2>1. flight' = [others EXCEPT ![f].stage = "settling"] /\ current' = current
    BY <1>1 DEF Ends
  <2>2. "settling" \in Running /\ "settling" \notin Unsending
    BY Stages DEF Unsending
  <2>3. others[f] \in FlightRecords
    OBVIOUS
  <2>4. [others[f] EXCEPT !.stage = "settling"] \in FlightRecords
    BY <2>2, <2>3 DEF FlightRecords
  <2>5. flight' \in [Flights -> FlightRecords] /\ \A g \in Flights \ {f} : flight'[g] = others[g]
    BY <2>1, <2>4
  <2>6. flight'[f] = [flight[f] EXCEPT !.stage = "settling"]
    BY <2>1
  <2>7. GoesOn(f)
    BY <2>1, <2>2, <2>3, <2>6 DEF GoesOn, FlightRecords
  <2> QED BY <2>5, <2>7
<1>2. CASE ~(flight[f].relogin /\ ~flight[f].aborted)
  <2>1. flight' = [others EXCEPT ![f] = Over(f)] /\ current' = Unlisted(f)
    BY <1>2 DEF Ends
  <2>2. flight' \in [Flights -> FlightRecords] /\ flight'[f] = Over(f)
        /\ \A g \in Flights \ {f} : flight'[g] = others[g]
    BY <2>1, OverFields
  <2>3. Finishes(f)
    BY <2>1, <2>2, OverFields DEF Finishes
  <2> QED BY <2>2, <2>3
<1> QED BY <1>1, <1>2

\* The steps in which only one flight changes, and it goes on.
LEMMA GoesOnShape ==
    ASSUME Typed, NEW f \in Flights, NEW r \in FlightRecords,
           flight' = [flight EXCEPT ![f] = r], GoesOn(f)
    PROVE  Shape(f)
<1>1. flight' \in [Flights -> FlightRecords] /\ \A g \in Flights \ {f} : flight'[g] = flight[g]
  BY DEF Typed
<1> QED BY <1>1 DEF Shape, Like

LEMMA ClosingShape ==
    ASSUME Typed, NEW f \in Flights, NEW relogin \in BOOLEAN,
           flight[f].stage \in Running, Closing(f, relogin), current' = current
    PROVE  /\ Shape(f)
           /\ flight'[f].stage = "closing" /\ flight'[f].dispatched = flight[f].dispatched
           /\ flight'[f].cred = flight[f].cred
<1> DEFINE r == Closed(f, relogin)
<1>1. flight[f] \in FlightRecords
  BY DEF Typed
<1>2. r \in FlightRecords
  BY <1>1, FirstTyped, Stages DEF FlightRecords, Closed
<1>3. /\ r.stage = "closing" /\ r.dispatched = flight[f].dispatched /\ r.cred = flight[f].cred
      /\ r.home = flight[f].home /\ r.aborted = flight[f].aborted
      /\ r.robbed = flight[f].robbed /\ r.replaced = NoFlight
  BY <1>1 DEF FlightRecords, Closed
<1>4. flight' = [flight EXCEPT ![f] = r]
  BY DEF Closing
<1> HIDE DEF r
<1>5. flight'[f] = r
  BY <1>4 DEF Typed
<1>6. GoesOn(f)
  BY <1>3, <1>5, Stages DEF GoesOn, Unsending
<1> QED BY <1>2, <1>3, <1>4, <1>5, <1>6, GoesOnShape

LEMMA GotoShape ==
    ASSUME Typed, NEW f \in Flights, NEW stage \in Running, flight[f].stage \in Running,
           Goto(f, stage), current' = current,
           stage \in Unsending => flight[f].stage \in Unsending
    PROVE  /\ Shape(f)
           /\ flight'[f].stage = stage /\ flight'[f].dispatched = flight[f].dispatched
           /\ flight'[f].cred = flight[f].cred /\ flight'[f].fresh = flight[f].fresh
<1>1. flight[f] \in FlightRecords
  BY DEF Typed
<1>2. PICK r : r = [flight[f] EXCEPT !.stage = stage]
  OBVIOUS
<1>3. r \in FlightRecords
  BY <1>1, <1>2 DEF FlightRecords
<1>4. /\ r.stage = stage /\ r.dispatched = flight[f].dispatched /\ r.cred = flight[f].cred
      /\ r.home = flight[f].home /\ r.aborted = flight[f].aborted
      /\ r.robbed = flight[f].robbed /\ r.replaced = flight[f].replaced
      /\ r.replacedSent = flight[f].replacedSent /\ r.fresh = flight[f].fresh
  BY <1>1, <1>2 DEF FlightRecords
<1>5. flight' = [flight EXCEPT ![f] = r]
  BY <1>2 DEF Goto
<1>6. flight'[f] = r
  BY <1>5 DEF Typed
<1>7. GoesOn(f)
  BY <1>4, <1>6 DEF GoesOn
<1> QED BY <1>3, <1>4, <1>5, <1>6, <1>7, GoesOnShape

\* The steps at which the flight is given more than a new stage.
LEMMA ReadShape ==
    ASSUME Typed, NEW f \in Flights, ReadAccount(f)
    PROVE  /\ Shape(f) /\ flight'[f].dispatched = flight[f].dispatched
           /\ \/ /\ flight'[f].stage = "examining" /\ account.there
                 /\ flight'[f].cred = account.cred /\ flight'[f].flagged = account.flagged
              \/ flight'[f].stage = "closing" /\ flight'[f].cred = flight[f].cred
<1>1. flight[f] \in FlightRecords /\ account.cred \in Credentials /\ account.flagged \in BOOLEAN
  BY DEF Typed
<1>2. flight[f].stage = "holding" /\ current' = current
  BY DEF ReadAccount, At
<1>3. CASE account.there
  <2>1. PICK r : r = [flight[f] EXCEPT !.stage = "examining", !.cred = account.cred,
                                        !.flagged = account.flagged]
    OBVIOUS
  <2>2. r \in FlightRecords
    BY <1>1, <2>1, Stages DEF FlightRecords
  <2>3. /\ r.stage = "examining" /\ r.dispatched = flight[f].dispatched /\ r.cred = account.cred
        /\ r.home = flight[f].home /\ r.aborted = flight[f].aborted
        /\ r.robbed = flight[f].robbed /\ r.replaced = flight[f].replaced
        /\ r.replacedSent = flight[f].replacedSent /\ r.flagged = account.flagged
    BY <1>1, <2>1 DEF FlightRecords
  <2>4. flight' = [flight EXCEPT ![f] = r]
    BY <1>3, <2>1 DEF ReadAccount
  <2>5. flight'[f] = r
    BY <2>4 DEF Typed
  <2>6. GoesOn(f)
    BY <1>2, <2>3, <2>5, Stages DEF GoesOn, Unsending
  <2> QED BY <1>3, <2>2, <2>3, <2>4, <2>5, <2>6, GoesOnShape
<1>4. CASE ~account.there
  <2>1. Closing(f, TRUE)
    BY <1>4 DEF ReadAccount
  <2> QED BY <1>2, <2>1, ClosingShape, Stages
<1> QED BY <1>3, <1>4

LEMMA ExamineShape ==
    ASSUME Typed, NEW f \in Flights, Examine(f)
    PROVE  /\ Shape(f) /\ flight'[f].dispatched = flight[f].dispatched
           /\ flight'[f].cred = flight[f].cred
           /\ \/ /\ flight'[f].stage \in {"closing", "condemned"}
                 /\ intent' = intent
              \/ /\ flight'[f].stage = "closing"
                 /\ intent' = [intent EXCEPT !.staleOwner = TRUE]
              \/ /\ flight'[f].stage \in {"closing", "intending"}
                 /\ intent' = NoIntent
                 /\ flight'[f].stage = "intending" => ~flight[f].flagged
                 /\ \/ ~Outstanding(flight[f].cred.token)
                    \/ intent.by = flight[f].replaced /\ ~flight[f].replacedSent
<1>1. flight[f] \in FlightRecords
  BY DEF Typed
<1>2. flight[f].stage = "examining" /\ current' = current
  BY DEF Examine
<1>3. \A relogin \in BOOLEAN : Closing(f, relogin) =>
        /\ Shape(f) /\ flight'[f].dispatched = flight[f].dispatched
        /\ flight'[f].cred = flight[f].cred /\ flight'[f].stage = "closing"
  BY <1>2, ClosingShape, Stages
<1>4. ASSUME NEW stage \in {"condemned", "intending"}, NEW flagged \in BOOLEAN,
             flight' = [flight EXCEPT ![f] = [flight[f] EXCEPT !.stage = stage,
                          !.replaced = NoFlight, !.replacedSent = FALSE, !.flagged = flagged]]
      PROVE  /\ Shape(f) /\ flight'[f].dispatched = flight[f].dispatched
             /\ flight'[f].cred = flight[f].cred /\ flight'[f].stage = stage
  <2>1. PICK r : r = [flight[f] EXCEPT !.stage = stage,
                        !.replaced = NoFlight, !.replacedSent = FALSE, !.flagged = flagged]
    OBVIOUS
  <2>2. r \in FlightRecords
    BY <1>1, <2>1, Stages DEF FlightRecords
  <2>3. /\ r.stage = stage /\ r.dispatched = flight[f].dispatched /\ r.cred = flight[f].cred
        /\ r.home = flight[f].home /\ r.aborted = flight[f].aborted
        /\ r.robbed = flight[f].robbed /\ r.replaced = NoFlight
    BY <1>1, <2>1 DEF FlightRecords
  <2>4. flight' = [flight EXCEPT ![f] = r]
    BY <1>4, <2>1
  <2>5. flight'[f] = r
    BY <2>4 DEF Typed
  <2>6. GoesOn(f)
    BY <1>2, <2>3, <2>5, Stages DEF GoesOn, Unsending
  <2> QED BY <2>2, <2>3, <2>4, <2>5, <2>6, GoesOnShape
<1>5. flight[f].flagged \in BOOLEAN
  BY <1>1 DEF FlightRecords
<1> DEFINE Condemned == [flight[f] EXCEPT !.stage = "condemned",
               !.replaced = NoFlight, !.replacedSent = FALSE, !.flagged = FALSE]
           Intending == [flight[f] EXCEPT !.stage = "intending",
               !.replaced = NoFlight, !.replacedSent = FALSE]
<1>6. Intending = [flight[f] EXCEPT !.stage = "intending",
               !.replaced = NoFlight, !.replacedSent = FALSE, !.flagged = flight[f].flagged]
  BY <1>1 DEF FlightRecords
<1>7. \/ Closing(f, FALSE) /\ intent' = intent
      \/ Closing(f, FALSE) /\ intent' = [intent EXCEPT !.staleOwner = TRUE]
      \/ flight' = [flight EXCEPT ![f] = Condemned] /\ intent' = intent
      \/ /\ intent' = NoIntent
         /\ \/ ~Outstanding(flight[f].cred.token)
            \/ intent.by = flight[f].replaced /\ ~flight[f].replacedSent
         /\ \/ Closing(f, TRUE)
            \/ Closing(f, FALSE)
            \/ flight' = [flight EXCEPT ![f] = Intending] /\ ~flight[f].flagged
  BY Zenon DEF Examine, Outstanding
<1>8. CASE flight' = [flight EXCEPT ![f] = Condemned] /\ intent' = intent
  BY <1>4, <1>8
<1>9. CASE /\ intent' = NoIntent
           /\ \/ ~Outstanding(flight[f].cred.token)
              \/ intent.by = flight[f].replaced /\ ~flight[f].replacedSent
           /\ flight' = [flight EXCEPT ![f] = Intending] /\ ~flight[f].flagged
  <2>1. /\ Shape(f) /\ flight'[f].dispatched = flight[f].dispatched
        /\ flight'[f].cred = flight[f].cred /\ flight'[f].stage = "intending"
    BY <1>4, <1>5, <1>6, <1>9
  <2> HIDE DEF Intending, Condemned
  <2> QED BY <1>9, <2>1
<1> HIDE DEF Intending, Condemned
<1> QED BY <1>3, <1>7, <1>8, <1>9

LEMMA DispatchShape ==
    ASSUME Typed, NEW f \in Flights, Dispatch(f)
    PROVE  /\ Shape(f) /\ flight'[f].cred = flight[f].cred
           /\ \/ flight'[f].stage = "closing" /\ flight'[f].dispatched = flight[f].dispatched
              \/ flight'[f].stage = "dispatched" /\ flight'[f].dispatched
<1>1. flight[f] \in FlightRecords
  BY DEF Typed
<1>2. flight[f].stage = "intended" /\ current' = current
  BY DEF Dispatch
<1>3. CASE flight[f].aborted
  <2>1. Closing(f, FALSE)
    BY <1>3 DEF Dispatch
  <2> QED BY <1>2, <2>1, ClosingShape, Stages
<1>4. CASE ~flight[f].aborted
  <2>1. PICK r : r = [flight[f] EXCEPT !.stage = "dispatched", !.dispatched = TRUE]
    OBVIOUS
  <2>2. r \in FlightRecords
    BY <1>1, <2>1, Stages DEF FlightRecords
  <2>3. /\ r.stage = "dispatched" /\ r.dispatched = TRUE /\ r.cred = flight[f].cred
        /\ r.home = flight[f].home /\ r.aborted = flight[f].aborted
        /\ r.robbed = flight[f].robbed /\ r.replaced = flight[f].replaced
        /\ r.replacedSent = flight[f].replacedSent
    BY <1>1, <2>1 DEF FlightRecords
  <2>4. flight' = [flight EXCEPT ![f] = r]
    BY <1>4, <2>1 DEF Dispatch
  <2>5. flight'[f] = r
    BY <2>4 DEF Typed
  <2>6. GoesOn(f)
    BY <1>2, <1>4, <2>3, <2>5, Stages DEF GoesOn, Unsending
  <2> QED BY <2>2, <2>3, <2>4, <2>5, <2>6, GoesOnShape
<1> QED BY <1>3, <1>4

LEMMA AnswerShape ==
    ASSUME Typed, NEW f \in Flights, Answer(f)
    PROVE  /\ Shape(f) /\ flight'[f].dispatched = flight[f].dispatched
           /\ flight'[f].cred = flight[f].cred
           /\ \/ flight'[f].stage \in {"refused", "closing"} /\ issued' = issued
              \/ /\ flight'[f].stage = "answered"
                 /\ issued < MaxTokens /\ issued' = issued + 1
                 /\ flight'[f].fresh = [flight[f].cred EXCEPT !.token = issued + 1]
<1>1. flight[f] \in FlightRecords /\ flight[f].cred \in Credentials /\ issued \in Tokens
  BY DEF Typed, FlightRecords
<1>2. flight[f].stage = "dispatched" /\ current' = current
  BY DEF Answer, At
<1>3. CASE Goto(f, "refused") /\ issued' = issued
  BY <1>2, <1>3, GotoShape, Stages DEF Unsending
<1>4. CASE Closing(f, FALSE) /\ issued' = issued
  BY <1>2, <1>4, ClosingShape, Stages
<1> DEFINE fresh == [flight[f].cred EXCEPT !.token = issued + 1]
<1>5. CASE /\ issued < MaxTokens /\ issued' = issued + 1
           /\ flight' = [flight EXCEPT ![f].stage = "answered", ![f].fresh = fresh]
  <2>1. PICK r : r = [flight[f] EXCEPT !.stage = "answered", !.fresh = fresh]
    OBVIOUS
  <2>2. fresh \in Credentials
    BY <1>1, <1>5, OAuthAssumption DEF Credentials, Tokens
  <2> HIDE DEF fresh
  <2>3. r \in FlightRecords
    BY <1>1, <2>1, <2>2, Stages DEF FlightRecords
  <2>4. /\ r.stage = "answered" /\ r.dispatched = flight[f].dispatched
        /\ r.cred = flight[f].cred /\ r.fresh = fresh
        /\ r.home = flight[f].home /\ r.aborted = flight[f].aborted
        /\ r.robbed = flight[f].robbed /\ r.replaced = flight[f].replaced
        /\ r.replacedSent = flight[f].replacedSent
    BY <1>1, <2>1 DEF FlightRecords
  <2>5. flight' = [flight EXCEPT ![f] = r]
    BY <1>5, <2>1
  <2>6. flight'[f] = r
    BY <2>5 DEF Typed
  <2>7. GoesOn(f)
    BY <1>2, <2>4, <2>6, Stages DEF GoesOn, Unsending
  <2>8. Shape(f)
    BY <2>3, <2>5, <2>7, GoesOnShape
  <2> QED BY <1>5, <2>4, <2>6, <2>8 DEF fresh
<1>6. \/ Goto(f, "refused") /\ issued' = issued
      \/ Closing(f, FALSE) /\ issued' = issued
      \/ /\ issued < MaxTokens /\ issued' = issued + 1
         /\ flight' = [flight EXCEPT ![f].stage = "answered", ![f].fresh = fresh]
  BY Zenon DEF Answer
<1> HIDE DEF fresh
<1> QED BY <1>3, <1>4, <1>5, <1>6 DEF fresh

\* Merge and Refuse go on to clear the intent, or give up.
LEMMA ClearingShape ==
    ASSUME Typed, NEW f \in Flights, NEW relogin \in BOOLEAN, NEW fresh \in Credentials,
           flight[f].stage \in {"answered", "refused"}, current' = current,
           flight' = [flight EXCEPT ![f].stage = "clearing", ![f].relogin = relogin,
                                    ![f].fresh = fresh]
    PROVE  /\ Shape(f) /\ flight'[f].dispatched = flight[f].dispatched
           /\ flight'[f].cred = flight[f].cred /\ flight'[f].stage = "clearing"
<1>1. flight[f] \in FlightRecords
  BY DEF Typed
<1>2. PICK r : r = [flight[f] EXCEPT !.stage = "clearing", !.relogin = relogin, !.fresh = fresh]
  OBVIOUS
<1>3. r \in FlightRecords
  BY <1>1, <1>2, Stages DEF FlightRecords
<1>4. /\ r.stage = "clearing" /\ r.dispatched = flight[f].dispatched /\ r.cred = flight[f].cred
      /\ r.home = flight[f].home /\ r.aborted = flight[f].aborted
      /\ r.robbed = flight[f].robbed /\ r.replaced = flight[f].replaced
      /\ r.replacedSent = flight[f].replacedSent
  BY <1>1, <1>2 DEF FlightRecords
<1>5. flight' = [flight EXCEPT ![f] = r]
  BY <1>2
<1>6. flight'[f] = r
  BY <1>5 DEF Typed
<1>7. GoesOn(f)
  BY <1>4, <1>6, Stages DEF GoesOn, Unsending
<1> QED BY <1>3, <1>4, <1>5, <1>6, <1>7, GoesOnShape

LEMMA RefuseShape ==
    ASSUME Typed, NEW f \in Flights, Refuse(f)
    PROVE  /\ Shape(f) /\ flight'[f].dispatched = flight[f].dispatched
           /\ flight'[f].cred = flight[f].cred
           /\ \/ flight'[f].stage = "closing" /\ account' = account
              \/ /\ flight'[f].stage = "clearing"
                 /\ account' = Flagged(flight[f].cred.token)
<1>1. flight[f] \in FlightRecords /\ flight[f].fresh \in Credentials
  BY DEF Typed, FlightRecords
<1>2. flight[f].stage = "refused" /\ current' = current
  BY DEF Refuse, At
<1>3. CASE Unsaved(f)
  BY <1>2, <1>3, ClosingShape, Stages DEF Unsaved
<1>4. CASE /\ account' = Flagged(flight[f].cred.token)
           /\ flight' = [flight EXCEPT ![f].stage = "clearing", ![f].relogin = TRUE]
  <2>1. [flight[f] EXCEPT !.stage = "clearing", !.relogin = TRUE]
        = [flight[f] EXCEPT !.stage = "clearing", !.relogin = TRUE, !.fresh = flight[f].fresh]
    BY <1>1 DEF FlightRecords
  <2>2. flight' = [flight EXCEPT ![f].stage = "clearing", ![f].relogin = TRUE,
                                 ![f].fresh = flight[f].fresh]
    BY <1>4, <2>1
  <2>3. /\ Shape(f) /\ flight'[f].dispatched = flight[f].dispatched
        /\ flight'[f].cred = flight[f].cred /\ flight'[f].stage = "clearing"
    BY <1>1, <1>2, <2>2, ClearingShape
  <2> QED BY <1>4, <2>3
<1> QED BY <1>3, <1>4 DEF Refuse

LEMMA MergeShape ==
    ASSUME Typed, NEW f \in Flights, Merge(f)
    PROVE  /\ Shape(f) /\ flight'[f].dispatched = flight[f].dispatched
           /\ flight'[f].cred = flight[f].cred
           /\ \/ flight'[f].stage = "closing" /\ account' = account
              \/ /\ flight'[f].stage = "clearing" /\ account.there
                 /\ account' = Merged(flight[f].cred.token, flight[f].fresh)
<1>1. flight[f].stage = "answered" /\ current' = current
  BY DEF Merge, At
<1>2. CASE Unsaved(f)
  BY <1>1, <1>2, ClosingShape, Stages DEF Unsaved
<1> DEFINE relogin == ~Matches(flight[f].cred.token) /\ ~Fresh(account.cred)
<1>3. CASE /\ account.there
           /\ account' = Merged(flight[f].cred.token, flight[f].fresh)
           /\ flight' = [flight EXCEPT ![f].stage = "clearing", ![f].relogin = relogin,
                                       ![f].fresh = FirstCredential]
  <2>1. relogin \in BOOLEAN
    OBVIOUS
  <2> HIDE DEF relogin
  <2> QED BY <1>1, <1>3, <2>1, FirstTyped, ClearingShape
<1>4. \/ Unsaved(f)
      \/ /\ account.there
         /\ account' = Merged(flight[f].cred.token, flight[f].fresh)
         /\ flight' = [flight EXCEPT ![f].stage = "clearing", ![f].relogin = relogin,
                                     ![f].fresh = FirstCredential]
  BY Zenon DEF Merge
<1> HIDE DEF relogin
<1> QED BY <1>2, <1>3, <1>4

LEMMA EndsFlight ==
    ASSUME Typed, NEW f \in Flights, flight[f].stage \in Running, Ends(f, flight)
    PROVE  /\ Shape(f) /\ flight'[f].stage \in {"settling", "done"}
           /\ flight'[f].dispatched = flight[f].dispatched
           /\ Finishes(f) \/ flight'[f].cred = flight[f].cred
<1>1. /\ flight \in [Flights -> FlightRecords]
      /\ \A g \in Flights : Like(flight[g], g)
  BY DEF Typed, Like
<1>2. Shape(f)
  BY <1>1, EndsShape
<1>3. CASE flight[f].relogin /\ ~flight[f].aborted
  <2>1. Goto(f, "settling") /\ current' = current
    BY <1>3 DEF Ends, Goto
  <2> QED BY <2>1, GotoShape, Stages DEF Unsending
<1>4. CASE ~(flight[f].relogin /\ ~flight[f].aborted)
  <2>1. flight' = [flight EXCEPT ![f] = Over(f)]
    BY <1>4 DEF Ends
  <2>2. flight'[f].stage = "done"
    BY <2>1, OverFields DEF Typed
  <2>3. Finishes(f)
    BY <1>2, <2>2, Stages DEF Shape, GoesOn
  <2> QED BY <1>2, <2>2, <2>3 DEF Finishes
<1> QED BY <1>3, <1>4

LEMMA ClearShape ==
    ASSUME Typed, NEW f \in Flights, Clear(f)
    PROVE  /\ Shape(f) /\ flight'[f].dispatched = flight[f].dispatched
           /\ flight'[f].cred = flight[f].cred /\ flight'[f].stage = "closing"
<1>1. flight[f].stage = "clearing" /\ current' = current
  BY DEF Clear, At
<1>2. flight[f].relogin \in BOOLEAN
  BY DEF Typed, FlightRecords
<1>3. Closing(f, flight[f].relogin)
  BY DEF Clear
<1> QED BY <1>1, <1>2, <1>3, ClosingShape, Stages

LEMMA RemoveShape ==
    ASSUME Typed, NEW f \in Flights, flight[f].stage \in Running, Ends(f, Robbed(f))
    PROVE  /\ Shape(f) /\ flight'[f].stage \in {"settling", "done"}
           /\ flight'[f].dispatched = flight[f].dispatched
           /\ Finishes(f) \/ flight'[f].cred = flight[f].cred
           /\ \A g \in Flights \ {f} : flight'[g] = Robbed(f)[g]
<1>1. /\ Robbed(f) \in [Flights -> FlightRecords] /\ Robbed(f)[f] = flight[f]
      /\ \A g \in Flights : Like(Robbed(f)[g], g)
  BY RobbedShape
<1>2. Shape(f)
  BY <1>1, EndsShape
<1>3. CASE flight[f].relogin /\ ~flight[f].aborted
  <2>1. flight' = [Robbed(f) EXCEPT ![f].stage = "settling"]
    BY <1>3 DEF Ends
  <2>2. flight'[f] = [flight[f] EXCEPT !.stage = "settling"] /\ flight[f] \in FlightRecords
        /\ \A g \in Flights \ {f} : flight'[g] = Robbed(f)[g]
    BY <1>1, <2>1 DEF Typed
  <2> QED BY <1>2, <2>2 DEF FlightRecords
<1>4. CASE ~(flight[f].relogin /\ ~flight[f].aborted)
  <2>1. flight' = [Robbed(f) EXCEPT ![f] = Over(f)]
    BY <1>4 DEF Ends
  <2>2. /\ flight'[f].stage = "done"
        /\ \A g \in Flights \ {f} : flight'[g] = Robbed(f)[g]
    BY <1>1, <2>1, OverFields
  <2>3. Finishes(f)
    BY <1>2, <2>2, Stages DEF Shape, GoesOn
  <2> QED BY <1>2, <2>2, <2>3 DEF Finishes
<1> QED BY <1>3, <1>4

LEMMA UnlinkShape ==
    ASSUME Typed, NEW f \in Flights, UnlinkLock(f)
    PROVE  /\ Shape(f) /\ flight'[f].stage = "locking"
           /\ flight'[f].dispatched = flight[f].dispatched
           /\ flight'[f].cred = flight[f].cred
           /\ \A g \in Flights \ {f} : flight'[g] = Robbed(f)[g]
<1>1. flight[f] \in FlightRecords
  BY DEF Typed
<1>2. flight[f].stage = "unlinking" /\ current' = current
  BY DEF UnlinkLock
<1>3. PICK r : r = [flight[f] EXCEPT !.stage = "locking"]
  OBVIOUS
<1>4. r \in FlightRecords
  BY <1>1, <1>3, Stages DEF FlightRecords
<1>5. /\ r.stage = "locking" /\ r.dispatched = flight[f].dispatched
      /\ r.cred = flight[f].cred
      /\ r.home = flight[f].home /\ r.aborted = flight[f].aborted
      /\ r.robbed = flight[f].robbed /\ r.replaced = flight[f].replaced
      /\ r.replacedSent = flight[f].replacedSent
  BY <1>1, <1>3 DEF FlightRecords
<1>6. Robbed(f) \in [Flights -> FlightRecords] /\ Robbed(f)[f] = flight[f]
  BY RobbedShape
<1>7. flight' = [Robbed(f) EXCEPT ![f] = r]
  BY <1>3, <1>6 DEF UnlinkLock
<1>8. /\ flight' \in [Flights -> FlightRecords] /\ flight'[f] = r
      /\ \A g \in Flights \ {f} : flight'[g] = Robbed(f)[g]
  BY <1>4, <1>6, <1>7
<1>9. GoesOn(f)
  BY <1>2, <1>5, <1>8, Stages DEF GoesOn, Unsending
<1> QED BY <1>5, <1>8, <1>9, RobbedShape DEF Shape

LEMMA VerifyShape ==
    ASSUME Typed, NEW f \in Flights, VerifyLock(f)
    PROVE  /\ Shape(f) /\ flight'[f].dispatched = flight[f].dispatched
           /\ flight'[f].stage \in {"holding", "settling", "done"}
           /\ Finishes(f) \/ flight'[f].cred = flight[f].cred
<1>1. flight[f].stage = "created"
  BY DEF VerifyLock
<1>2. CASE lock.by = f
  BY <1>1, <1>2, GotoShape, Stages DEF VerifyLock, Unsending
<1>3. CASE lock.by # f
  BY <1>1, <1>3, EndsFlight, Stages DEF VerifyLock
<1> QED BY <1>2, <1>3

LEMMA ReleaseShape ==
    ASSUME Typed, NEW f \in Flights, Release(f)
    PROVE  /\ Shape(f) /\ flight'[f].dispatched = flight[f].dispatched
           /\ flight'[f].stage \in {"removing", "settling", "done"}
           /\ Finishes(f) \/ flight'[f].cred = flight[f].cred
<1>1. flight[f].stage = "closing"
  BY DEF Release, At
<1>2. CASE lock.by = f
  BY <1>1, <1>2, GotoShape, Stages DEF Release, Unsending
<1>3. CASE lock.by # f
  BY <1>1, <1>3, EndsFlight, Stages DEF Release
<1> QED BY <1>2, <1>3

LEMMA SettleShape ==
    ASSUME Typed, NEW f \in Flights, Settle(f)
    PROVE  Shape(f) /\ Finishes(f)
<1>1. /\ flight[f].stage = "settling" /\ current' = Unlisted(f)
      /\ flight' = [flight EXCEPT ![f] = Over(f)]
  BY DEF Settle, At
<1>2. flight' \in [Flights -> FlightRecords] /\ flight'[f] = Over(f)
      /\ \A g \in Flights \ {f} : flight'[g] = flight[g]
  BY <1>1, OverFields DEF Typed
<1>3. Finishes(f)
  BY <1>1, <1>2, OverFields, Stages DEF Finishes
<1> QED BY <1>2, <1>3 DEF Shape, Like

\* Every step of a flight.
LEMMA StepShape ==
    ASSUME Typed, NEW f \in Flights, Step(f)
    PROVE  Shape(f)
<1>1. CASE CreateLock(f)
  BY <1>1, GotoShape, Stages DEF CreateLock, At, Unsending
<1>2. CASE VerifyLock(f)
  BY <1>2, VerifyShape
<1>3. CASE JudgeLock(f)
  BY <1>3, GotoShape, Stages DEF JudgeLock, At, Unsending
<1>4. CASE UnlinkLock(f)
  BY <1>4, UnlinkShape
<1>5. CASE GiveUp(f)
  BY <1>5, EndsFlight, Stages DEF GiveUp, At
<1>6. CASE ReadAccount(f)
  BY <1>6, ReadShape
<1>7. CASE Examine(f)
  BY <1>7, ExamineShape
<1>8. CASE Intend(f)
  BY <1>8, GotoShape, Stages DEF Intend, Unsending
<1>9. CASE Dispatch(f)
  BY <1>9, DispatchShape
<1>10. CASE Answer(f)
  BY <1>10, AnswerShape
<1>11. CASE Condemn(f)
  <2>1. flight[f].stage = "condemned" /\ current' = current
    BY <1>11 DEF Condemn, At
  <2>2. Closing(f, TRUE) \/ Closing(f, FALSE)
    BY <1>11 DEF Condemn, Unsaved
  <2> QED BY <2>1, <2>2, ClosingShape, Stages
<1>12. CASE Refuse(f)
  BY <1>12, RefuseShape
<1>13. CASE Merge(f)
  BY <1>13, MergeShape
<1>14. CASE Clear(f)
  BY <1>14, ClearShape
<1>15. CASE Release(f)
  BY <1>15, ReleaseShape
<1>16. CASE RemoveLock(f)
  BY <1>16, EndsShape, RobbedShape, Stages DEF RemoveLock
<1>17. CASE Settle(f)
  BY <1>17, SettleShape
<1> QED BY <1>1, <1>2, <1>3, <1>4, <1>5, <1>6, <1>7, <1>8, <1>9, <1>10, <1>11, <1>12,
           <1>13, <1>14, <1>15, <1>16, <1>17 DEF Step

LEMMA AskShape ==
    ASSUME Typed, NEW f \in Flights, NEW p \in Processes, Ask(f, p)
    PROVE  /\ flight' \in [Flights -> FlightRecords]
           /\ current' = [current EXCEPT ![p] = f]
           /\ flight[f].stage = "idle"
           /\ flight'[f].stage = "locking" /\ flight'[f].home = p /\ ~flight'[f].aborted
           /\ ~flight'[f].dispatched /\ ~flight'[f].robbed
           /\ flight'[f].cred = FirstCredential
           /\ flight'[f].replaced = current[p]
           /\ flight'[f].replacedSent <=> current[p] # NoFlight /\ flight[current[p]].dispatched
           /\ \A g \in Flights \ {f, current[p]} : flight'[g] = flight[g]
           /\ \A g \in Flights \ {f} : g = current[p] =>
                flight'[g] = [flight[g] EXCEPT !.aborted = TRUE]
<1> DEFINE old == current[p]
           r == [Waiting EXCEPT !.stage = "locking", !.home = p, !.began = now,
                                !.caller = account.cred.token, !.replaced = old,
                                !.replacedSent = old # NoFlight /\ flight[old].dispatched]
           b == old # NoFlight /\ flight[old].dispatched
           s == [stage |-> "locking", home |-> p, caller |-> account.cred.token,
                 cred |-> FirstCredential, flagged |-> FALSE, began |-> now,
                 aborted |-> FALSE, dispatched |-> FALSE, robbed |-> FALSE,
                 replaced |-> old, replacedSent |-> b,
                 relogin |-> FALSE, fresh |-> FirstCredential]
<1>1. /\ old \in Flights \cup {NoFlight} /\ now \in 0..MaxTime /\ account.cred.token \in Tokens
  BY DEF Typed, Credentials
<1>2. b \in BOOLEAN
  OBVIOUS
<1>3. flight' = [g \in Flights |-> IF g = f THEN r
                   ELSE IF g = old THEN [flight[g] EXCEPT !.aborted = TRUE]
                   ELSE flight[g]]
      /\ current' = [current EXCEPT ![p] = f] /\ flight[f].stage = "idle"
  BY Zenon DEF Ask
<1>4. r = [Waiting EXCEPT !.stage = "locking", !.home = p, !.began = now,
                                !.caller = account.cred.token, !.replaced = old,
                                !.replacedSent = b]
  BY Zenon
<1> HIDE DEF b, r, old
<1>5. r = s
  BY <1>4 DEF Waiting
<1>6. s \in FlightRecords
  BY <1>1, <1>2, FirstTyped, Stages DEF FlightRecords
<1>7. \A g \in Flights : flight[g] \in FlightRecords
  BY DEF Typed
<1>8. \A g \in Flights : [flight[g] EXCEPT !.aborted = TRUE] \in FlightRecords
  BY <1>7 DEF FlightRecords
<1>9. /\ flight' \in [Flights -> FlightRecords] /\ flight'[f] = s
      /\ \A g \in Flights \ {f, old} : flight'[g] = flight[g]
      /\ \A g \in Flights \ {f} : g = old => flight'[g] = [flight[g] EXCEPT !.aborted = TRUE]
  BY <1>3, <1>5, <1>6, <1>7, <1>8
<1>10. /\ s.stage = "locking" /\ s.home = p /\ ~s.aborted /\ ~s.dispatched /\ ~s.robbed
       /\ s.cred = FirstCredential /\ s.replaced = old /\ s.replacedSent = b
  OBVIOUS
<1> HIDE DEF s
<1> QED BY <1>3, <1>9, <1>10 DEF b, old

LEMMA CrashShape ==
    ASSUME Typed, NEW p \in Processes, Crash(p)
    PROVE  /\ flight' \in [Flights -> FlightRecords]
           /\ current' = [current EXCEPT ![p] = NoFlight]
           /\ \A f \in Flights :
                IF flight[f].home = p /\ flight[f].stage \in Running
                THEN flight'[f] = Over(f) ELSE flight'[f] = flight[f]
<1>1. /\ current' = [current EXCEPT ![p] = NoFlight]
      /\ flight' = [f \in Flights |->
           IF flight[f].home = p /\ flight[f].stage \in Running THEN Over(f) ELSE flight[f]]
  BY Zenon DEF Crash
<1>2. \A f \in Flights : Over(f) \in FlightRecords /\ flight[f] \in FlightRecords
  BY OverFields DEF Typed
<1> QED BY <1>1, <1>2

-----------------------------------------------------------------------------
(* What always holds.                                                      *)

AccountType == [there : BOOLEAN, cred : Credentials, flagged : BOOLEAN]
LockType == [there : BOOLEAN, by : Flights \cup {NoFlight}, at : 0..MaxTime]
IntentType == [there : BOOLEAN, token : Tokens, by : Flights \cup {NoFlight},
               staleOwner : BOOLEAN]

LEMMA AccountsTyped ==
    ASSUME Typed, NEW token \in Tokens, NEW cred \in Credentials
    PROVE  Flagged(token) \in AccountType /\ Merged(token, cred) \in AccountType
BY DEF Flagged, Merged, Typed, AccountType

LEMMA NothingTyped == NoLock \in LockType /\ NoIntent \in IntentType
BY OAuthAssumption DEF NoLock, NoIntent, LockType, IntentType, Tokens

LEMMA ShapeTyped ==
    ASSUME Typed, NEW f \in Flights, Shape(f)
    PROVE  /\ flight' \in [Flights -> FlightRecords]
           /\ current' \in [Processes -> Flights \cup {NoFlight}]
<1>1. Unlisted(f) \in [Processes -> Flights \cup {NoFlight}]
  BY DEF Unlisted, Typed
<1> QED BY <1>1 DEF Shape, GoesOn, Finishes, Typed

LEMMA StepTyped ==
    ASSUME Typed, NEW f \in Flights, Step(f)
    PROVE  Typed'
<1>1. /\ flight' \in [Flights -> FlightRecords]
      /\ current' \in [Processes -> Flights \cup {NoFlight}]
  BY StepShape, ShapeTyped
<1>2. /\ account \in AccountType /\ lock \in LockType /\ intent \in IntentType
      /\ now \in 0..MaxTime /\ issued \in Tokens /\ expired \subseteq Tokens
  BY DEF Typed, AccountType, LockType, IntentType
<1>3. /\ flight[f].cred \in Credentials /\ flight[f].fresh \in Credentials
      /\ flight[f].cred.token \in Tokens /\ flight[f].caller \in Tokens
  BY DEF Typed, FlightRecords, Credentials
<1>4. expired' = expired /\ now' = now
  BY DEF Step, CreateLock, VerifyLock, JudgeLock, UnlinkLock, GiveUp, ReadAccount, Examine,
         Intend, Dispatch, Answer, Condemn, Refuse, Merge, Clear, Release, RemoveLock, Settle
<1>5. issued' \in Tokens
  <2>1. issued' = issued \/ (issued < MaxTokens /\ issued' = issued + 1)
    BY DEF Step, CreateLock, VerifyLock, JudgeLock, UnlinkLock, GiveUp, ReadAccount, Examine,
         Intend, Dispatch, Answer, Condemn, Refuse, Merge, Clear, Release, RemoveLock, Settle
  <2> QED BY <1>2, <2>1, OAuthAssumption DEF Tokens
<1>6. lock' \in LockType
  <2>1. lock' = lock \/ lock' = NoLock \/ lock' = [there |-> TRUE, by |-> f, at |-> now]
    BY DEF Step, CreateLock, VerifyLock, JudgeLock, UnlinkLock, GiveUp, ReadAccount, Examine,
         Intend, Dispatch, Answer, Condemn, Refuse, Merge, Clear, Release, RemoveLock, Settle
  <2>2. [there |-> TRUE, by |-> f, at |-> now] \in LockType
    BY <1>2 DEF LockType
  <2> QED BY <1>2, <2>1, <2>2, NothingTyped
<1>7. intent' \in IntentType
  <2>1. \/ intent' = intent \/ intent' = NoIntent
        \/ intent' = [intent EXCEPT !.staleOwner = TRUE]
        \/ intent' = [there |-> TRUE, token |-> flight[f].cred.token, by |-> f,
                      staleOwner |-> FALSE]
    BY ExamineShape DEF Step, CreateLock, VerifyLock, JudgeLock, UnlinkLock, GiveUp, ReadAccount,
         Intend, Dispatch, Answer, Condemn, Refuse, Merge, Clear, Release, RemoveLock, Settle
  <2>2. [there |-> TRUE, token |-> flight[f].cred.token, by |-> f, staleOwner |-> FALSE]
          \in IntentType
    BY <1>3 DEF IntentType
  <2>3. [intent EXCEPT !.staleOwner = TRUE] \in IntentType
    BY <1>2 DEF IntentType
  <2> QED BY <1>2, <2>1, <2>2, <2>3, NothingTyped
<1>8. account' \in AccountType
  <2>1. \/ account' = account \/ account' = Flagged(flight[f].cred.token)
        \/ account' = Flagged(flight[f].caller)
        \/ account' = Merged(flight[f].cred.token, flight[f].fresh)
    BY RefuseShape, MergeShape DEF Step, CreateLock, VerifyLock, JudgeLock, UnlinkLock, GiveUp,
         ReadAccount, Examine, Intend, Dispatch, Answer, Condemn, Unsaved, Clear, Release,
         RemoveLock, Settle
  <2> QED BY <1>2, <1>3, <2>1, AccountsTyped
<1> QED BY <1>1, <1>2, <1>4, <1>5, <1>6, <1>7, <1>8 DEF Typed, AccountType, LockType, IntentType

LEMMA TypedStep ==
    ASSUME Typed, [Next]_vars
    PROVE  Typed'
<1> USE OAuthAssumption
<1>1. ASSUME NEW f \in Flights, Step(f) PROVE Typed'
  BY <1>1, StepTyped
<1>2. ASSUME NEW f \in Flights, NEW p \in Processes, Ask(f, p) PROVE Typed'
  <2>1. /\ flight' \in [Flights -> FlightRecords]
        /\ current' \in [Processes -> Flights \cup {NoFlight}]
    BY <1>2, AskShape DEF Typed
  <2>2. UNCHANGED <<account, expired, issued, lock, intent, now>>
    BY <1>2 DEF Ask
  <2> QED BY <2>1, <2>2 DEF Typed
<1>3. ASSUME NEW p \in Processes, Crash(p) PROVE Typed'
  <2>1. /\ flight' \in [Flights -> FlightRecords]
        /\ current' \in [Processes -> Flights \cup {NoFlight}]
    BY <1>3, CrashShape DEF Typed
  <2>2. UNCHANGED <<account, expired, issued, lock, intent, now>>
    BY <1>3 DEF Crash
  <2> QED BY <2>1, <2>2 DEF Typed
<1>4. CASE Expire
  <2>1. account.cred.token \in Tokens
    BY DEF Typed, Credentials
  <2> QED BY <1>4, <2>1 DEF Expire, Typed
<1>5. CASE Login
  <2>1. issued' \in Tokens
    BY <1>5 DEF Login, Typed, Tokens
  <2>2. account' \in AccountType
    BY <1>5, <2>1 DEF Login, AccountType, Credentials
  <2> QED BY <1>5, <2>1, <2>2 DEF Login, Typed, AccountType
<1>6. CASE Remove
  <2>1. account' \in AccountType
    BY <1>6 DEF Remove, Typed, AccountType
  <2> QED BY <1>6, <2>1 DEF Remove, Typed, AccountType
<1>7. CASE Tick
  <2>1. now' \in 0..MaxTime
    BY <1>7 DEF Tick, Typed
  <2> QED BY <1>7, <2>1 DEF Tick, Typed
<1>8. CASE UNCHANGED vars
  BY <1>8 DEF vars, Typed
<1> QED BY <1>1, <1>2, <1>3, <1>4, <1>5, <1>6, <1>7, <1>8 DEF Next

\* A flight that another one replaces loses nothing but its place.
LEMMA AskKeeps ==
    ASSUME Typed, NEW f \in Flights, NEW p \in Processes, Ask(f, p), NEW g \in Flights \ {f}
    PROVE  /\ flight'[g].stage = flight[g].stage /\ flight'[g].home = flight[g].home
           /\ flight'[g].cred = flight[g].cred /\ flight'[g].flagged = flight[g].flagged
           /\ flight'[g].dispatched = flight[g].dispatched
           /\ flight'[g].robbed = flight[g].robbed /\ flight'[g].fresh = flight[g].fresh
           /\ flight'[g].replaced = flight[g].replaced
           /\ flight'[g].replacedSent = flight[g].replacedSent
           /\ flight[g].aborted \/ g = current[p] => flight'[g].aborted
<1>1. flight[g] \in FlightRecords
  BY DEF Typed
<1>2. CASE g = current[p]
  <2>1. flight'[g] = [flight[g] EXCEPT !.aborted = TRUE]
    BY <1>2, AskShape
  <2> QED BY <1>1, <1>2, <2>1 DEF FlightRecords
<1>3. CASE g # current[p]
  <2>1. flight'[g] = flight[g] /\ flight[g].aborted \in BOOLEAN
    BY <1>1, <1>3, AskShape DEF FlightRecords
  <2> QED BY <1>3, <2>1
<1> QED BY <1>2, <1>3

\* Nobody takes away the lock of a flight that has not begun.
LEMMA IdleUntouched ==
    ASSUME Typed, NEW f \in Flights, Step(f), NEW g \in Flights \ {f},
           flight[g].stage = "idle"
    PROVE  flight'[g] = flight[g]
<1>1. Robbed(f)[g] = flight[g]
  BY Stages DEF Robbed
<1>2. ASSUME NEW s, flight' = [flight EXCEPT ![f] = s]
      PROVE  flight'[g] = flight[g]
  BY <1>2 DEF Typed
<1>3. ASSUME NEW others, others = flight \/ others = Robbed(f), Ends(f, others)
      PROVE  flight'[g] = flight[g]
  <2>1. others \in [Flights -> FlightRecords] /\ others[g] = flight[g]
    BY <1>1, <1>3, RobbedShape DEF Typed
  <2>2. \/ flight' = [others EXCEPT ![f] = [others[f] EXCEPT !.stage = "settling"]]
        \/ flight' = [others EXCEPT ![f] = Over(f)]
    BY <1>3 DEF Ends
  <2> QED BY <2>1, <2>2
<1>4. CASE UnlinkLock(f)
  BY <1>1, <1>4, UnlinkShape
<1>5. CASE RemoveLock(f) \/ VerifyLock(f) \/ Release(f) \/ GiveUp(f)
  BY <1>2, <1>3, <1>5 DEF RemoveLock, VerifyLock, Release, GiveUp, Goto
<1>6. CASE \/ CreateLock(f) \/ JudgeLock(f) \/ Intend(f) \/ Dispatch(f) \/ Clear(f)
           \/ Condemn(f) \/ ReadAccount(f) \/ Settle(f)
  BY <1>2, <1>6 DEF CreateLock, JudgeLock, Intend, Dispatch, Clear, Condemn, Unsaved,
                    ReadAccount, Settle, Goto, Closing, Typed
<1>7. CASE Examine(f)
  BY <1>2, <1>7 DEF Examine, Closing, Typed
<1>8. CASE Answer(f) \/ Refuse(f) \/ Merge(f)
  BY <1>2, <1>8 DEF Answer, Refuse, Merge, Unsaved, Goto, Closing, Typed
<1> QED BY <1>4, <1>5, <1>6, <1>7, <1>8 DEF Step

LEMMA ListedStep ==
    ASSUME Typed, Listed, [Next]_vars
    PROVE  Listed'
<1>1. ASSUME NEW f \in Flights, Step(f) PROVE Listed'
  <2>1. Shape(f)
    BY <1>1, StepShape
  <2>2. \A p \in Processes : current[p] \in Flights \cup {NoFlight}
    BY DEF Typed
  <2>3. CASE GoesOn(f)
    BY <2>1, <2>3 DEF Shape, GoesOn, Like, Listed
  <2>4. CASE Finishes(f)
    <3>1. \A p \in Processes :
            current'[p] = IF current[p] = f THEN NoFlight ELSE current[p]
      BY <2>4 DEF Finishes, Unlisted
    <3> QED BY <2>1, <2>4, <3>1, OAuthAssumption, Stages DEF Shape, Finishes, Like, Listed
  <2> QED BY <2>1, <2>3, <2>4 DEF Shape
<1>2. ASSUME NEW f \in Flights, NEW p \in Processes, Ask(f, p) PROVE Listed'
  <2> DEFINE old == current[p]
  <2>1. \A q \in Processes : current'[q] = IF q = p THEN f ELSE current[q]
    BY <1>2, AskShape DEF Typed
  <2>2. ASSUME NEW g \in Flights \ {f, old}
        PROVE  /\ flight'[g].stage \in Running => flight'[g].home \in Processes
               /\ \A q \in Processes : current'[q] = g <=>
                    flight'[g].stage \in Running /\ ~flight'[g].aborted /\ flight'[g].home = q
    BY <1>2, <2>1, AskShape DEF Listed
  <2>3. ASSUME NEW g \in Flights, g # f, g = old
        PROVE  /\ flight'[g].stage \in Running => flight'[g].home \in Processes
               /\ \A q \in Processes : current'[q] = g <=>
                    flight'[g].stage \in Running /\ ~flight'[g].aborted /\ flight'[g].home = q
    <3>1. /\ flight'[g].stage = flight[g].stage /\ flight'[g].home = flight[g].home
          /\ flight'[g].aborted
      <4>1. flight'[g] = [flight[g] EXCEPT !.aborted = TRUE] /\ flight[g] \in FlightRecords
        BY <1>2, <2>3, AskShape DEF Typed
      <4> QED BY <4>1 DEF FlightRecords
    <3>2. \A q \in Processes : current[q] = g => q = p
      BY <2>3 DEF Listed
    <3> QED BY <2>1, <2>3, <3>1, <3>2 DEF Listed
  <2>4. /\ flight'[f].stage \in Running => flight'[f].home \in Processes
        /\ \A q \in Processes : current'[q] = f <=>
             flight'[f].stage \in Running /\ ~flight'[f].aborted /\ flight'[f].home = q
    <3>1. \A q \in Processes : current[q] # f
      BY <1>2, AskShape, Stages DEF Listed
    <3>2. /\ flight'[f].stage \in Running /\ flight'[f].home = p /\ ~flight'[f].aborted
      BY <1>2, AskShape, Stages
    <3> QED BY <2>1, <3>1, <3>2
  <2> QED BY <2>2, <2>3, <2>4 DEF Listed
<1>3. ASSUME NEW p \in Processes, Crash(p) PROVE Listed'
  <2>1. \A q \in Processes : current'[q] = IF q = p THEN NoFlight ELSE current[q]
    BY <1>3, CrashShape DEF Typed
  <2>2. ASSUME NEW f \in Flights
        PROVE  /\ flight'[f].stage \in Running => flight'[f].home \in Processes
               /\ \A q \in Processes : current'[q] = f <=>
                    flight'[f].stage \in Running /\ ~flight'[f].aborted /\ flight'[f].home = q
    <3>1. CASE flight[f].home = p /\ flight[f].stage \in Running
      <4>1. flight'[f].stage = "done"
        BY <1>3, <3>1, CrashShape, OverFields
      <4> QED BY <2>1, <3>1, <4>1, OAuthAssumption, Stages DEF Listed
    <3>2. CASE ~(flight[f].home = p /\ flight[f].stage \in Running)
      <4>1. flight'[f] = flight[f]
        BY <1>3, <3>2, CrashShape
      <4> QED BY <2>1, <3>2, <4>1, OAuthAssumption DEF Listed
    <3> QED BY <3>1, <3>2
  <2> QED BY <2>2 DEF Listed
<1>4. CASE UNCHANGED <<current, flight>>
  BY <1>4 DEF Listed
<1> QED BY <1>1, <1>2, <1>3, <1>4 DEF Next, Expire, Login, Remove, Tick, vars

LEMMA UnsentStep ==
    ASSUME Typed, Unsent, [Next]_vars
    PROVE  Unsent'
<1>1. ASSUME NEW f \in Flights, Step(f) PROVE Unsent'
  <2>1. Shape(f)
    BY <1>1, StepShape
  <2>2. flight'[f].stage \in Unsending => ~flight'[f].dispatched
    BY <2>1 DEF Shape, GoesOn, Finishes, Unsent, Unsending
  <2>3. flight'[f].stage # "idle"
    BY <2>1, Stages DEF Shape, GoesOn, Finishes
  <2>4. ASSUME NEW g \in Flights \ {f}
        PROVE  /\ flight'[g].stage \in Unsending => ~flight'[g].dispatched
               /\ flight'[g].stage = "idle" => ~flight'[g].robbed
    <3>1. flight'[g].stage \in Unsending => ~flight'[g].dispatched
      BY <2>1 DEF Shape, Like, Unsent
    <3>2. flight'[g].stage = "idle" => flight'[g] = flight[g]
      BY <1>1, <2>1, IdleUntouched DEF Shape, Like
    <3> QED BY <3>1, <3>2 DEF Unsent
  <2> QED BY <2>2, <2>3, <2>4 DEF Unsent
<1>2. ASSUME NEW f \in Flights, NEW p \in Processes, Ask(f, p) PROVE Unsent'
  <2>1. ASSUME NEW g \in Flights \ {f}
        PROVE  /\ flight'[g].stage = flight[g].stage
               /\ flight'[g].dispatched = flight[g].dispatched
               /\ flight'[g].robbed = flight[g].robbed
    BY <1>2, AskKeeps
  <2> QED BY <1>2, <2>1, AskShape DEF Unsent
<1>3. ASSUME NEW p \in Processes, Crash(p) PROVE Unsent'
  BY <1>3, CrashShape, OverFields DEF Unsent, Unsending
<1>4. CASE UNCHANGED flight
  BY <1>4 DEF Unsent
<1> QED BY <1>1, <1>2, <1>3, <1>4 DEF Next, Expire, Login, Remove, Tick, vars

LEMMA ReplacedStep ==
    ASSUME Typed, Listed, Unsent, ReplacedIsStill, [Next]_vars
    PROVE  ReplacedIsStill'
<1>1. ASSUME NEW f \in Flights, Step(f) PROVE ReplacedIsStill'
  <2>1. Shape(f)
    BY <1>1, StepShape
  <2>2. ASSUME NEW g \in Flights, NEW r \in Flights,
               flight'[g].replaced = r, ~flight'[g].replacedSent
        PROVE  flight[g].replaced = r /\ ~flight[g].replacedSent
    BY <2>1, <2>2, OAuthAssumption DEF Shape, GoesOn, Finishes, Like
  <2>3. ASSUME NEW r \in Flights, ~flight[r].dispatched, flight[r].stage # "idle",
               flight[r].aborted \/ flight[r].stage = "done"
        PROVE  /\ ~flight'[r].dispatched /\ flight'[r].stage # "idle"
               /\ flight'[r].aborted \/ flight'[r].stage = "done"
    <3>1. CASE r = f
      BY <2>1, <2>3, <3>1, Stages DEF Shape, GoesOn, Finishes
    <3>2. CASE r # f
      BY <2>1, <2>3, <3>2 DEF Shape, Like
    <3> QED BY <3>1, <3>2
  <2> QED BY <2>2, <2>3 DEF ReplacedIsStill
<1>2. ASSUME NEW f \in Flights, NEW p \in Processes, Ask(f, p) PROVE ReplacedIsStill'
  <2>1. ASSUME NEW r \in Flights, r # f, ~flight[r].dispatched, flight[r].stage # "idle",
               flight[r].aborted \/ flight[r].stage = "done" \/ r = current[p]
        PROVE  /\ ~flight'[r].dispatched /\ flight'[r].stage # "idle"
               /\ flight'[r].aborted \/ flight'[r].stage = "done"
    BY <1>2, <2>1, AskKeeps
  <2>2. ASSUME NEW r \in Flights, flight'[f].replaced = r, ~flight'[f].replacedSent
        PROVE  /\ ~flight'[r].dispatched /\ flight'[r].stage # "idle"
               /\ flight'[r].aborted \/ flight'[r].stage = "done"
    <3>1. current[p] = r /\ ~flight[r].dispatched
      BY <1>2, <2>2, AskShape, OAuthAssumption
    <3>2. flight[r].stage \in Running
      BY <3>1 DEF Listed
    <3>3. r # f
      BY <1>2, <3>2, AskShape, Stages
    <3> QED BY <2>1, <3>1, <3>2, <3>3, Stages
  <2>3. ASSUME NEW g \in Flights \ {f}, NEW r \in Flights,
               flight'[g].replaced = r, ~flight'[g].replacedSent
        PROVE  /\ ~flight'[r].dispatched /\ flight'[r].stage # "idle"
               /\ flight'[r].aborted \/ flight'[r].stage = "done"
    <3>1. flight[g].replaced = r /\ ~flight[g].replacedSent
      BY <1>2, <2>3, AskKeeps
    <3>2. /\ ~flight[r].dispatched /\ flight[r].stage # "idle"
          /\ flight[r].aborted \/ flight[r].stage = "done"
      BY <3>1 DEF ReplacedIsStill
    <3>3. r # f
      BY <1>2, <3>2, AskShape
    <3> QED BY <2>1, <3>2, <3>3
  <2> QED BY <2>2, <2>3 DEF ReplacedIsStill
<1>3. ASSUME NEW p \in Processes, Crash(p) PROVE ReplacedIsStill'
  <2>1. ASSUME NEW g \in Flights, NEW r \in Flights,
               flight'[g].replaced = r, ~flight'[g].replacedSent
        PROVE  flight[g].replaced = r /\ ~flight[g].replacedSent
    BY <1>3, <2>1, CrashShape, OverFields, OAuthAssumption
  <2>2. ASSUME NEW r \in Flights, ~flight[r].dispatched, flight[r].stage # "idle",
               flight[r].aborted \/ flight[r].stage = "done"
        PROVE  /\ ~flight'[r].dispatched /\ flight'[r].stage # "idle"
               /\ flight'[r].aborted \/ flight'[r].stage = "done"
    BY <1>3, <2>2, CrashShape, OverFields
  <2> QED BY <2>1, <2>2 DEF ReplacedIsStill
<1>4. CASE UNCHANGED flight
  BY <1>4 DEF ReplacedIsStill
<1> QED BY <1>1, <1>2, <1>3, <1>4 DEF Next, Expire, Login, Remove, Tick, vars

\* What a step of a flight does to the credentials.
CredentialsMove(f) ==
    /\ flight'[f].cred \in {flight[f].cred, account.cred, FirstCredential}
    /\ flight'[f].stage = "answered" =>
         /\ flight'[f].cred = flight[f].cred /\ issued' = issued + 1
         /\ flight'[f].fresh = [flight[f].cred EXCEPT !.token = issued + 1]
    /\ issued' \in {issued, issued + 1}
    /\ intent'.token \in {intent.token, 0, flight[f].cred.token}
    /\ \/ account'.cred = account.cred
       \/ /\ flight[f].stage = "answered" /\ flight'[f].cred = flight[f].cred
          /\ account.cred.token = flight[f].cred.token /\ account'.cred = flight[f].fresh

LEMMA CredentialsStep ==
    ASSUME Typed, NEW f \in Flights, Step(f)
    PROVE  CredentialsMove(f)
<1> USE DEF CredentialsMove
<1>1. \A token : Flagged(token).cred = account.cred
  BY DEF Flagged, Typed
<1>2. Shape(f)
  BY StepShape
<1>3. Finishes(f) => /\ flight'[f].cred \in {flight[f].cred, FirstCredential}
                     /\ flight'[f].stage = "done"
  BY DEF Finishes
<1>4. CASE \/ CreateLock(f) \/ JudgeLock(f)
  BY <1>4, GotoShape, Stages DEF CreateLock, JudgeLock, At, Unsending
<1>5. CASE VerifyLock(f)
  BY <1>3, <1>5, VerifyShape DEF VerifyLock
<1>6. CASE UnlinkLock(f)
  BY <1>6, UnlinkShape DEF UnlinkLock
<1>7. CASE GiveUp(f)
  BY <1>3, <1>7, EndsFlight, Stages DEF GiveUp, At
<1>8. CASE ReadAccount(f)
  BY <1>8, ReadShape DEF ReadAccount
<1>9. CASE Examine(f)
  <2>1. [intent EXCEPT !.staleOwner = TRUE].token = intent.token /\ NoIntent.token = 0
    BY DEF Typed, NoIntent
  <2>2. issued' = issued /\ account' = account
    BY <1>9 DEF Examine
  <2> QED BY <1>9, <2>1, <2>2, ExamineShape
<1>10. CASE Intend(f)
  BY <1>10, GotoShape, Stages DEF Intend, Unsending
<1>11. CASE Dispatch(f)
  <2>1. issued' = issued /\ account' = account /\ intent' = intent
    BY <1>11 DEF Dispatch
  <2> QED BY <1>11, <2>1, DispatchShape
<1>12. CASE Answer(f)
  <2>1. account' = account /\ intent' = intent
    BY <1>12 DEF Answer
  <2> QED BY <1>12, <2>1, AnswerShape
<1>13. CASE Condemn(f)
  <2>1. /\ flight[f].stage = "condemned" /\ current' = current
        /\ issued' = issued /\ intent' = intent
        /\ Closing(f, TRUE) \/ Closing(f, FALSE)
        /\ account' = account \/ account' = Flagged(flight[f].cred.token)
    BY <1>13 DEF Condemn, At, Unsaved
  <2> QED BY <1>1, <2>1, ClosingShape, Stages
<1>14. CASE Refuse(f)
  <2>1. issued' = issued /\ intent' = intent
    BY <1>14 DEF Refuse
  <2> QED BY <1>1, <1>14, <2>1, RefuseShape
<1>15. CASE Merge(f)
  <2>1. issued' = issued /\ intent' = intent /\ flight[f].stage = "answered"
    BY <1>15 DEF Merge, At
  <2>2. \A token, cred : Merged(token, cred).cred =
          IF Matches(token) THEN cred ELSE account.cred
    BY DEF Merged, Typed
  <2> QED BY <1>15, <2>1, <2>2, MergeShape DEF Matches
<1>16. CASE Clear(f)
  <2>1. /\ issued' = issued /\ account' = account
        /\ intent' = intent \/ intent' = NoIntent
    BY <1>16 DEF Clear
  <2> QED BY <1>16, <2>1, ClearShape DEF NoIntent
<1>17. CASE Release(f)
  BY <1>3, <1>17, ReleaseShape DEF Release
<1>18. CASE RemoveLock(f)
  <2>1. /\ issued' = issued /\ account' = account /\ intent' = intent
        /\ flight[f].stage = "removing" /\ Ends(f, Robbed(f))
    BY <1>18 DEF RemoveLock
  <2> QED BY <1>2, <1>3, <2>1, RemoveShape, Stages
<1>19. CASE Settle(f)
  <2>1. /\ issued' = issued /\ intent' = intent
        /\ account' = account \/ account' = Flagged(flight[f].caller)
    BY <1>19 DEF Settle
  <2> QED BY <1>1, <1>3, <1>19, <2>1, SettleShape
<1> QED BY <1>4, <1>5, <1>6, <1>7, <1>8, <1>9, <1>10, <1>11, <1>12, <1>13, <1>14, <1>15,
           <1>16, <1>17, <1>18, <1>19 DEF Step

LEMMA NumberedStep ==
    ASSUME Typed, Numbered, [Next]_vars
    PROVE  Numbered'
<1>1. /\ issued \in Nat /\ account.cred.token \in Nat /\ intent.token \in Nat
      /\ \A g \in Flights : /\ flight[g].cred \in Credentials
                            /\ flight[g].cred.token \in Nat /\ flight[g].fresh.token \in Nat
  BY DEF Typed, FlightRecords, Credentials, Tokens
<1>2. FirstCredential.token = 0 /\ FirstCredential.login = 0
  BY DEF FirstCredential
<1>3. ASSUME NEW f \in Flights, Step(f) PROVE Numbered'
  <2>1. CredentialsMove(f)
    BY <1>3, CredentialsStep
  <2>2. \A g \in Flights \ {f} : /\ flight'[g].stage = flight[g].stage
                                 /\ flight'[g].cred = flight[g].cred
                                 /\ flight'[g].fresh = flight[g].fresh
    BY <1>3, StepShape DEF Shape, Like
  <2>3. /\ account'.cred.token >= account.cred.token
        /\ account'.cred.token <= issued'
        /\ account'.cred.token = 0 => account'.cred.login = 0
        /\ account'.cred.token = account.cred.token => account'.cred = account.cred
    BY <1>1, <2>1 DEF CredentialsMove, Numbered
  <2>4. issued' >= issued /\ issued' \in Nat /\ account'.cred.token \in Nat
    BY <1>1, <2>1 DEF CredentialsMove
  <2>5. intent'.token <= account'.cred.token
    BY <1>1, <2>1, <2>3, <2>4 DEF CredentialsMove, Numbered
  <2>6. ASSUME NEW g \in Flights
        PROVE  /\ flight'[g].cred.token <= account'.cred.token
               /\ flight'[g].cred.token = account'.cred.token =>
                    flight'[g].cred.login = account'.cred.login
    <3>1. flight'[g].cred \in {flight[g].cred, account.cred, FirstCredential}
      BY <2>1, <2>2 DEF CredentialsMove
    <3> QED BY <1>1, <1>2, <2>3, <2>4, <3>1 DEF Numbered
  <2>7. ASSUME NEW g \in Flights, flight'[g].stage = "answered"
        PROVE  /\ flight'[g].cred.token < flight'[g].fresh.token
               /\ flight'[g].fresh.token <= issued'
               /\ flight'[g].fresh.login = flight'[g].cred.login
    <3>1. CASE g = f
      <4>1. /\ flight'[f].cred = flight[f].cred /\ issued' = issued + 1
            /\ flight'[f].fresh = [flight[f].cred EXCEPT !.token = issued + 1]
        BY <2>1, <2>7, <3>1 DEF CredentialsMove
      <4>2. flight'[f].fresh.token = issued + 1 /\ flight'[f].fresh.login = flight[f].cred.login
        BY <1>1, <4>1 DEF Credentials
      <4>3. flight[f].cred.token <= issued
        BY <1>1 DEF Numbered
      <4> QED BY <1>1, <3>1, <4>1, <4>2, <4>3
    <3>2. CASE g # f
      BY <1>1, <2>2, <2>4, <2>7, <3>2 DEF Numbered
    <3> QED BY <3>1, <3>2
  <2> QED BY <2>3, <2>5, <2>6, <2>7 DEF Numbered
<1>4. ASSUME NEW f \in Flights, NEW p \in Processes, Ask(f, p) PROVE Numbered'
  <2>1. UNCHANGED <<account, issued, intent>>
    BY <1>4 DEF Ask
  <2>2. \A g \in Flights \ {f} : /\ flight'[g].stage = flight[g].stage
                                 /\ flight'[g].cred = flight[g].cred
                                 /\ flight'[g].fresh = flight[g].fresh
    BY <1>4, AskKeeps
  <2>3. flight'[f].cred = FirstCredential /\ flight'[f].stage = "locking"
    BY <1>4, AskShape
  <2> QED BY <1>1, <1>2, <2>1, <2>2, <2>3 DEF Numbered
<1>5. ASSUME NEW p \in Processes, Crash(p) PROVE Numbered'
  <2>1. UNCHANGED <<account, issued, intent>>
    BY <1>5 DEF Crash
  <2>2. ASSUME NEW g \in Flights
        PROVE  \/ flight'[g] = flight[g]
               \/ /\ flight'[g].stage = "done"
                  /\ flight'[g].cred \in {flight[g].cred, FirstCredential}
    BY <1>5, CrashShape, OverFields
  <2> QED BY <1>1, <1>2, <2>1, <2>2 DEF Numbered
<1>6. CASE Login
  <2>1. /\ issued' = issued + 1 /\ account'.cred.token = issued + 1
        /\ account'.cred.login = issued + 1 /\ flight' = flight /\ intent' = intent
    BY <1>6 DEF Login
  <2> QED BY <1>1, <2>1 DEF Numbered
<1>7. CASE Remove
  <2>1. account'.cred = account.cred
    BY <1>7 DEF Remove, Typed
  <2> QED BY <1>7, <2>1 DEF Remove, Numbered
<1>8. CASE UNCHANGED <<account, issued, intent, flight>>
  BY <1>8 DEF Numbered
<1> QED BY <1>3, <1>4, <1>5, <1>6, <1>7, <1>8 DEF Next, Expire, Tick, vars

LEMMA BaseInit == Init => Base
<1> SUFFICES ASSUME Init PROVE Base
  OBVIOUS
<1> USE OAuthAssumption, FirstTyped, WaitingTyped, NothingTyped
<1>1. /\ Waiting.stage = "idle" /\ ~Waiting.dispatched /\ ~Waiting.robbed
      /\ Waiting.replaced = NoFlight /\ Waiting.cred = FirstCredential
      /\ FirstCredential.token = 0 /\ FirstCredential.login = 0 /\ NoIntent.token = 0
  BY DEF Waiting, FirstCredential, NoIntent
<1>2. account \in AccountType
  BY DEF Init, AccountType
<1>3. Typed
  BY <1>2 DEF Init, Typed, AccountType, LockType, IntentType, Tokens
<1>4. Listed
  BY <1>1, Stages DEF Init, Listed
<1>5. Unsent
  BY <1>1 DEF Init, Unsent
<1>6. ReplacedIsStill
  BY <1>1 DEF Init, ReplacedIsStill
<1>7. Numbered
  BY <1>1 DEF Init, Numbered
<1> QED BY <1>3, <1>4, <1>5, <1>6, <1>7 DEF Base

LEMMA BaseStep == Base /\ [Next]_vars => Base'
BY TypedStep, ListedStep, UnsentStep, ReplacedStep, NumberedStep DEF Base

\* The state stays well formed, and a process lists the flight that it runs and
\* has not replaced, for any processes, flights and bounds.
THEOREM OAuthTypeCorrect == Spec => []TypeOK
<1>1. Base => TypeOK
  BY DEF Base, Typed, Listed, TypeOK
<1> QED BY <1>1, BaseInit, BaseStep, PTL DEF Spec

\* No refresh brings an account back, replaces a newer login, or flags a
\* credential that no flight has started from, whatever answers come how late.
THEOREM AnswersYield == Spec => LateAnswersYield
<1> DEFINE Yields ==
      /\ ~account.there => ~account'.there
      /\ account'.cred.login >= account.cred.login
      /\ (account'.flagged /\ ~account.flagged) =>
           \E f \in Flights :
               /\ flight[f].stage # "idle"
               /\ account.cred.token \in {flight[f].caller, flight[f].cred.token}
<1> HIDE DEF Yields
<1>1. ASSUME Base, [Next]_vars PROVE Login \/ Yields \/ UNCHANGED vars
  <2>1. account.cred.login \in Nat
    BY <1>1 DEF Base, Typed, Credentials, Tokens
  <2>2. ASSUME account' = account PROVE Yields
    BY <2>1, <2>2 DEF Yields
  <2>3. CASE Remove
    <3>1. /\ account'.there = FALSE /\ account'.flagged = FALSE
          /\ account'.cred = account.cred
      BY <1>1, <2>3 DEF Remove, Base, Typed
    <3> QED BY <2>1, <3>1 DEF Yields
  <2>4. ASSUME NEW f \in Flights, NEW token \in {flight[f].caller, flight[f].cred.token},
               flight[f].stage # "idle", account' = Flagged(token)
        PROVE  Yields
    <3>1. /\ account'.there = account.there /\ account'.cred = account.cred
          /\ account' # account => account.cred.token = token
      BY <1>1, <2>4 DEF Flagged, Matches, Base, Typed
    <3> QED BY <2>1, <2>4, <3>1 DEF Yields
  <2>5. ASSUME NEW f \in Flights, Condemn(f) \/ Refuse(f) \/ Settle(f) PROVE Yields
    <3>1. flight[f].stage \in {"condemned", "refused", "settling"}
      BY <2>5 DEF Condemn, Refuse, Settle, At
    <3>2. \/ account' = account
          \/ account' = Flagged(flight[f].cred.token)
          \/ account' = Flagged(flight[f].caller)
      BY <2>5 DEF Condemn, Refuse, Settle, Unsaved
    <3> QED BY <2>2, <2>4, <3>1, <3>2
  <2>6. ASSUME NEW f \in Flights, Merge(f) PROVE Yields
    <3>1. CASE account' = Merged(flight[f].cred.token, flight[f].fresh)
      <4>1. /\ account'.there = account.there
            /\ account'.flagged => account.flagged
            /\ \/ account'.cred = account.cred
               \/ /\ account.cred.token = flight[f].cred.token
                  /\ account'.cred = flight[f].fresh
        BY <1>1, <3>1 DEF Merged, Matches, Base, Typed
      <4>2. flight[f].stage = "answered"
        BY <2>6 DEF Merge, At
      <4>3. account.cred.token = flight[f].cred.token =>
              flight[f].fresh.login = account.cred.login
        BY <1>1, <4>2 DEF Base, Numbered
      <4> QED BY <2>1, <4>1, <4>3 DEF Yields
    <3> QED BY <2>2, <2>6, <3>1 DEF Merge, Unsaved
  <2>7. ASSUME NEW f \in Flights, Step(f), account' # account
        PROVE  Condemn(f) \/ Refuse(f) \/ Settle(f) \/ Merge(f)
    BY <2>7 DEF Step, CreateLock, VerifyLock, JudgeLock, UnlinkLock, GiveUp, ReadAccount,
                Examine, Intend, Dispatch, Answer, Clear, Release, RemoveLock
  <2> QED BY <1>1, <2>2, <2>3, <2>5, <2>6, <2>7 DEF Next, Ask, Expire, Crash, Tick, vars
<1>2. Base /\ [Next]_vars => [Login \/ Yields]_vars
  BY <1>1
<1> QED BY <1>2, BaseInit, BaseStep, PTL DEF Spec, LateAnswersYield, Yields

-----------------------------------------------------------------------------
(* No grant is sent twice.                                                 *)

\* What a flight relies on needs no look at any step in which every flight
\* passes: it stays where it is, or goes where nothing is relied upon, or what
\* it relies on there is plain.
StillUsable(token) ==
    account'.there /\ account'.cred.token = token /\ ~account'.flagged

Passes(g) ==
    /\ flight'[g].dispatched = flight[g].dispatched
    /\ flight[g].dispatched => flight'[g].cred = flight[g].cred
    /\ \/ /\ flight'[g].stage = flight[g].stage /\ flight'[g].cred = flight[g].cred
          /\ flight'[g].flagged = flight[g].flagged
       \/ flight'[g].stage \notin {"examining", "intending", "intended", "clearing"}
       \/ flight'[g].stage = "clearing" /\ ~StillUsable(flight'[g].cred.token)

LEMMA KeptBefore ==
    ASSUME Typed, Unsent, [Next]_vars, Kept'
    PROVE  Kept
<1>1. ASSUME NEW f \in Flights, Step(f) PROVE Kept
  BY <1>1, StepShape DEF Shape, Like, GoesOn, Finishes, Kept
<1>2. ASSUME NEW f \in Flights, NEW p \in Processes, Ask(f, p) PROVE Kept
  BY <1>2, AskShape, AskKeeps DEF Kept, Unsent
<1>3. ASSUME NEW p \in Processes, Crash(p) PROVE Kept
  BY <1>3, CrashShape, OverFields DEF Kept
<1>4. CASE UNCHANGED flight
  BY <1>4 DEF Kept
<1> QED BY <1>1, <1>2, <1>3, <1>4 DEF Next, Expire, Login, Remove, Tick, vars

LEMMA Ordinary ==
    ASSUME Promises, \A g \in Flights : Passes(g),
           intent'.there = intent.there, intent'.token = intent.token, intent'.by = intent.by,
           \A g \in Flights : flight[g].dispatched \/ flight[g].stage = "clearing" =>
               (StillUsable(flight[g].cred.token) => Usable(flight[g].cred.token))
    PROVE  Promises'
<1>1. \A g \in Flights : flight'[g].dispatched <=> flight[g].dispatched
  BY DEF Passes
<1>2. \A g \in Flights : flight[g].dispatched => flight'[g].cred = flight[g].cred
  BY DEF Passes
<1>3. \A t : Sent(t)' <=> Sent(t)
  BY <1>1, <1>2 DEF Sent
<1>4. \A t : Usable(t)' <=> StillUsable(t)
  BY DEF Usable, StillUsable
<1>5. \A t : Outstanding(t)' <=> Outstanding(t)
  BY DEF Outstanding
<1>6. Accounted'
  BY <1>1, <1>2, <1>4, <1>5 DEF Accounted, Promises
<1>7. SentOnce'
  BY <1>1, <1>2 DEF SentOnce, Promises
<1>8. ASSUME NEW g \in Flights PROVE Ready(g)'
  BY <1>3, <1>4, <1>5 DEF Passes, Promises, Ready
<1> QED BY <1>6, <1>7, <1>8 DEF Promises

\* A flight that holds the lock is the only one that relies on anything.
LEMMA Alone ==
    ASSUME Promises, HoldsLock, NEW f \in Flights, flight[f].stage \in Holding, Shape(f)
    PROVE  \A g \in Flights \ {f} : Ready(g)'
<1>1. \A g \in Flights \ {f} : flight'[g].stage \notin Holding
  BY DEF Shape, Like, HoldsLock
<1> QED BY <1>1 DEF Ready, Holding

\* The steps that change neither intents nor accounts, and end where nothing is
\* relied upon.
LEMMA Plain ==
    ASSUME Promises, NEW f \in Flights, Shape(f),
           flight'[f].dispatched = flight[f].dispatched,
           Finishes(f) \/ flight'[f].cred = flight[f].cred,
           flight'[f].stage \notin {"examining", "intending", "intended", "clearing"},
           intent'.there = intent.there, intent'.token = intent.token, intent'.by = intent.by,
           \A token : StillUsable(token) => Usable(token)
    PROVE  Promises'
<1>1. \A g \in Flights \ {f} : Passes(g)
  BY DEF Shape, Like, Passes
<1>2. Passes(f)
  BY DEF Finishes, Passes
<1> QED BY <1>1, <1>2, Ordinary

LEMMA SameAccount ==
    ASSUME account' = account
    PROVE  \A token : StillUsable(token) => Usable(token)
BY DEF StillUsable, Usable

LEMMA FlagUsesUp ==
    ASSUME Typed, NEW token \in Tokens, account' = Flagged(token)
    PROVE  /\ \A t : StillUsable(t) => Usable(t)
           /\ ~StillUsable(token)
<1>1. CASE Matches(token)
  <2>1. account' = [account EXCEPT !.flagged = TRUE]
    BY <1>1 DEF Flagged
  <2>2. account'.flagged
    BY <2>1 DEF Typed
  <2> QED BY <2>2 DEF StillUsable
<1>2. CASE ~Matches(token)
  BY <1>2 DEF Flagged, Matches, StillUsable, Usable
<1> QED BY <1>1, <1>2

LEMMA ReadKeeps ==
    ASSUME Base, Promises, HoldsLock, NEW f \in Flights, ReadAccount(f)
    PROVE  Promises'
<1>1. /\ flight[f].stage = "holding" /\ account' = account /\ intent' = intent
  BY DEF ReadAccount, At
<1>2. Shape(f) /\ flight'[f].dispatched = flight[f].dispatched
  BY ReadShape DEF Base
<1>3. CASE flight'[f].stage = "closing" /\ flight'[f].cred = flight[f].cred
  BY <1>1, <1>2, <1>3, Plain, SameAccount
<1>4. CASE /\ flight'[f].stage = "examining" /\ account.there
           /\ flight'[f].cred = account.cred /\ flight'[f].flagged = account.flagged
  <2>1. ~flight[f].dispatched
    BY <1>1 DEF Base, Unsent, Unsending
  <2>2. \A g \in Flights : /\ flight'[g].dispatched <=> flight[g].dispatched
                           /\ flight[g].dispatched => flight'[g].cred = flight[g].cred
    BY <1>2, <2>1 DEF Shape, Like
  <2>3. Accounted' /\ SentOnce'
    BY <1>1, <2>2 DEF Promises, Accounted, SentOnce, Outstanding, Usable
  <2>4. ASSUME Sent(account.cred.token) PROVE account.flagged \/ Outstanding(account.cred.token)
    BY <1>4, <2>4 DEF Sent, Promises, Accounted, Usable
  <2>5. \A t : (Sent(t)' <=> Sent(t)) /\ (Outstanding(t)' <=> Outstanding(t))
    BY <1>1, <2>2 DEF Sent, Outstanding
  <2>6. intent.token <= account.cred.token
    BY DEF Base, Numbered
  <2>7. Ready(f)'
    BY <1>1, <1>4, <2>4, <2>5, <2>6 DEF Ready
  <2>8. \A g \in Flights \ {f} : Ready(g)'
    BY <1>1, <1>2, Alone DEF Holding
  <2> QED BY <2>3, <2>7, <2>8 DEF Promises
<1> QED BY <1>3, <1>4, ReadShape DEF Base

LEMMA ExamineKeeps ==
    ASSUME Base, Promises, HoldsLock, NEW f \in Flights, Examine(f)
    PROVE  Promises'
<1> DEFINE token == flight[f].cred.token
<1>1. flight[f].stage = "examining" /\ account' = account
  BY DEF Examine
<1>2. Shape(f) /\ flight'[f].dispatched = flight[f].dispatched /\ flight'[f].cred = flight[f].cred
  BY ExamineShape DEF Base
<1>3. CASE flight'[f].stage \in {"closing", "condemned"} /\ intent' = intent
  BY <1>1, <1>2, <1>3, Plain, SameAccount
<1>4. CASE flight'[f].stage = "closing" /\ intent' = [intent EXCEPT !.staleOwner = TRUE]
  <2>1. intent'.there = intent.there /\ intent'.token = intent.token /\ intent'.by = intent.by
    BY <1>4 DEF Base, Typed
  <2> QED BY <1>1, <1>2, <1>4, <2>1, Plain, SameAccount
<1>5. CASE /\ flight'[f].stage \in {"closing", "intending"}
           /\ intent' = NoIntent
           /\ flight'[f].stage = "intending" => ~flight[f].flagged
           /\ \/ ~Outstanding(token)
              \/ intent.by = flight[f].replaced /\ ~flight[f].replacedSent
  \* No sent grant is the one that was read, with an intent that is there.
  <2>1. ASSUME NEW g \in Flights, flight[g].dispatched, flight[g].cred.token = token
        PROVE  ~Outstanding(token)
    BY <1>5, <2>1 DEF Promises, Accounted, Base, ReplacedIsStill
  <2>2. (\A t : ~Outstanding(t)') /\ ~intent'.there
    BY <1>5 DEF Outstanding, NoIntent
  <2>3. \A g \in Flights : /\ flight'[g].dispatched <=> flight[g].dispatched
                           /\ flight'[g].cred = flight[g].cred
    BY <1>2 DEF Shape, Like
  <2>4. ASSUME NEW g \in Flights, flight[g].dispatched PROVE ~Usable(flight[g].cred.token)
    <3>1. SUFFICES ASSUME Usable(flight[g].cred.token) PROVE FALSE
      OBVIOUS
    <3>2. Outstanding(flight[g].cred.token)
      BY <2>4, <3>1 DEF Promises, Accounted
    <3>3. intent.token <= token
      BY <1>1, <3>2 DEF Promises, Ready, Outstanding
    <3>4. token <= account.cred.token
      BY DEF Base, Numbered
    <3>5. token \in Nat /\ intent.token \in Nat
      BY DEF Base, Typed, FlightRecords, Credentials, Tokens
    <3>6. flight[g].cred.token = token
      BY <3>1, <3>2, <3>3, <3>4, <3>5 DEF Usable, Outstanding
    <3> QED BY <2>1, <2>4, <3>2, <3>6
  <2>5. Accounted'
    BY <1>1, <2>2, <2>3, <2>4 DEF Accounted, Usable, Outstanding
  <2>6. SentOnce'
    BY <2>3 DEF SentOnce, Promises
  <2>7. ASSUME flight'[f].stage = "intending" PROVE ~Sent(token)
    BY <1>1, <1>5, <2>1, <2>7 DEF Promises, Ready, Sent
  <2>8. Ready(f)'
    BY <1>5, <2>2, <2>3, <2>7 DEF Ready, Sent
  <2> QED BY <1>1, <1>2, <2>5, <2>6, <2>8, Alone DEF Promises, Holding
<1> QED BY <1>3, <1>4, <1>5, ExamineShape DEF Base

LEMMA IntendKeeps ==
    ASSUME Base, Promises, HoldsLock, NEW f \in Flights, Intend(f)
    PROVE  Promises'
<1> DEFINE token == flight[f].cred.token
<1>1. /\ flight[f].stage = "intending" /\ account' = account
      /\ intent'.there /\ intent'.token = token /\ intent'.by = f
  BY DEF Intend
<1>2. /\ Shape(f) /\ flight'[f].dispatched = flight[f].dispatched
      /\ flight'[f].cred = flight[f].cred /\ flight'[f].stage = "intended"
  BY GotoShape, Stages DEF Intend, Base, Unsending
<1>3. ~Sent(token) /\ ~intent.there
  BY <1>1 DEF Promises, Ready
<1>4. \A g \in Flights : /\ flight'[g].dispatched <=> flight[g].dispatched
                         /\ flight'[g].cred = flight[g].cred
  BY <1>2 DEF Shape, Like
<1>5. \A g \in Flights : flight[g].dispatched =>
        flight[g].cred.token # token /\ ~Usable(flight[g].cred.token)
  BY <1>3 DEF Promises, Accounted, Sent, Outstanding
<1>6. Accounted'
  BY <1>1, <1>4, <1>5 DEF Accounted, Usable, Outstanding
<1>7. SentOnce'
  BY <1>4 DEF SentOnce, Promises
<1>8. Ready(f)'
  BY <1>1, <1>2, <1>3, <1>4 DEF Ready, Sent, Outstanding
<1> QED BY <1>1, <1>2, <1>6, <1>7, <1>8, Alone DEF Promises, Holding

LEMMA DispatchKeeps ==
    ASSUME Base, Promises, HoldsLock, NEW f \in Flights, Dispatch(f)
    PROVE  Promises'
<1> DEFINE token == flight[f].cred.token
<1>1. flight[f].stage = "intended" /\ account' = account /\ intent' = intent
  BY DEF Dispatch
<1>2. Shape(f) /\ flight'[f].cred = flight[f].cred
  BY DispatchShape DEF Base
<1>3. CASE flight'[f].stage = "closing" /\ flight'[f].dispatched = flight[f].dispatched
  BY <1>1, <1>2, <1>3, Plain, SameAccount
<1>4. CASE flight'[f].stage = "dispatched" /\ flight'[f].dispatched
  <2>1. ~Sent(token) /\ Outstanding(token) /\ intent.by = f
    BY <1>1 DEF Promises, Ready
  <2>2. \A g \in Flights \ {f} : /\ flight'[g].dispatched <=> flight[g].dispatched
                                 /\ flight'[g].cred = flight[g].cred
    BY <1>2 DEF Shape, Like
  <2>3. Accounted'
    BY <1>1, <1>2, <2>1, <2>2 DEF Promises, Accounted, Usable, Outstanding
  <2>4. SentOnce'
    BY <1>2, <2>1, <2>2 DEF Promises, SentOnce, Sent
  <2>5. Ready(f)'
    BY <1>4 DEF Ready
  <2> QED BY <1>1, <1>2, <2>3, <2>4, <2>5, Alone DEF Promises, Holding
<1> QED BY <1>3, <1>4, DispatchShape DEF Base

LEMMA ClearKeeps ==
    ASSUME Base, Promises, HoldsLock, NEW f \in Flights, Clear(f)
    PROVE  Promises'
<1> DEFINE token == flight[f].cred.token
<1>1. /\ flight[f].stage = "clearing" /\ account' = account
      /\ intent' = IF intent.token = token THEN NoIntent ELSE intent
  BY DEF Clear, At
<1>2. /\ Shape(f) /\ flight'[f].dispatched = flight[f].dispatched
      /\ flight'[f].cred = flight[f].cred /\ flight'[f].stage = "closing"
  BY ClearShape DEF Base
<1>3. CASE intent' = intent
  BY <1>1, <1>2, <1>3, Plain, SameAccount
<1>4. CASE intent' = NoIntent /\ intent.token = token
  <2>1. ~Usable(token)
    BY <1>1 DEF Promises, Ready
  <2>2. \A g \in Flights : /\ flight'[g].dispatched <=> flight[g].dispatched
                           /\ flight'[g].cred = flight[g].cred
    BY <1>2 DEF Shape, Like
  <2>3. \A g \in Flights : flight[g].dispatched => ~Usable(flight[g].cred.token)
    BY <1>4, <2>1 DEF Promises, Accounted, Outstanding
  <2>4. ~intent'.there
    BY <1>4 DEF NoIntent
  <2>5. Accounted'
    BY <1>1, <2>2, <2>3, <2>4 DEF Accounted, Usable, Outstanding
  <2>6. SentOnce'
    BY <2>2 DEF Promises, SentOnce
  <2>7. Ready(f)'
    BY <1>2 DEF Ready
  <2> QED BY <1>1, <1>2, <2>5, <2>6, <2>7, Alone DEF Promises, Holding
<1> QED BY <1>1, <1>3, <1>4

\* The steps from an answer, good or bad, to the removal of the intent.
LEMMA ClearingKeeps ==
    ASSUME Promises, NEW f \in Flights, Shape(f),
           flight'[f].dispatched = flight[f].dispatched, flight'[f].cred = flight[f].cred,
           flight'[f].stage = "clearing", ~StillUsable(flight[f].cred.token),
           intent' = intent,
           \A g \in Flights : StillUsable(flight[g].cred.token) => Usable(flight[g].cred.token)
    PROVE  Promises'
<1>1. \A g \in Flights \ {f} : Passes(g)
  BY DEF Shape, Like, Passes
<1>2. Passes(f)
  BY DEF Passes
<1> QED BY <1>1, <1>2, Ordinary

LEMMA RefuseKeeps ==
    ASSUME Base, Promises, NEW f \in Flights, Refuse(f)
    PROVE  Promises'
<1>1. intent' = intent
  BY DEF Refuse
<1>2. flight[f].cred.token \in Tokens
  BY DEF Base, Typed, FlightRecords, Credentials
<1>3. /\ Shape(f) /\ flight'[f].dispatched = flight[f].dispatched
      /\ flight'[f].cred = flight[f].cred
  BY RefuseShape DEF Base
<1>4. CASE flight'[f].stage = "closing" /\ account' = account
  BY <1>1, <1>3, <1>4, Plain, SameAccount
<1>5. CASE flight'[f].stage = "clearing" /\ account' = Flagged(flight[f].cred.token)
  <2>1. /\ \A t : StillUsable(t) => Usable(t)
        /\ ~StillUsable(flight[f].cred.token)
    BY <1>2, <1>5, FlagUsesUp DEF Base
  <2> QED BY <1>1, <1>3, <1>5, <2>1, ClearingKeeps
<1> QED BY <1>4, <1>5, RefuseShape DEF Base

LEMMA MergeKeeps ==
    ASSUME Base, Promises, NEW f \in Flights, Merge(f)
    PROVE  Promises'
<1> DEFINE token == flight[f].cred.token
<1>1. intent' = intent /\ flight[f].stage = "answered"
  BY DEF Merge, At
<1>2. /\ Shape(f) /\ flight'[f].dispatched = flight[f].dispatched
      /\ flight'[f].cred = flight[f].cred
  BY MergeShape DEF Base
<1>3. CASE flight'[f].stage = "closing" /\ account' = account
  BY <1>1, <1>2, <1>3, Plain, SameAccount
<1>4. CASE /\ flight'[f].stage = "clearing" /\ account.there
           /\ account' = Merged(token, flight[f].fresh)
  <2>1. CASE Matches(token)
    <3>1. account'.cred = flight[f].fresh /\ account.cred.token = token
      BY <1>4, <2>1 DEF Merged, Matches, Base, Typed
    <3>2. token < flight[f].fresh.token
      BY <1>1 DEF Base, Numbered
    <3>3. \A g \in Flights : flight[g].cred.token <= token
      BY <3>1 DEF Base, Numbered
    <3>4. /\ flight[f].fresh.token \in Nat /\ token \in Nat
          /\ \A g \in Flights : flight[g].cred.token \in Nat
      BY DEF Base, Typed, FlightRecords, Credentials, Tokens
    <3>5. \A g \in Flights : ~StillUsable(flight[g].cred.token)
      BY <3>1, <3>2, <3>3, <3>4 DEF StillUsable
    <3> QED BY <1>1, <1>2, <1>4, <3>5, ClearingKeeps
  <2>2. CASE ~Matches(token)
    <3>1. account' = account
      BY <1>4, <2>2 DEF Merged
    <3>2. ~StillUsable(token)
      BY <2>2, <3>1 DEF Matches, StillUsable
    <3> QED BY <1>1, <1>2, <1>4, <3>1, <3>2, ClearingKeeps, SameAccount
  <2> QED BY <2>1, <2>2
<1> QED BY <1>3, <1>4, MergeShape DEF Base

LEMMA StepKeeps ==
    ASSUME Base, Promises, HoldsLock, NEW f \in Flights, Step(f)
    PROVE  Promises'
<1>1. /\ flight[f].cred.token \in Tokens /\ flight[f].caller \in Tokens
      /\ Typed
  BY DEF Base, Typed, FlightRecords, Credentials
<1>2. CASE CreateLock(f) \/ JudgeLock(f)
  <2>1. PICK stage \in {"created", "unlinking"} : Goto(f, stage)
    BY <1>2 DEF CreateLock, JudgeLock
  <2>2. /\ flight[f].stage = "locking" /\ account' = account /\ intent' = intent
        /\ current' = current
    BY <1>2 DEF CreateLock, JudgeLock, At
  <2>3. stage \in Running /\ flight[f].stage \in Running /\ flight[f].stage \in Unsending
    BY <2>2, Stages DEF Unsending
  <2>4. /\ Shape(f) /\ flight'[f].stage = stage
        /\ flight'[f].dispatched = flight[f].dispatched /\ flight'[f].cred = flight[f].cred
    BY <1>1, <2>1, <2>2, <2>3, GotoShape
  <2> QED BY <2>2, <2>4, Plain, SameAccount
<1>3. CASE VerifyLock(f)
  <2>1. account' = account /\ intent' = intent
    BY <1>3 DEF VerifyLock
  <2> QED BY <1>1, <1>3, <2>1, VerifyShape, Plain, SameAccount
<1>4. CASE UnlinkLock(f)
  <2>1. account' = account /\ intent' = intent
    BY <1>4 DEF UnlinkLock
  <2> QED BY <1>1, <1>4, <2>1, UnlinkShape, Plain, SameAccount
<1>5. CASE GiveUp(f)
  <2>1. /\ account' = account /\ intent' = intent
        /\ flight[f].stage \in Running /\ Ends(f, flight)
    BY <1>5, Stages DEF GiveUp, At
  <2> QED BY <1>1, <2>1, EndsFlight, Plain, SameAccount
<1>6. CASE Answer(f)
  <2>1. account' = account /\ intent' = intent
    BY <1>6 DEF Answer
  <2> QED BY <1>1, <1>6, <2>1, AnswerShape, Plain, SameAccount
<1>7. CASE Condemn(f)
  <2>1. /\ flight[f].stage = "condemned" /\ current' = current /\ intent' = intent
        /\ Closing(f, TRUE) \/ Closing(f, FALSE)
        /\ account' = account \/ account' = Flagged(flight[f].cred.token)
    BY <1>7 DEF Condemn, At, Unsaved
  <2>2. /\ Shape(f) /\ flight'[f].stage = "closing"
        /\ flight'[f].dispatched = flight[f].dispatched /\ flight'[f].cred = flight[f].cred
    BY <1>1, <2>1, ClosingShape, Stages
  <2> QED BY <1>1, <2>1, <2>2, Plain, SameAccount, FlagUsesUp
<1>8. CASE Release(f)
  <2>1. account' = account /\ intent' = intent
    BY <1>8 DEF Release
  <2> QED BY <1>1, <1>8, <2>1, ReleaseShape, Plain, SameAccount
<1>9. CASE RemoveLock(f)
  <2>1. /\ account' = account /\ intent' = intent
        /\ flight[f].stage \in Running /\ Ends(f, Robbed(f))
    BY <1>9, Stages DEF RemoveLock
  <2> QED BY <1>1, <2>1, RemoveShape, Plain, SameAccount
<1>10. CASE Settle(f)
  <2>1. intent' = intent /\ account' \in {account, Flagged(flight[f].caller)}
    BY <1>10 DEF Settle
  <2>2. Shape(f) /\ Finishes(f)
    BY <1>1, <1>10, SettleShape
  <2> QED BY <1>1, <2>1, <2>2, Plain, SameAccount, FlagUsesUp DEF Finishes
<1> QED BY <1>2, <1>3, <1>4, <1>5, <1>6, <1>7, <1>8, <1>9, <1>10, ReadKeeps, ExamineKeeps,
           IntendKeeps, DispatchKeeps, RefuseKeeps, MergeKeeps, ClearKeeps DEF Step

LEMMA HoldsLockStep ==
    ASSUME Typed, HoldsLock, [Next]_vars, Kept'
    PROVE  HoldsLock'
<1>1. ASSUME NEW f \in Flights, Step(f) PROVE HoldsLock'
  <2>1. Shape(f)
    BY <1>1, StepShape
  <2>2. \A g \in Flights \ {f} : flight'[g].stage = flight[g].stage
    BY <2>1 DEF Shape, Like
  <2>3. CASE /\ lock' = lock
             /\ flight'[f].stage \in Holding => flight[f].stage \in Holding
    BY <2>2, <2>3 DEF HoldsLock
  <2>4. CASE CreateLock(f)
    <3>1. ~lock.there /\ lock'.there /\ lock'.by = f
      BY <2>4 DEF CreateLock
    <3> QED BY <2>2, <3>1 DEF HoldsLock
  <2>5. ASSUME lock' = NoLock, flight'[f].stage \notin Holding,
               \A g \in Flights \ {f} : flight'[g] = Robbed(f)[g]
        PROVE  HoldsLock'
    <3>1. ASSUME NEW g \in Flights \ {f}, flight[g].stage \in Holding PROVE FALSE
      <4>1. lock.by = g
        BY <3>1 DEF HoldsLock
      <4>2. flight[g].stage \in Running \ {"closing", "removing", "settling"}
        BY <3>1, Stages DEF Holding
      <4>3. Robbed(f)[g] = [flight[g] EXCEPT !.robbed = TRUE]
        BY <3>1, <4>1, <4>2 DEF Robbed
      <4>4. flight'[g].robbed
        BY <2>5, <4>3 DEF Typed, FlightRecords
      <4> QED BY <4>4 DEF Kept
    <3> QED BY <2>2, <2>5, <3>1 DEF HoldsLock
  <2>6. CASE UnlinkLock(f)
    BY <2>5, <2>6, UnlinkShape DEF UnlinkLock, Holding
  <2>7. CASE RemoveLock(f)
    <3>1. lock' = NoLock /\ flight[f].stage \in Running /\ Ends(f, Robbed(f))
      BY <2>7, Stages DEF RemoveLock
    <3> QED BY <2>5, <3>1, RemoveShape DEF Holding
  <2>8. CASE VerifyLock(f)
    BY <2>3, <2>8 DEF VerifyLock, Holding
  <2>9. CASE JudgeLock(f)
    <3>1. flight'[f].stage = "unlinking" /\ lock' = lock
      BY <2>9, GotoShape, Stages DEF JudgeLock, At, Unsending
    <3> QED BY <2>3, <3>1 DEF Holding
  <2>10. CASE GiveUp(f)
    <3>1. lock' = lock /\ flight[f].stage \in Running /\ Ends(f, flight)
      BY <2>10, Stages DEF GiveUp, At
    <3> QED BY <2>3, <3>1, EndsFlight DEF Holding
  <2>11. CASE Release(f)
    BY <2>3, <2>11, ReleaseShape DEF Release, Holding
  <2>12. CASE Settle(f)
    BY <2>3, <2>12, SettleShape DEF Settle, Finishes, Holding
  <2>13. CASE \/ ReadAccount(f) \/ Examine(f) \/ Intend(f) \/ Dispatch(f) \/ Answer(f)
              \/ Condemn(f) \/ Refuse(f) \/ Merge(f) \/ Clear(f)
    <3>1. flight[f].stage \in Holding /\ lock' = lock
      BY <2>13 DEF ReadAccount, Examine, Intend, Dispatch, Answer, Condemn, Refuse, Merge,
                   Clear, At, Holding
    <3> QED BY <2>3, <3>1
  <2> QED BY <1>1, <2>4, <2>6, <2>7, <2>8, <2>9, <2>10, <2>11, <2>12, <2>13 DEF Step
<1>2. ASSUME NEW f \in Flights, NEW p \in Processes, Ask(f, p) PROVE HoldsLock'
  <2>1. lock' = lock
    BY <1>2 DEF Ask
  <2>2. flight'[f].stage = "locking"
    BY <1>2, AskShape
  <2>3. \A g \in Flights \ {f} : flight'[g].stage = flight[g].stage
    BY <1>2, AskKeeps
  <2> QED BY <2>1, <2>2, <2>3 DEF HoldsLock, Holding
<1>3. ASSUME NEW p \in Processes, Crash(p) PROVE HoldsLock'
  <2>1. lock' = lock
    BY <1>3 DEF Crash
  <2>2. \A g \in Flights : flight'[g] = flight[g] \/ flight'[g].stage = "done"
    BY <1>3, CrashShape, OverFields
  <2> QED BY <2>1, <2>2 DEF HoldsLock, Holding
<1>4. CASE UNCHANGED <<lock, flight>>
  BY <1>4 DEF HoldsLock
<1> QED BY <1>1, <1>2, <1>3, <1>4 DEF Next, Expire, Login, Remove, Tick, vars

LEMMA PromisesStep ==
    ASSUME Base, Promises, HoldsLock, [Next]_vars
    PROVE  Promises'
<1>1. ASSUME NEW f \in Flights, Step(f) PROVE Promises'
  BY <1>1, StepKeeps
<1>2. ASSUME NEW f \in Flights, NEW p \in Processes, Ask(f, p) PROVE Promises'
  <2>1. account' = account /\ intent' = intent
    BY <1>2 DEF Ask
  <2>2. \A g \in Flights \ {f} : Passes(g)
    BY <1>2, AskKeeps DEF Base, Passes
  <2>3. ~flight[f].dispatched
    BY <1>2, AskShape DEF Base, Unsent, Unsending
  <2>4. ~flight'[f].dispatched /\ flight'[f].stage = "locking"
    BY <1>2, AskShape DEF Base
  <2>5. flight[f].dispatched \in BOOLEAN /\ flight'[f].dispatched \in BOOLEAN
    BY <1>2, AskShape DEF Base, Typed, FlightRecords
  <2>6. Passes(f)
    BY <2>3, <2>4, <2>5 DEF Passes
  <2> QED BY <2>1, <2>2, <2>6, Ordinary, SameAccount
<1>3. ASSUME NEW p \in Processes, Crash(p) PROVE Promises'
  <2>1. account' = account /\ intent' = intent
    BY <1>3 DEF Crash
  <2>2. \A g \in Flights : Passes(g)
    BY <1>3, CrashShape, OverFields DEF Base, Passes
  <2> QED BY <2>1, <2>2, Ordinary, SameAccount
<1>4. ASSUME UNCHANGED <<intent, flight>>,
             \A g \in Flights : StillUsable(flight[g].cred.token) => Usable(flight[g].cred.token)
      PROVE  Promises'
  <2>1. \A g \in Flights : Passes(g)
    BY <1>4 DEF Passes
  <2> QED BY <1>4, <2>1, Ordinary
<1>5. CASE Login
  <2>1. UNCHANGED <<intent, flight>> /\ account'.cred.token = issued + 1
    BY <1>5 DEF Login
  <2>2. \A g \in Flights : flight[g].cred.token <= issued
    BY DEF Base, Typed, Numbered, FlightRecords, Credentials, Tokens
  <2>3. issued \in Nat
    BY DEF Base, Typed, Tokens
  <2>4. \A g \in Flights : flight[g].cred.token # issued + 1
    BY <2>2, <2>3
  <2> QED BY <1>4, <2>1, <2>4 DEF StillUsable
<1>6. CASE Remove
  <2>1. UNCHANGED <<intent, flight>> /\ ~account'.there
    BY <1>6 DEF Remove, Base, Typed
  <2> QED BY <1>4, <2>1 DEF StillUsable
<1>7. CASE UNCHANGED <<account, intent, flight>>
  BY <1>4, <1>7, SameAccount
<1> QED BY <1>1, <1>2, <1>3, <1>5, <1>6, <1>7 DEF Next, Expire, Tick, vars

\* A grant is sent at most once as long as no running flight has lost its lock
\* file, whatever crashes, is refused, fails to be stored or is replaced.
THEOREM NeverSentTwice == Spec => []NeverReplayed
<1>1. Init => Safe
  <2>1. SUFFICES ASSUME Init PROVE Safe
    OBVIOUS
  <2>2. \A f \in Flights : flight[f].stage = "idle" /\ ~flight[f].dispatched
    BY <2>1 DEF Init, Waiting
  <2> QED BY <2>2 DEF Safe, HoldsLock, Promises, Accounted, SentOnce, Ready, Holding
<1>2. Base /\ Safe /\ [Next]_vars => Safe'
  BY KeptBefore, HoldsLockStep, PromisesStep DEF Base, Safe
<1>3. Safe => NeverReplayed
  BY DEF Safe, Promises, SentOnce, Kept, NeverReplayed
<1> QED BY <1>1, <1>2, <1>3, BaseInit, BaseStep, PTL DEF Spec
=============================================================================
