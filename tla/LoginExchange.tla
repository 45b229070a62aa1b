---------------------------- MODULE LoginExchange ----------------------------
(* What the switch of the native login promises: one login is active, every  *)
(* identity keeps its newest login, and only its user loses one by signing   *)
(* in over it.                                                               *)
EXTENDS Naturals

CONSTANTS Identities, Profiles, NoLogin

VARIABLES
    active,   \* the identity whose login native Codex uses, or NoLogin
    login,    \* the newest login that is kept of each identity; 0: none
    known     \* the login in use is one that may be exchanged

exchangeVars == <<active, login, known>>

Init ==
    /\ active \in Profiles
    /\ login \in [Identities -> Nat]
    /\ login[active] # 0
    /\ known = TRUE

\* A profile's login takes the place of one that is known, and none changes.
Exchange(p) ==
    /\ known
    /\ login[p] # 0
    /\ active' = p
    /\ UNCHANGED <<login, known>>

\* The login in use is refreshed by native Codex.
Refresh ==
    /\ active # NoLogin
    /\ login'[active] > login[active]
    /\ login' = [login EXCEPT ![active] = login'[active]]
    /\ UNCHANGED <<active, known>>

\* A profile is imported with a login of its own.
Import(p) ==
    /\ login[p] = 0
    /\ login'[p] # 0
    /\ login' = [login EXCEPT ![p] = login'[p]]
    /\ UNCHANGED <<active, known>>

\* The user signs out or in: the login in use is overwritten, so that at most
\* an older one of that identity is left.  Only this makes a login unknown, or
\* known again.
SignIn(i) ==
    /\ active' = i
    /\ known' \in BOOLEAN
    /\ DOMAIN login' = Identities
    /\ \A j \in Identities :
         CASE j = i -> login'[j] > login[j]
           [] j # i /\ j = active -> login'[j] <= login[j]
           [] OTHER -> login'[j] = login[j]

Next ==
    \/ \E p \in Profiles : Exchange(p) \/ Import(p)
    \/ Refresh
    \/ \E i \in Identities \cup {NoLogin} : SignIn(i)

Spec == Init /\ [][Next]_exchangeVars
=============================================================================
