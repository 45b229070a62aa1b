----------------------------- MODULE NativeGate -----------------------------
(* Who may use the native Codex login, and when it may be switched: the      *)
(* turns and drains of server/lifecycle.ts, the recovery gate of             *)
(* codex/native-profile-startup.ts, and the management requests that switch  *)
(* and recover (codex/native-profile-api.ts), around the switch itself.      *)
EXTENDS NativeSwitch, FiniteSets

CONSTANT Turns      \* the requests

ASSUME TurnsAssumption == IsFiniteSet(Turns)

VARIABLES
    gate,        \* what the snapshot of the startup gate says
    startup,     \* how far the convergence of a started server is
    api,         \* the management request that switches or recovers
    drain,       \* the one scoped drain: none, of the native login, of an update
    shutdown,    \* how far the shutdown is
    running,     \* the turns whose handlers run
    admitted,    \* of these, the ones whose lease has not been released
    selecting,   \* those in a selection that began before a drain did
    claimed      \* those that read the native login

turnVars == <<running, admitted, selecting, claimed>>
processVars == <<gate, startup, api, drain, shutdown>>
gateVars == <<switchVars, processVars, turnVars>>

Blocked == {"recovery-pending", "manual-recovery", "stage-cleanup-required"}

NoRequest == [at |-> "none", before |-> FALSE]

GateTypeOK ==
    /\ TypeOK
    /\ gate \in Blocked \cup {"ready"}
    /\ startup \in {"recover", "recovering", "sweep", "done"}
    /\ api \in [at : {"none", "waiting", "starting", "running"}, before : BOOLEAN]
    /\ drain \in {"none", "native", "update"}
    /\ shutdown \in {"no", "sealed", "draining", "stopping", "down"}
    /\ admitted \subseteq running /\ selecting \subseteq running
    /\ claimed \subseteq running /\ running \subseteq Turns

\* A server that has just started owns the recovery of what it finds.
Started ==
    /\ gate = "recovery-pending" /\ startup = "recover"
    /\ api = NoRequest /\ drain = "none" /\ shutdown = "no"
    /\ running = {} /\ admitted = {} /\ selecting = {} /\ claimed = {}

GateInit == Init /\ Started

\* Mutant: open selections are not counted.
ClaimsCount == Cardinality(claimed \cap admitted)

\* getNativeMainProfileRequestCount()
RequestCount == Cardinality(selecting) + Cardinality(claimed \cap admitted)

ShutdownDraining == shutdown # "no"

-----------------------------------------------------------------------------
(* Turns.                                                                    *)

\* tryAdmitTurn(): the native drain alone keeps nobody out.
AdmitTurn(r) ==
    /\ r \notin running
    /\ ~ShutdownDraining /\ drain # "update"
    /\ running' = running \cup {r}
    /\ admitted' = admitted \cup {r}
    /\ UNCHANGED <<switchVars, processVars, selecting, claimed>>

\* The preview of a subagent's request holds its selection over an await.
BeginSelection(r) ==
    /\ r \in running \ (selecting \cup claimed)
    /\ drain # "native"
    /\ selecting' = selecting \cup {r}
    /\ UNCHANGED <<switchVars, processVars, running, admitted, claimed>>

EndSelection(r) ==
    /\ r \in selecting
    /\ selecting' = selecting \ {r}
    /\ UNCHANGED <<switchVars, processVars, running, admitted, claimed>>

\* The gate is read, the selection made, the claim taken and the login read in
\* one stretch; a released lease claims nothing.
ClaimMainProfile(r) ==
    /\ r \in admitted \ (selecting \cup claimed)
    /\ gate = "ready" /\ drain # "native"
    /\ claimed' = claimed \cup {r}
    /\ UNCHANGED <<switchVars, processVars, running, admitted, selecting>>

\* Mutant: the claim is not given back.
EndTurnClaimed(r) ==
    /\ r \in running \ selecting
    /\ running' = running \ {r}
    /\ admitted' = admitted \ {r}
    /\ UNCHANGED <<switchVars, processVars, selecting, claimed>>

EndTurn(r) ==
    /\ r \in running \ selecting
    /\ running' = running \ {r}
    /\ admitted' = admitted \ {r}
    /\ claimed' = claimed \ {r}
    /\ UNCHANGED <<switchVars, processVars, selecting>>

-----------------------------------------------------------------------------
(* A management request that switches or recovers: it fences the login,      *)
(* waits for the turns that use it, and moves the gate when it ends.         *)

AcquireNativeDrain ==
    /\ ~ShutdownDraining /\ drain = "none" /\ api = NoRequest
    /\ drain' = "native"
    /\ api' = [api EXCEPT !.at = "waiting"]
    /\ UNCHANGED <<switchVars, gate, startup, shutdown, turnVars>>

\* The turns did not finish before the deadline.
GiveUp ==
    /\ api.at = "waiting"
    /\ RequestCount > 0
    /\ api' = NoRequest /\ drain' = "none"
    /\ UNCHANGED <<switchVars, gate, startup, shutdown, turnVars>>

ProbeBefore ==
    /\ api.at = "waiting"
    /\ RequestCount = 0
    /\ api' = [at |-> "starting", before |-> journal # NoJournal]
    /\ UNCHANGED <<switchVars, gate, startup, drain, shutdown, turnVars>>

\* The convergence holds the claim on the login until it has recovered.
RunOperation ==
    /\ api.at = "starting"
    /\ startup \in {"sweep", "done"}
    /\ \/ \E t \in Profiles : Switch(t)
       \/ \E rollback \in BOOLEAN : Recover(rollback)
       \/ RecoverNothing
    /\ api' = [api EXCEPT !.at = "running"]
    /\ UNCHANGED <<gate, startup, drain, shutdown, turnVars>>

\* Mutant: a failed operation does not release its drain.
ConcludeFenced(failed) ==
    /\ drain' = IF failed THEN drain ELSE "none"
    /\ api' = NoRequest
    /\ UNCHANGED <<switchVars, gate, startup, shutdown, turnVars>>

\* withRecoveryGateTransition(), and the release of the drain.
Conclude(failed) ==
    /\ gate' = IF journal # NoJournal THEN "recovery-pending"
               ELSE IF /\ gate \in {"recovery-pending", "manual-recovery"}
                       /\ api.before \/ ~failed
               THEN "ready" ELSE gate
    /\ api' = NoRequest /\ drain' = "none"
    /\ UNCHANGED <<switchVars, startup, shutdown, turnVars>>

\* A lock or a claim may be refused before the operation begins.
EndRequest ==
    \/ api.at = "starting" /\ Conclude(TRUE)
    \/ api.at = "running" /\ Rests /\ Conclude(op.plan = "failed")

-----------------------------------------------------------------------------
(* convergeOwnedStartup() and the sweeps of abandoned staging directories.   *)

Converge ==
    \/ /\ startup = "recover"
       /\ IF journal = NoJournal
          THEN startup' = "sweep" /\ UNCHANGED switchVars
          ELSE startup' = "recovering" /\ Recover(FALSE)
       /\ UNCHANGED gate
    \/ /\ startup = "recover"          \* the claim is not had in time
       /\ startup' = "done" /\ gate' = "manual-recovery"
       /\ UNCHANGED switchVars
    \/ /\ startup = "recovering" /\ Rests
       /\ IF journal = NoJournal /\ op.plan = "done"
          THEN startup' = "sweep" /\ UNCHANGED gate
          ELSE startup' = "done" /\ gate' = "manual-recovery"
       /\ UNCHANGED switchVars

\* The first sweep opens the gate over what was probed before it.  A sweep
\* that does not get the lock of an operation in time counts as unsafe.
FirstSweep(safe) ==
    /\ startup = "sweep"
    /\ safe => Rests
    /\ startup' = "done"
    /\ gate' = IF safe THEN "ready" ELSE "stage-cleanup-required"
    /\ UNCHANGED switchVars

StageSweep(safe) ==
    /\ startup = "done"
    /\ safe => Rests
    /\ gate' = IF ~safe THEN "stage-cleanup-required"
               ELSE IF gate = "stage-cleanup-required" THEN "ready" ELSE gate
    /\ UNCHANGED <<switchVars, startup>>

Lifecycle ==
    /\ Converge \/ \E safe \in BOOLEAN : FirstSweep(safe) \/ StageSweep(safe)
    /\ UNCHANGED <<api, drain, shutdown, turnVars>>

-----------------------------------------------------------------------------
(* The update's fence and the shutdown.                                      *)

AcquireUpdateFence ==
    /\ ~ShutdownDraining /\ drain = "none"
    /\ drain' = "update"
    /\ UNCHANGED <<switchVars, gate, startup, api, shutdown, turnVars>>

ReleaseUpdateFence ==
    /\ drain = "update"
    /\ drain' = "none"
    /\ UNCHANGED <<switchVars, gate, startup, api, shutdown, turnVars>>

\* The user may approve that the turns in flight are interrupted.
SealForUpdate(approved) ==
    /\ drain = "update"
    /\ approved \/ admitted = {}
    /\ shutdown' = IF ShutdownDraining THEN shutdown ELSE "sealed"
    /\ admitted' = {}
    /\ drain' = "none"
    /\ UNCHANGED <<switchVars, gate, startup, api, running, selecting, claimed>>

BeginShutdown ==
    /\ shutdown \in {"no", "sealed"}
    /\ shutdown' = "draining"
    /\ UNCHANGED <<switchVars, gate, startup, api, drain, turnVars>>

\* The drains settle and the turns end, or the deadline passes and the turns are
\* aborted: their leases are released while their handlers may still run.
EndTurns ==
    /\ shutdown = "draining"
    /\ shutdown' = "stopping"
    /\ admitted' = {}
    /\ UNCHANGED <<switchVars, gate, startup, api, drain, running, selecting, claimed>>

\* Mutant: it waits for the handlers too.
StopAfterTurns ==
    /\ shutdown = "stopping"
    /\ startup = "done" /\ api.at \notin {"starting", "running"}
    /\ running = {}
    /\ shutdown' = "down"
    /\ UNCHANGED <<switchVars, gate, startup, api, drain, turnVars>>

\* The convergence and the operation under way are waited for, and the process
\* ends with what its handlers held.
Stop ==
    /\ shutdown = "stopping"
    /\ startup = "done" /\ api.at \notin {"starting", "running"}
    /\ shutdown' = "down"
    /\ api' = NoRequest /\ drain' = "none"
    /\ running' = {} /\ admitted' = {} /\ selecting' = {} /\ claimed' = {}
    /\ UNCHANGED <<switchVars, gate, startup>>

\* The process is killed or has ended, and another one starts.
Restart ==
    /\ Crash
    /\ gate' = "recovery-pending" /\ startup' = "recover"
    /\ api' = NoRequest /\ drain' = "none" /\ shutdown' = "no"
    /\ running' = {} /\ admitted' = {} /\ selecting' = {} /\ claimed' = {}

Serving == shutdown # "down"

GateNext ==
    \/ Operate /\ UNCHANGED <<processVars, turnVars>>
    \/ Outside /\ UNCHANGED <<processVars, turnVars>>
    \/ \E r \in Turns : \/ AdmitTurn(r) \/ BeginSelection(r) \/ EndSelection(r)
                        \/ ClaimMainProfile(r) \/ EndTurn(r)
    \/ AcquireNativeDrain \/ GiveUp \/ ProbeBefore \/ RunOperation \/ EndRequest
    \/ Serving /\ Lifecycle
    \/ AcquireUpdateFence \/ ReleaseUpdateFence
    \/ \E approved \in BOOLEAN : SealForUpdate(approved)
    \/ BeginShutdown \/ EndTurns \/ Stop \/ Restart

GateSpec == GateInit /\ [][GateNext]_gateVars

\* Promise chains and timers make progress; nobody has to begin anything.
Progress ==
    /\ WF_gateVars(Operate /\ UNCHANGED <<processVars, turnVars>>)
    /\ WF_gateVars(GiveUp \/ ProbeBefore)
    /\ WF_gateVars(EndRequest)
    /\ WF_gateVars(Converge /\ UNCHANGED <<api, drain, shutdown, turnVars>>)
    /\ WF_gateVars((\E safe \in BOOLEAN : FirstSweep(safe))
                   /\ UNCHANGED <<api, drain, shutdown, turnVars>>)
    /\ WF_gateVars(EndTurns) /\ WF_gateVars(Stop)

FairGateSpec == GateSpec /\ Progress

-----------------------------------------------------------------------------

\* A switch has the native login to itself: while its files are being written no
\* admitted turn uses the login it read, none reads it, and no selection is open
\* in which it could (acquireNativeMainProfileDrain, withMainRequestDrain; a
\* recovery at startup leaves auth.json alone and bears with selections).
AloneWithTheLogin ==
    Writing => /\ claimed \cap admitted = {}
               /\ startup # "recovering" => selecting = {}

\* The login is not fenced for good: whatever fails, the request that fenced it
\* ends and lets new turns select it again.
DrainEnds == drain = "native" ~> drain # "native"

\* A shutdown ends however the turns, the drains and a switch under way behave.
ShutdownEnds == shutdown = "draining" ~> shutdown \in {"down", "no"}
=============================================================================
