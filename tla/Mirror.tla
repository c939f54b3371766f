------------------------------- MODULE Mirror -------------------------------
(***************************************************************************)
(* What each of netdb's background loops promises: the target (Kea's       *)
(* configuration, a provider's zones) follows the store.  A push only ever *)
(* takes it forward, to a version the store has held; a target that        *)
(* restarts empty is filled again; and while the loop runs the target does *)
(* not stay behind a committed version for ever.                           *)
(***************************************************************************)
EXTENDS Naturals

CONSTANT MaxVersion

VARIABLES
    version,   \* how many mutations the store has committed
    applied,   \* the version the target holds; 0 is an empty target
    restarts,  \* how often the target has come back empty
    closed     \* no loop serves the target: stopped, or never configured

mirrorVars == <<version, applied, restarts, closed>>

Init ==
    /\ version = 0
    /\ applied = 0
    /\ restarts = 0
    /\ closed = FALSE

Mutate ==
    /\ version' = version + 1
    /\ UNCHANGED <<applied, restarts, closed>>

Advance ==
    /\ ~closed
    /\ applied' \in (applied + 1)..version
    /\ UNCHANGED <<version, restarts, closed>>

Lose ==
    /\ applied' = 0
    /\ restarts' = restarts + 1
    /\ UNCHANGED <<version, closed>>

Close ==
    /\ closed' = TRUE
    /\ UNCHANGED <<version, applied, restarts>>

Next == Mutate \/ Advance \/ Lose \/ Close

Safe == Init /\ [][Next]_mirrorVars

\* A committed version reaches the target unless the loop has stopped.
CatchesUp ==
    \A v \in 1..MaxVersion :
        [](version >= v => <>(applied >= v \/ closed))

=============================================================================
