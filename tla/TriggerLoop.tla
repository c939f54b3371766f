----------------------------- MODULE TriggerLoop -----------------------------
(***************************************************************************)
(* The loop that the Reconciler, the Kea Syncer and the LeasePoller share: *)
(* a ticker, a trigger channel of capacity one that handlers fill without  *)
(* blocking, the application context, and one run at a time.  Handlers     *)
(* commit to the store and only then call Trigger, so a run that has read  *)
(* the store already must be followed by another.                          *)
(***************************************************************************)
EXTENDS Naturals

CONSTANTS
    Handlers,       \* concurrent HTTP and MCP request handlers
    MaxVersion,     \* bound: mutations committed
    MaxRestarts     \* bound: times the target comes back empty

ASSUME BoundsAreNaturals == MaxVersion \in Nat /\ MaxRestarts \in Nat

VARIABLES
    client,      \* whether a client was built, i.e. the URL is configured
    version,     \* mutations the store has committed
    owes,        \* per handler: the version it committed and has not
                 \* triggered a run for, 0 when it owes nothing
    triggered,   \* the newest version whose handler has called Trigger
    trigger,     \* tokens in the trigger channel (capacity 1)
    tick,        \* ticks in the ticker's channel (capacity 1)
    phase,       \* where the goroutine running Start is
    loaded,      \* the version the latest successful read saw
    status,      \* the outcome of the latest run, as Status() shows it
    applied,     \* the version the target holds
    restarts,    \* how often the target has restarted
    cancelled    \* the application context is done

storeVars == <<version, owes, triggered>>
wakeVars  == <<trigger, tick>>
runVars   == <<phase, loaded, status>>
hostVars  == <<client, restarts, cancelled>>
vars      == <<storeVars, wakeVars, runVars, applied, hostVars>>

Versions == 0..MaxVersion

TypeOK ==
    /\ client \in BOOLEAN
    /\ version \in Versions
    /\ owes \in [Handlers -> Versions]
    /\ triggered \in Versions
    /\ trigger \in {0, 1}
    /\ tick \in {0, 1}
    /\ phase \in {"initial", "select", "reading", "pushing", "stopped"}
    /\ loaded \in Versions
    /\ status \in {"never", "ok", "failed"}
    /\ applied \in Versions
    /\ restarts \in 0..MaxRestarts
    /\ cancelled \in BOOLEAN

Init ==
    /\ client \in BOOLEAN
    /\ version = 0
    /\ owes = [h \in Handlers |-> 0]
    /\ triggered = 0
    /\ trigger = 0
    /\ tick = 0
    /\ phase = "initial"
    /\ loaded = 0
    /\ status = "never"
    /\ applied = 0
    /\ restarts = 0
    /\ cancelled = FALSE

-----------------------------------------------------------------------------
\* Handlers

\* A handler that will resync commits its mutation.
Commit(h) ==
    /\ owes[h] = 0
    /\ version < MaxVersion
    /\ version' = version + 1
    /\ owes' = [owes EXCEPT ![h] = version + 1]
    /\ UNCHANGED <<triggered, wakeVars, runVars, applied, hostVars>>

\* A mutation that asks for no run: the provider handlers, for instance.
CommitSilently ==
    /\ version < MaxVersion
    /\ version' = version + 1
    /\ UNCHANGED <<owes, triggered, wakeVars, runVars, applied, hostVars>>

\* Mutants: an unbuffered channel, whose send succeeds only while the loop waits
\* in select; and a channel without the capacity bound.
FillUnbuffered == trigger' = IF client /\ phase = "select" THEN 1 ELSE trigger
FillUnbounded == trigger' = IF client THEN trigger + 1 ELSE trigger

\* The channel send with a default branch: a full channel drops the token, a
\* loop without a client takes none.
FillTrigger == trigger' = IF client THEN 1 ELSE trigger

Trigger(h) ==
    /\ owes[h] # 0
    /\ FillTrigger
    /\ triggered' = IF owes[h] > triggered THEN owes[h] ELSE triggered
    /\ owes' = [owes EXCEPT ![h] = 0]
    /\ UNCHANGED <<version, tick, runVars, applied, hostVars>>

\* The buttons that ask for a run without having changed anything.
SyncNow ==
    /\ FillTrigger
    /\ UNCHANGED <<storeVars, tick, runVars, applied, hostVars>>

-----------------------------------------------------------------------------
\* The goroutine

\* The first run needs no trigger; without a client there is none at all.
Start ==
    /\ phase = "initial"
    /\ phase' = IF client THEN "reading" ELSE "stopped"
    /\ UNCHANGED <<storeVars, wakeVars, loaded, status, applied, hostVars>>

\* The ticker exists once the first run is over; its channel drops ticks that
\* find it full.
Tick ==
    /\ phase \notin {"initial", "stopped"}
    /\ tick = 0
    /\ tick' = 1
    /\ UNCHANGED <<storeVars, trigger, runVars, applied, hostVars>>

\* Mutants: a loop that does not watch the context; a loop without a ticker.
NeverDone == FALSE
NeverTicks == FALSE

\* select picks any ready branch.
WakeOnDone ==
    /\ phase = "select"
    /\ cancelled
    /\ phase' = "stopped"
    /\ UNCHANGED <<storeVars, wakeVars, loaded, status, applied, hostVars>>

WakeOnTick ==
    /\ phase = "select"
    /\ tick = 1
    /\ tick' = 0
    /\ phase' = "reading"
    /\ UNCHANGED <<storeVars, trigger, loaded, status, applied, hostVars>>

WakeOnTrigger ==
    /\ phase = "select"
    /\ trigger = 1
    /\ trigger' = 0
    /\ phase' = "reading"
    /\ UNCHANGED <<storeVars, tick, loaded, status, applied, hostVars>>

\* A query under a cancelled context fails.
ReadStore ==
    /\ phase = "reading"
    /\ ~cancelled
    /\ loaded' = version
    /\ phase' = "pushing"
    /\ UNCHANGED <<storeVars, wakeVars, status, applied, hostVars>>

\* Mutant: the error is dropped and what was built so far, nothing, is pushed.
ReadErrorDropped ==
    /\ phase = "reading"
    /\ loaded' = 0
    /\ phase' = "pushing"
    /\ UNCHANGED <<storeVars, wakeVars, status, applied, hostVars>>

ReadFails ==
    /\ phase = "reading"
    /\ status' = "failed"
    /\ phase' = "select"
    /\ UNCHANGED <<storeVars, wakeVars, loaded, applied, hostVars>>

Push ==
    /\ phase = "pushing"
    /\ ~cancelled
    /\ applied' = loaded
    /\ status' = "ok"
    /\ phase' = "select"
    /\ UNCHANGED <<storeVars, wakeVars, loaded, hostVars>>

\* The call was refused, timed out or was cancelled; it may have taken effect.
PushFails ==
    /\ phase = "pushing"
    /\ applied' \in {applied, loaded}
    /\ status' = "failed"
    /\ phase' = "select"
    /\ UNCHANGED <<storeVars, wakeVars, loaded, hostVars>>

-----------------------------------------------------------------------------
\* The target and the process

\* Kea keeps the pushed configuration in memory and restarts without it.
TargetRestarts ==
    /\ restarts < MaxRestarts
    /\ restarts' = restarts + 1
    /\ applied' = 0
    /\ UNCHANGED <<storeVars, wakeVars, runVars, client, cancelled>>

Cancel ==
    /\ cancelled' = TRUE
    /\ UNCHANGED <<storeVars, wakeVars, runVars, applied, client, restarts>>

Next ==
    \/ \E h \in Handlers : Commit(h) \/ Trigger(h)
    \/ CommitSilently \/ SyncNow
    \/ Start \/ Tick
    \/ WakeOnDone \/ WakeOnTick \/ WakeOnTrigger
    \/ ReadStore \/ ReadFails \/ Push \/ PushFails
    \/ TargetRestarts \/ Cancel

(***************************************************************************)
(* The goroutine is scheduled and the ticker runs.  select chooses among   *)
(* ready branches at random, so a branch that is ready again and again is  *)
(* taken.  Reads and pushes that are tried for ever do not fail for ever.  *)
(***************************************************************************)
Fairness ==
    /\ WF_vars(Start)
    /\ WF_vars(Tick)
    /\ WF_vars(WakeOnTick \/ WakeOnTrigger)
    /\ SF_vars(WakeOnDone)
    /\ WF_vars(ReadStore \/ ReadFails)
    /\ SF_vars(ReadStore)
    /\ WF_vars(Push \/ PushFails)
    /\ SF_vars(Push)

Spec == Init /\ [][Next]_vars /\ Fairness

-----------------------------------------------------------------------------
\* Once a run that reports success is over and no trigger is pending, every
\* mutation whose handler has called Trigger was in what that run read: a
\* trigger that arrives while a run is under way is not swallowed by it.
StatusHonest ==
    phase = "select" /\ status = "ok" /\ trigger = 0 => triggered <= loaded

\* Cancelling the application context stops the loop, although ticks and
\* triggers keep arriving.
ShutsDown == cancelled ~> (phase = "stopped")

\* The loop is an implementation of the mirror: pushes move the target forward
\* only, and what was committed reaches it, even when its run failed, when the
\* handler triggered nothing, or when the target restarted.
MirrorOfStore == INSTANCE Mirror WITH closed <- (phase = "stopped")
MirrorIsSafe == MirrorOfStore!Safe
MirrorCatchesUp == MirrorOfStore!CatchesUp

=============================================================================
