-------------------------------- MODULE Netdb --------------------------------
(***************************************************************************)
(* The way of a mutation to the DNS: a handler commits it, synthesizes the *)
(* records and only then triggers the reconciler; an MCP tool commits it   *)
(* and triggers the reconciler without synthesizing; the reconciler reads  *)
(* the records of one zone after the other and writes each zone to the     *)
(* provider.  The process may die at any moment and start again: requests, *)
(* the trigger and the run are lost, tables and provider are not.          *)
(*                                                                         *)
(* Tables and synth.Run are those of Synth.  The calls with which a zone   *)
(* is written are one step here (Reconcile has them one by one), and every *)
(* zone is linked to the one provider.                                     *)
(***************************************************************************)
EXTENDS Synth

CONSTANT Faults    \* whether queries and calls fail and the process dies

ASSUME FaultsOrNot == Faults \in BOOLEAN

VARIABLES
    request,    \* handler -> "none", "resync" or "sync": what it is serving
    calls,      \* MCP tools that have committed and not triggered yet
    trigger,    \* whether there is a token in the reconciler's channel
    loop,       \* the reconciler's run
    untold,     \* a commit that triggers nothing, since the run began
    provider    \* zone -> the records that the provider holds in it

systemVars == <<request, calls, trigger, loop, untold, provider>>
allVars == <<vars, systemVars>>

Loop(phase) == [phase |-> phase, todo |-> {}, zone |-> 0, want |-> {}, failed |-> FALSE]
Resting == loop.phase = "select"

\* What ListDesiredRecordsByZone gives for a zone.
KeysOfZone(z) ==
    {k \in DOMAIN db.auto : db.auto[k].zone = z} \union
    {k \in DOMAIN db.manual : db.manual[k] = z}
DesiredOf(z) ==
    UNION {{<<k.name, k.type, v>> : v \in PushedValues(k)} : k \in KeysOfZone(z)}

SystemTypeOK ==
    /\ TypeOK
    /\ request \in [Handlers -> {"none", "resync", "sync"}]
    /\ \A h \in Handlers : ~At(h, "idle") => request[h] # "none"
    /\ calls \in 0..MaxEdits
    /\ trigger \in BOOLEAN /\ untold \in BOOLEAN
    /\ loop.phase \in {"initial", "select", "zones"}
    /\ loop.zone \in loop.todo \union {0} /\ loop.todo \subseteq Zones
    /\ DOMAIN provider = Zones

SystemInit ==
    /\ Init
    /\ request = [h \in Handlers |-> "none"]
    /\ calls = 0
    /\ trigger = FALSE
    /\ loop = Loop("initial")
    /\ untold = FALSE
    /\ provider = [z \in Zones |-> {}]

-----------------------------------------------------------------------------
\* Handlers

\* Mutant: the reconciler is triggered first and the records synthesized then.
AsksAtOnce(h, kind) ==
    /\ trigger' = TRUE
    /\ UNCHANGED request

Asks(h, kind) ==
    /\ request' = [request EXCEPT ![h] = kind]
    /\ UNCHANGED trigger

\* A mutation, or the button that synchronises.
Serve(h) ==
    /\ request[h] = "none"
    /\ \/ Mutate /\ Resyncs(h) /\ Asks(h, "resync")
       \/ SyncNow(h) /\ Asks(h, "sync")
    /\ UNCHANGED <<calls, loop, untold, provider>>

\* resync goes on when synth.Run fails, syncNow gives up.
After(h, ok) ==
    [request EXCEPT ![h] = IF ok \/ @ = "resync" THEN @ ELSE "none"]

Synthesizes(h) ==
    /\ Advance(h)
    /\ request' = After(h, At(h, "apply") => Applicable(run[h].desired))
    /\ UNCHANGED <<calls, trigger, loop, untold, provider>>

SynthFails(h) ==
    /\ Faults
    /\ RunFails(h)
    /\ request' = After(h, FALSE)
    /\ UNCHANGED <<calls, trigger, loop, untold, provider>>

Trigger(h) ==
    /\ At(h, "idle") /\ request[h] # "none"
    /\ request' = [request EXCEPT ![h] = "none"]
    /\ trigger' = TRUE
    /\ UNCHANGED <<vars, calls, loop, untold, provider>>

\* An MCP tool; or the poller, or a handler that fails after its commit.
CallTool ==
    /\ Mutate /\ Silent
    /\ \/ calls' = calls + 1 /\ UNCHANGED untold
       \/ untold' = TRUE /\ UNCHANGED calls
    /\ UNCHANGED <<request, trigger, loop, provider>>

ToolTriggers ==
    /\ calls > 0
    /\ calls' = calls - 1
    /\ trigger' = TRUE
    /\ UNCHANGED <<vars, request, loop, untold, provider>>

-----------------------------------------------------------------------------
\* The reconciler

LoopGoes(l) ==
    /\ loop' = l
    /\ UNCHANGED <<request, calls>>

\* runOnce: the provider's zones.
Runs ==
    /\ LoopGoes([Loop("zones") EXCEPT !.todo = db.zones])
    /\ untold' = FALSE
    /\ UNCHANGED <<vars, provider>>

Start ==
    /\ loop.phase = "initial"
    /\ Runs
    /\ UNCHANGED trigger

\* Mutant: a loop without a ticker.
NeverTicks == FALSE

\* The ticker may fire at any time.
WakeOnTick ==
    /\ Resting
    /\ Runs
    /\ UNCHANGED trigger

WakeOnTrigger ==
    /\ Resting
    /\ trigger
    /\ trigger' = FALSE
    /\ Runs

\* Zones in the order of their names.
LoadZone ==
    /\ loop.todo # {} /\ loop.zone = 0
    /\ LoopGoes([loop EXCEPT !.zone = Min(loop.todo), !.want = DesiredOf(Min(loop.todo))])
    /\ UNCHANGED <<vars, trigger, untold, provider>>

Leave(ok) == [loop EXCEPT !.todo = @ \ {loop.zone}, !.zone = 0, !.want = {},
                          !.failed = @ \/ ~ok]

WriteZone ==
    /\ loop.zone # 0
    /\ provider' = [provider EXCEPT ![loop.zone] = loop.want]
    /\ LoopGoes(Leave(TRUE))
    /\ UNCHANGED <<vars, trigger, untold>>

\* Some adds and deletes have got through.
WriteFails ==
    /\ Faults /\ Spent
    /\ loop.zone # 0
    /\ \E added \in SUBSET (loop.want \ provider[loop.zone]),
          left \in SUBSET (provider[loop.zone] \ loop.want) :
        provider' = [provider EXCEPT ![loop.zone] =
                        (@ \intersect loop.want) \union added \union left]
    /\ LoopGoes(Leave(FALSE))
    /\ UNCHANGED <<db, run, settled, trigger, untold>>

RunEnds ==
    /\ loop.phase = "zones" /\ loop.todo = {}
    /\ LoopGoes([Loop("select") EXCEPT !.failed = loop.failed])
    /\ UNCHANGED <<vars, trigger, untold, provider>>

LoopStep ==
    \/ Start \/ WakeOnTick \/ WakeOnTrigger
    \/ LoadZone \/ WriteZone \/ RunEnds

-----------------------------------------------------------------------------
\* The process dies and starts again, without synthesizing anything.

Restart ==
    /\ Faults /\ Spent
    /\ run' = [h \in Handlers |-> Idle]
    /\ request' = [h \in Handlers |-> "none"]
    /\ calls' = 0
    /\ trigger' = FALSE
    /\ loop' = Loop("initial")
    /\ UNCHANGED <<db, settled, untold, provider>>

SystemNext ==
    \/ \E h \in Handlers : Serve(h) \/ Synthesizes(h) \/ SynthFails(h) \/ Trigger(h)
    \/ CallTool \/ ToolTriggers
    \/ LoopStep \/ WriteFails
    \/ Restart

(***************************************************************************)
(* Handlers and tools carry through what they have begun; the ticker wakes *)
(* the loop and its runs proceed.                                          *)
(***************************************************************************)
SystemFairness ==
    /\ \A h \in Handlers : WF_allVars(Synthesizes(h) \/ Trigger(h))
    /\ WF_allVars(ToolTriggers)
    /\ WF_allVars(LoopStep)

System == SystemInit /\ [][SystemNext]_allVars /\ SystemFairness

-----------------------------------------------------------------------------
InSync == \A z \in db.zones : provider[z] = DesiredOf(z)

Settled ==
    /\ \A h \in Handlers : request[h] = "none"
    /\ calls = 0 /\ ~trigger /\ ~untold
    /\ Resting /\ ~loop.failed

\* When every request has been answered, every tool has triggered and the
\* reconciler rests after a run without an error, the provider holds the records
\* of the tables: no order of commits, runs of synth, triggers and restarts lets
\* the last change be forgotten.
NothingForgotten == Settled => InSync

\* After the last mutation and fault the provider follows the tables for good,
\* although tools and the poller change them without a run of synth, or without a
\* trigger.
ProviderFollows == <>[]InSync

\* synth.go:5 and quirks.md:167: if besides somebody presses the button again and
\* again, tables and provider hold for good what the inventory calls for, whatever
\* stale runs were under way and wherever the process died.
Converges ==
    []<><<\E h \in Handlers : SyncNow(h)>>_allVars => <>[](Exact /\ InSync)

=============================================================================
