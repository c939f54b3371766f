-------------------------------- MODULE KeaSync --------------------------------
(***************************************************************************)
(* The Kea syncer: a run lists the subnets and, by another query, the      *)
(* reservations, builds a configuration and sends it; Kea takes it whole   *)
(* or not at all.  Handlers edit both tables meanwhile.  The web handlers, *)
(* and the MCP tools for subnets, trigger a run after their commit; the    *)
(* other tools, and a handler that fails in between, do not.               *)
(***************************************************************************)
EXTENDS KeaConfig

CONSTANTS
    Typed,        \* what users enter for a pool: records of start and end
    Reservable,   \* rows of ip_assignments of kind reserved: mac, addr
    SeedSubnets, SeedReserved,   \* the tables when the program starts
    MaxEdits,     \* bound: edits
    MaxRestarts   \* bound: restarts of Kea and of the program

ASSUME BoundsAreNaturals == MaxEdits \in Nat /\ MaxRestarts \in Nat
ASSUME NumbersAreTyped == \A p \in Typed : p.start \in Seq(Nat) /\ p.end \in Seq(Nat)

VARIABLES
    subnets,    \* rows of subnets: CIDR -> what was entered for its pool
    reserved,   \* rows that ListReservations returns
    owing,      \* handlers that have committed and not triggered a run yet
    trigger,    \* tokens in the trigger channel
    phase,      \* where the goroutine is
    read,       \* the subnets that the run has read
    config,     \* the configuration that the run has built
    status,     \* the outcome of the latest run
    kea,        \* the configuration in Kea's memory
    unseen,     \* an edit nobody triggers a run for, or a restart of Kea, since
                \* the latest run began
    edits, restarts

tables == <<subnets, reserved>>
runVars == <<phase, read, config, status>>
vars == <<tables, owing, trigger, runVars, kea, unseen, edits, restarts>>

Empty == [c \in {} |-> {}]

\* A map from some of the CIDRs.
Maps(f, S) == DOMAIN f \subseteq CIDRs /\ Range(f) \subseteq S
Pool == UNION {Pools(c, p) : c \in CIDRs, p \in Typed}

ASSUME SeedsAreRows == Maps(SeedSubnets, Typed) /\ SeedReserved \subseteq Reservable

TypeOK ==
    /\ Maps(subnets, Typed) /\ Maps(read, Typed)
    /\ reserved \subseteq Reservable
    /\ owing \in 0..MaxEdits
    /\ trigger \in {0, 1}
    /\ phase \in {"select", "subnets", "reservations", "push"}
    /\ \A f \in {config, kea} : DOMAIN f \subseteq CIDRs /\ \A c \in DOMAIN f :
        f[c].pools \subseteq Pool /\ f[c].reservations \subseteq Reservable
    /\ status \in {"never", "ok", "failed"}
    /\ unseen \in BOOLEAN
    /\ edits \in 0..MaxEdits /\ restarts \in 0..MaxRestarts

Init ==
    /\ subnets = SeedSubnets
    /\ reserved = SeedReserved
    /\ owing = 0
    /\ trigger = 0
    /\ phase = "subnets"
    /\ read = Empty
    /\ config = Empty
    /\ status = "never"
    /\ kea = Empty
    /\ unseen = FALSE
    /\ edits = 0
    /\ restarts = 0

-----------------------------------------------------------------------------
\* Handlers

With(f, c, v) == [d \in DOMAIN f \union {c} |-> IF d = c THEN v ELSE f[d]]
Without(f, c) == [d \in DOMAIN f \ {c} |-> f[d]]

\* subnets.cidr is UNIQUE.
CreateSubnet(c, pool) ==
    /\ c \notin DOMAIN subnets
    /\ subnets' = With(subnets, c, pool)
    /\ UNCHANGED reserved

\* The row's CIDR may change, and a bound that is left out becomes empty.
UpdateSubnet(old, c, pool) ==
    /\ old \in DOMAIN subnets
    /\ c \notin DOMAIN subnets \ {old}
    /\ subnets' = With(Without(subnets, old), c, pool)
    /\ UNCHANGED reserved

DeleteSubnet(c) ==
    /\ c \in DOMAIN subnets
    /\ subnets' = Without(subnets, c)
    /\ UNCHANGED reserved

CreateIPAssignment(r) ==
    /\ r \notin reserved
    /\ reserved' = reserved \union {r}
    /\ UNCHANGED subnets

DeleteIPAssignment(r) ==
    /\ r \in reserved
    /\ reserved' = reserved \ {r}
    /\ UNCHANGED subnets

\* A deleted host or NIC takes its addresses along.
DeleteIPAssignments(mac) ==
    /\ \E r \in reserved : r.mac = mac
    /\ reserved' = {r \in reserved : r.mac # mac}
    /\ UNCHANGED subnets

Mutate ==
    /\ edits < MaxEdits
    /\ edits' = edits + 1
    /\ \/ \E c \in CIDRs, pool \in Typed :
            CreateSubnet(c, pool) \/ \E old \in CIDRs : UpdateSubnet(old, c, pool)
       \/ \E c \in CIDRs : DeleteSubnet(c)
       \/ \E r \in Reservable :
            CreateIPAssignment(r) \/ DeleteIPAssignment(r) \/ DeleteIPAssignments(r.mac)
    /\ UNCHANGED <<trigger, runVars, kea, restarts>>

Commit == Mutate /\ owing' = owing + 1 /\ UNCHANGED unseen

CommitSilently == Mutate /\ unseen' = TRUE /\ UNCHANGED owing

\* Mutant: a token for every trigger.
TriggerUnbounded ==
    /\ owing > 0
    /\ owing' = owing - 1
    /\ trigger' = trigger + 1
    /\ UNCHANGED <<tables, runVars, kea, unseen, edits, restarts>>

Trigger ==
    /\ owing > 0
    /\ owing' = owing - 1
    /\ trigger' = 1
    /\ UNCHANGED <<tables, runVars, kea, unseen, edits, restarts>>

\* The page's button, and the tool kea_sync_now.
SyncNow ==
    /\ trigger' = 1
    /\ UNCHANGED <<tables, owing, runVars, kea, unseen, edits, restarts>>

-----------------------------------------------------------------------------
\* The run

Others == UNCHANGED <<tables, owing, edits, restarts>>

\* What the run has read and built ends with it.
RunEnds ==
    /\ phase' = "select"
    /\ read' = Empty
    /\ config' = Empty

\* Mutant: no ticker.
NeverTicks == FALSE

WakeOnTick ==
    /\ phase = "select"
    /\ phase' = "subnets"
    /\ Others /\ UNCHANGED <<trigger, read, config, status, kea, unseen>>

WakeOnTrigger ==
    /\ phase = "select"
    /\ trigger = 1
    /\ trigger' = 0
    /\ phase' = "subnets"
    /\ Others /\ UNCHANGED <<read, config, status, kea, unseen>>

ListSubnets ==
    /\ phase = "subnets"
    /\ read' = subnets
    /\ unseen' = FALSE
    /\ phase' = "reservations"
    /\ Others /\ UNCHANGED <<trigger, config, status, kea>>

ListReservations ==
    /\ phase = "reservations"
    /\ config' = Build(read, reserved)
    /\ read' = Empty
    /\ phase' = "push"
    /\ Others /\ UNCHANGED <<trigger, status, kea, unseen>>

QueryFails ==
    /\ phase \in {"subnets", "reservations"}
    /\ status' = "failed"
    /\ RunEnds
    /\ Others /\ UNCHANGED <<trigger, kea, unseen>>

\* A refusal is a result other than 0; Kea goes on with what it has.
ConfigSet ==
    /\ phase = "push"
    /\ IF Accepts(config)
       THEN kea' = config /\ status' = "ok"
       ELSE kea' = kea /\ status' = "failed"
    /\ RunEnds
    /\ Others /\ UNCHANGED <<trigger, unseen>>

\* No answer within 15 seconds, or none that can be read: Kea may have acted.
CallFails ==
    /\ phase = "push"
    /\ kea' \in {kea} \union {f \in {config} : Accepts(f)}
    /\ status' = "failed"
    /\ RunEnds
    /\ Others /\ UNCHANGED <<trigger, unseen>>

KeaRestarts ==
    /\ restarts < MaxRestarts
    /\ restarts' = restarts + 1
    /\ kea' = Empty
    /\ unseen' = TRUE
    /\ UNCHANGED <<tables, owing, trigger, runVars, edits>>

\* The program dies and starts again, with a run: triggers still owed are lost.
Restart ==
    /\ restarts < MaxRestarts
    /\ restarts' = restarts + 1
    /\ owing' = 0
    /\ trigger' = 0
    /\ phase' = "subnets"
    /\ read' = Empty
    /\ config' = Empty
    /\ status' = "never"
    /\ UNCHANGED <<tables, kea, unseen, edits>>

Next ==
    \/ Commit \/ CommitSilently \/ Trigger \/ SyncNow
    \/ WakeOnTick \/ WakeOnTrigger
    \/ ListSubnets \/ ListReservations \/ QueryFails
    \/ ConfigSet \/ CallFails
    \/ KeaRestarts \/ Restart

(***************************************************************************)
(* The ticker ticks and the goroutine goes on; queries and calls made      *)
(* again and again do not fail every time.                                 *)
(***************************************************************************)
Fairness ==
    /\ WF_vars(WakeOnTick \/ WakeOnTrigger)
    /\ WF_vars(ListSubnets \/ ListReservations \/ QueryFails \/ ConfigSet \/ CallFails)
    /\ SF_vars(ListSubnets) /\ SF_vars(ListReservations) /\ SF_vars(ConfigSet)

Spec == Init /\ [][Next]_vars /\ Fairness

-----------------------------------------------------------------------------
\* What the tables call for, without going through BuildConfig.

Reservations(f) == UNION {f[c].reservations : c \in DOMAIN f}

Reflects(f) ==
    /\ DOMAIN f = {c \in DOMAIN subnets : Family[c] # "garbage"}
    /\ Reservations(f) = {r \in reserved : \E c \in DOMAIN f : Covers(c, r.addr)}
    /\ \A c, d \in DOMAIN f : \A r \in f[c].reservations :
        Covers(c, r.addr) /\ (r \in f[d].reservations => c = d)
    /\ \A c \in DOMAIN f : f[c].pools = Pools(c, subnets[c])

\* When the loop rests, the latest run has succeeded, nobody owes a trigger and
\* none is pending, Kea has one pool and each reservation once, in a subnet that
\* contains it, as the tables have them now: although the run read the two tables
\* at different times, and an edit may have come between.
InStep ==
    phase = "select" /\ status = "ok" /\ trigger = 0 /\ owing = 0 /\ ~unseen
        => Reflects(kea)

\* A bound given by its last octets becomes an address of the subnet that ends in
\* them, if the subnet leaves that many octets free.
Ends(a, t) == SubSeq(a, Octets - Len(t) + 1, Octets) = t
ShortFormsFit ==
    \A c \in DOMAIN subnets : \A t \in {subnets[c].start, subnets[c].end} :
        V4(c) /\ Len(t) \in 1..(Octets - 1) /\ 8 * Len(t) <= HostBits[c]
              /\ (\A i \in 1..Len(t) : t[i] <= 255)
            => Expand(c, t) # {} /\ \A a \in Expand(c, t) : Covers(c, a) /\ Ends(a, t)

Acceptable == Accepts(Build(subnets, reserved))

\* Once edits have ended Kea follows for good, whichever of them triggered a run
\* and however often Kea restarted, calls failed or were refused before; or, if
\* Kea does not take what the tables hold, the status says so for good.
Follows ==
    /\ <>[](Acceptable => Reflects(kea))
    /\ <>[](~Acceptable => status = "failed")

=============================================================================
