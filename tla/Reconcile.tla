------------------------------ MODULE Reconcile ------------------------------
(***************************************************************************)
(* The reconciler: runOnce and what it calls, step by step, against a      *)
(* store that handlers keep editing and provider zones that operators edit *)
(* behind netdb's back.  A run takes one provider after the other and one  *)
(* zone after the other, in the order of their names; for a zone it loads  *)
(* what the store wants, lists what the provider holds, adds what is       *)
(* missing and only then deletes what is not wanted.  Every call may fail, *)
(* with or without having taken effect.                                    *)
(*                                                                         *)
(* Providers and zones are numbers in the order of their names.  A record  *)
(* is [name, type, value, dot], dot telling whether the value is written   *)
(* with a trailing dot; its TTL is left out, as no comparison looks at it. *)
(***************************************************************************)
EXTENDS Naturals, FiniteSets, FiniteSetsExt

CONSTANTS
    Providers,    \* rows dns_providers may hold
    Zones,        \* rows zones may hold
    Kind,         \* provider -> "technitium" or "cloudflare"
    Configured,   \* the kinds whose URL or token is configured
    Desires,      \* the record sets a zone of the store may hold
    Foreign,      \* records that operators create at the provider
    MaxEdits      \* bound: edits by handlers and operators together

ASSUME NumberedByName == Providers \subseteq Nat /\ Zones \subseteq Nat
ASSUME BoundIsNatural == MaxEdits \in Nat

VARIABLES
    rows,     \* the enabled rows of dns_providers
    links,    \* zone_providers, as pairs of provider and zone
    desired,  \* per zone: what ListDesiredRecordsByZone returns
    hosted,   \* pairs whose zone exists at the provider
    held,     \* per pair: the records in the provider's zone
    run,      \* the run under way
    status,   \* what Status() returns of the latest completed run
    edits,    \* edits made so far
    quiet     \* completed runs, up to three, without edit or fault so far

storeVars  == <<rows, links, desired>>
serverVars == <<hosted, held>>
vars == <<storeVars, serverVars, run, status, edits, quiet>>

Pairs == Providers \X Zones

\* Types that ListRecords reports: managedTypes and rdataToValue.
Managed == {"A", "AAAA", "CNAME", "PTR", "MX", "TXT"}

\* Record.Key: everything but the TTL.
Key(r) == <<r.name, r.type, r.value, r.dot>>
Keys(R) == {Key(r) : r \in R}

\* A provider keeps, and lists, a value without its trailing dot.
Stored(r) == [r EXCEPT !.dot = FALSE]

\* A name has one CNAME and nothing else, or no CNAME.
Conflict(r, s) ==
    /\ r.name = s.name
    /\ "CNAME" \in {r.type, s.type}
    /\ Key(r) # Key(s)

Universe == Foreign \union UNION Desires
StoredRecords == {Stored(r) : r \in Universe}

ASSUME RecordsAreRecords ==
    \A r \in Universe :
        r = [name |-> r.name, type |-> r.type, value |-> r.value, dot |-> r.dot]

Idle == [phase |-> "idle", todo |-> {}, provider |-> 0, zones |-> {},
         zone |-> 0, want |-> {}, adds |-> {}, drops |-> {}, failed |-> FALSE,
         ok |-> {}, changed |-> {}, clean |-> TRUE]

At(phase) == run.phase = phase
Here == <<run.provider, run.zone>>

Phases == {"idle", "provider", "zone", "ensure", "list", "apply"}
Run == [phase : Phases, todo : SUBSET Providers, provider : Providers \union {0},
        zones : SUBSET Zones, zone : Zones \union {0}, want : SUBSET Universe,
        adds : SUBSET Universe, drops : SUBSET StoredRecords, failed : BOOLEAN,
        ok : SUBSET Pairs, changed : SUBSET Pairs, clean : BOOLEAN]

TypeOK ==
    /\ rows \subseteq Providers
    /\ links \subseteq Pairs
    /\ desired \in [Zones -> Desires]
    /\ hosted \subseteq Pairs
    /\ held \in [Pairs -> SUBSET StoredRecords]
    /\ run \in Run /\ run.adds \subseteq run.want
    /\ status \in [ok : SUBSET Pairs, changed : SUBSET Pairs]
    /\ edits \in 0..MaxEdits
    /\ quiet \in 0..3

Init ==
    /\ rows \in SUBSET Providers
    /\ links \in SUBSET (rows \X Zones)
    /\ desired \in [Zones -> Desires]
    /\ hosted \in SUBSET Pairs
    /\ held = [at \in Pairs |-> {}]
    /\ run = Idle
    /\ status = [ok |-> {}, changed |-> {}]
    /\ edits = 0
    /\ quiet = 0

-----------------------------------------------------------------------------
\* Edits.  Each one spoils the quiet of the run it happens in.

Edited ==
    /\ edits < MaxEdits
    /\ edits' = edits + 1
    /\ quiet' = 0
    /\ run' = IF At("idle") THEN run ELSE [run EXCEPT !.clean = FALSE]
    /\ UNCHANGED status

CreateProvider(p) ==
    /\ p \notin rows
    /\ rows' = rows \union {p}
    /\ Edited
    /\ UNCHANGED <<links, desired, serverVars>>

\* Deleting the row deletes its links.
DeleteProvider(p) ==
    /\ p \in rows
    /\ rows' = rows \ {p}
    /\ links' = {l \in links : l[1] # p}
    /\ Edited
    /\ UNCHANGED <<desired, serverVars>>

LinkZoneProvider(p, z) ==
    /\ p \in rows
    /\ <<p, z>> \notin links
    /\ links' = links \union {<<p, z>>}
    /\ Edited
    /\ UNCHANGED <<rows, desired, serverVars>>

UnlinkZoneProvider(p, z) ==
    /\ <<p, z>> \in links
    /\ links' = links \ {<<p, z>>}
    /\ Edited
    /\ UNCHANGED <<rows, desired, serverVars>>

\* One transaction of a handler or of synth changes what a zone should hold.
EditRecords(z) ==
    /\ desired' \in {[desired EXCEPT ![z] = D] : D \in Desires \ {desired[z]}}
    /\ Edited
    /\ UNCHANGED <<rows, links, serverVars>>

\* Deleting the zone deletes its links and its records; a run that has listed
\* the zone goes on with it.  A zone linked again is one created anew.
DeleteZone(z) ==
    /\ {} \in Desires
    /\ links' = {l \in links : l[2] # z}
    /\ desired' = [desired EXCEPT ![z] = {}]
    /\ Edited
    /\ UNCHANGED <<rows, serverVars>>

\* The administrator's interface of the provider.
OperatorAdds(at, r) ==
    /\ at \in hosted
    /\ \A s \in held[at] : Key(s) # Key(r) /\ ~Conflict(s, r)
    /\ held' = [held EXCEPT ![at] = @ \union {r}]
    /\ Edited
    /\ UNCHANGED <<storeVars, hosted>>

OperatorRemoves(at, r) ==
    /\ r \in held[at]
    /\ held' = [held EXCEPT ![at] = @ \ {r}]
    /\ Edited
    /\ UNCHANGED <<storeVars, hosted>>

-----------------------------------------------------------------------------
\* The run

Untouched == UNCHANGED <<storeVars, serverVars, status, edits>>

\* runOnce lists the enabled providers; without any the run is over at once.
ListProviders ==
    /\ At("idle")
    /\ run' = [Idle EXCEPT !.phase = "provider", !.todo = rows]
    /\ Untouched /\ UNCHANGED quiet

NextProvider == run.phase = "provider" /\ run.todo # {}

\* newClient fails for a kind that is not configured; the run goes on.
SkipProvider ==
    /\ NextProvider
    /\ Kind[Min(run.todo)] \notin Configured
    /\ run' = [run EXCEPT !.todo = @ \ {Min(run.todo)}]
    /\ Untouched /\ UNCHANGED quiet

ListZones ==
    /\ NextProvider
    /\ LET p == Min(run.todo) IN
        /\ Kind[p] \in Configured
        /\ run' = [run EXCEPT !.todo = @ \ {p}, !.provider = p,
                              !.zones = {z \in Zones : <<p, z>> \in links},
                              !.phase = "zone"]
    /\ Untouched /\ UNCHANGED quiet

LastZone ==
    /\ At("zone")
    /\ run.zones = {}
    /\ run' = [run EXCEPT !.phase = "provider", !.provider = 0]
    /\ Untouched /\ UNCHANGED quiet

LoadDesired ==
    /\ At("zone")
    /\ run.zones # {}
    /\ LET z == Min(run.zones) IN
        run' = [run EXCEPT !.zones = @ \ {z}, !.zone = z, !.want = desired[z],
                           !.phase = "ensure"]
    /\ Untouched /\ UNCHANGED quiet

\* Leaving a zone, with or without an error.
NextZone(r) == [r EXCEPT !.phase = "zone", !.zone = 0, !.want = {}, !.adds = {},
                         !.drops = {}, !.failed = FALSE]

\* Technitium creates the zone, Cloudflare only looks it up.
EnsureZone ==
    /\ At("ensure")
    /\ IF Kind[run.provider] = "technitium"
       THEN hosted' = hosted \union {Here}
       ELSE hosted' = hosted
    /\ run' = IF Here \in hosted' THEN [run EXCEPT !.phase = "list"]
                                  ELSE NextZone(run)
    /\ UNCHANGED <<storeVars, held, status, edits, quiet>>

\* Mutants: a listing that is not filtered by type; one that knows addresses only.
Everything(R) == R
AddressesOnly(R) == {r \in R : r.type \in {"A", "AAAA"}}

Reported(R) == {r \in R : r.type \in Managed}

\* Mutant: the two differences are swapped.
ListSwapped ==
    /\ At("list")
    /\ LET actual == Reported(held[Here]) IN
        run' = [run EXCEPT
            !.adds = {r \in actual : Key(r) \notin Keys(run.want)},
            !.drops = {r \in run.want : Key(r) \notin Keys(actual)},
            !.phase = "apply"]
    /\ Untouched /\ UNCHANGED quiet

ListRecords ==
    /\ At("list")
    /\ LET actual == Reported(held[Here]) IN
        run' = [run EXCEPT
            !.adds = {r \in run.want : Key(r) \notin Keys(actual)},
            !.drops = {r \in actual : Key(r) \notin Keys(run.want)},
            !.phase = "apply"]
    /\ Untouched /\ UNCHANGED quiet

\* What the provider does with an add and what the adapter makes of its answer.
Accepts(r) == \A s \in held[Here] : Key(s) # Key(Stored(r)) /\ ~Conflict(s, Stored(r))
Duplicate(r) == Key(Stored(r)) \in Keys(held[Here])

WithRecord(r) == [held EXCEPT ![Here] = @ \union {Stored(r)}]
WithoutRecord(r) == [held EXCEPT ![Here] = {s \in @ : Key(s) # Key(Stored(r))}]

\* Mutant: whatever the provider answers counts as an add.
AddIgnoringErrors(r) ==
    /\ At("apply")
    /\ r \in run.adds
    /\ held' = IF Accepts(r) THEN WithRecord(r) ELSE held
    /\ run' = [run EXCEPT !.adds = @ \ {r}, !.changed = @ \union {Here}]
    /\ UNCHANGED <<storeVars, hosted, status, edits, quiet>>

\* Technitium's "already exists" counts as success, Cloudflare's does not.
AddRecord(r) ==
    /\ At("apply")
    /\ r \in run.adds
    /\ \/ /\ Accepts(r)
          /\ held' = WithRecord(r)
          /\ run' = [run EXCEPT !.adds = @ \ {r}, !.changed = @ \union {Here}]
       \/ /\ ~Accepts(r)
          /\ Duplicate(r) /\ Kind[run.provider] = "technitium"
          /\ run' = [run EXCEPT !.adds = @ \ {r}, !.changed = @ \union {Here}]
          /\ UNCHANGED held
       \/ /\ ~Accepts(r)
          /\ ~(Duplicate(r) /\ Kind[run.provider] = "technitium")
          /\ run' = [run EXCEPT !.adds = @ \ {r}, !.failed = TRUE]
          /\ UNCHANGED held
    /\ UNCHANGED <<storeVars, hosted, status, edits, quiet>>

\* Mutant: adds and deletes in any order.
DeleteAnyTime(r) ==
    /\ At("apply")
    /\ r \in run.drops
    /\ held' = WithoutRecord(r)
    /\ run' = [run EXCEPT !.drops = @ \ {r}, !.changed = @ \union {Here}]
    /\ UNCHANGED <<storeVars, hosted, status, edits, quiet>>

\* The deletes start once every add has been tried.
DeleteRecord(r) ==
    /\ At("apply")
    /\ run.adds = {}
    /\ r \in run.drops
    /\ held' = WithoutRecord(r)
    /\ IF r \in held[Here] \/ Kind[run.provider] = "technitium"
       THEN run' = [run EXCEPT !.drops = @ \ {r}, !.changed = @ \union {Here}]
       ELSE run' = [run EXCEPT !.drops = @ \ {r}, !.failed = TRUE]
    /\ UNCHANGED <<storeVars, hosted, status, edits, quiet>>

\* Mutant: the zone is given up after the adds when one of them failed.
ZoneGivenUp ==
    /\ At("apply")
    /\ run.adds = {} /\ (run.drops = {} \/ run.failed)
    /\ run' = NextZone([run EXCEPT
                 !.ok = IF run.failed THEN @ ELSE @ \union {Here}])
    /\ Untouched /\ UNCHANGED quiet

ZoneDone ==
    /\ At("apply")
    /\ run.adds = {} /\ run.drops = {}
    /\ run' = NextZone([run EXCEPT
                 !.ok = IF run.failed THEN @ ELSE @ \union {Here}])
    /\ Untouched /\ UNCHANGED quiet

RunDone ==
    /\ At("provider")
    /\ run.todo = {}
    /\ status' = [ok |-> run.ok, changed |-> run.changed]
    /\ quiet' = IF run.clean THEN Min({quiet + 1, 3}) ELSE 0
    /\ run' = Idle
    /\ UNCHANGED <<storeVars, serverVars, edits>>

\* A query or a call fails.  Before the deltas are applied the run, the provider
\* or the zone is given up; an add or a delete that fails is one error among
\* others, and may have taken effect.
Dirty(r) == [r EXCEPT !.clean = FALSE]

QueryFails ==
    \/ /\ At("idle")
       /\ status' = [ok |-> {}, changed |-> {}]
       /\ UNCHANGED run
    \/ /\ NextProvider
       /\ run' = Dirty([run EXCEPT !.todo = @ \ {Min(run.todo)}])
       /\ UNCHANGED status
    \/ /\ At("zone") /\ run.zones # {}
       /\ run' = Dirty([run EXCEPT !.zones = @ \ {Min(run.zones)}])
       /\ UNCHANGED status
    \/ /\ At("ensure") \/ At("list")
       /\ run' = Dirty(NextZone(run))
       /\ UNCHANGED status

AddFails(r) ==
    /\ At("apply")
    /\ r \in run.adds
    /\ run' = Dirty([run EXCEPT !.adds = @ \ {r}, !.failed = TRUE])
    /\ held' = held \/ (Accepts(r) /\ held' = WithRecord(r))

DeleteFails(r) ==
    /\ At("apply")
    /\ run.adds = {}
    /\ r \in run.drops
    /\ run' = Dirty([run EXCEPT !.drops = @ \ {r}, !.failed = TRUE])
    /\ held' \in {held, WithoutRecord(r)}

Fault ==
    /\ \/ QueryFails /\ UNCHANGED held
       \/ \E r \in Universe : AddFails(r) /\ UNCHANGED status
       \/ \E r \in StoredRecords : DeleteFails(r) /\ UNCHANGED status
    /\ quiet' = 0
    /\ UNCHANGED <<storeVars, hosted, edits>>

RunStep ==
    \/ ListProviders \/ SkipProvider \/ ListZones \/ LastZone
    \/ LoadDesired \/ EnsureZone \/ ListRecords
    \/ \E r \in Universe : AddRecord(r)
    \/ \E r \in StoredRecords : DeleteRecord(r)
    \/ ZoneDone \/ RunDone

Edit ==
    \/ \E p \in Providers : CreateProvider(p) \/ DeleteProvider(p)
    \/ \E p \in Providers, z \in Zones :
        LinkZoneProvider(p, z) \/ UnlinkZoneProvider(p, z)
    \/ \E z \in Zones : EditRecords(z) \/ DeleteZone(z)
    \/ \E at \in Pairs, r \in StoredRecords :
        OperatorAdds(at, r) \/ OperatorRemoves(at, r)

Next == Edit \/ RunStep \/ Fault

(***************************************************************************)
(* The ticker starts runs for ever and a run proceeds.  A call that is     *)
(* made again and again does not fail every time.                          *)
(***************************************************************************)
Fairness ==
    /\ WF_vars(RunStep \/ Fault)
    /\ SF_vars(ListProviders)
    /\ SF_vars(ListZones)
    /\ SF_vars(LoadDesired)
    /\ SF_vars(EnsureZone)
    /\ SF_vars(ListRecords)
    /\ \A r \in Universe : SF_vars(AddRecord(r))
    /\ \A r \in StoredRecords : SF_vars(DeleteRecord(r))

Spec == Init /\ [][Next]_vars /\ Fairness

-----------------------------------------------------------------------------
\* The pairs a run visits, and those it can bring in line: Cloudflare zones are
\* not created by netdb.
Served == {l \in links : l[1] \in rows /\ Kind[l[1]] \in Configured}
Servable == {at \in Served : Kind[at[1]] = "technitium" \/ at \in hosted}

InSync(at) == Keys(Reported(held[at])) = Keys(desired[at[2]])

\* Stores that runs can follow: what they want is listed as it was sent, and
\* neither another record they want nor one that netdb leaves alone excludes it.
Listable == \A D \in Desires : \A r \in D : r.type \in Managed /\ r.dot = FALSE
Compatible ==
    \A D \in Desires : \A r \in D :
        /\ \A s \in D : ~Conflict(s, r)
        /\ \A s \in StoredRecords : s.type \notin Managed => ~Conflict(s, r)

\* A zone that the status page shows OK held exactly what the store wanted, and
\* still does while nobody has edited anything and no call has failed since the
\* run began.
ReportHonest == quiet >= 1 => \A at \in status.ok : InSync(at)

\* Two undisturbed runs bring every zone in line, whatever was in it and in
\* whatever way earlier runs were cut short.  One is not enough: a record that
\* another one excludes is refused until the run has deleted that one.
TwoRunsSuffice == quiet >= 2 => \A at \in Servable : InSync(at)

\* A further undisturbed run neither adds nor deletes.
FurtherRunsAreNoOps == quiet >= 3 => status.changed = {}

\* While its records are replaced, a name that is wanted and resolves goes on
\* resolving, and so does each type that is wanted for it, unless an add of this
\* run has failed or been refused, or somebody edited while it ran.  An alias that
\* is given another target is no such case: the add is refused while the old one is
\* there, the old one is deleted, and the name is gone until the next run.
Resolves(h, at, n, types) == \E r \in h[at] : r.name = n /\ r.type \in types
NoOutage ==
    [][\A at \in Pairs, w \in run.want : \A types \in {Managed, {w.type}} :
        Resolves(held, at, w.name, types) /\ run.clean /\ ~run.failed /\ edits' = edits
            => Resolves(held', at, w.name, types)]_vars

\* Records of the types netdb does not manage are never deleted by it.
UnmanagedKept ==
    [][\A at \in Pairs : \A r \in held[at] :
        r.type \notin Managed /\ edits' = edits => r \in held'[at]]_vars

\* After the last edit every zone is brought in line and stays there, although
\* calls keep failing now and then.
Converges == <>[](\A at \in Servable : InSync(at))

=============================================================================
