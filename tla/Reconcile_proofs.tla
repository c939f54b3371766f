--------------------------- MODULE Reconcile_proofs ---------------------------
(***************************************************************************)
(* Proofs about Reconcile, for any providers, zones, records and number of *)
(* edits.  Every part of a run stays what it should be, and no run takes a *)
(* record of a type that netdb does not manage.                            *)
(*                                                                         *)
(* If records are listed as they were written (Listable), a run knows what *)
(* it is doing (Knows): while nothing else has happened since it began, it *)
(* has in hand what the store wants, the deltas left are what the zone     *)
(* lacks and has too much, and a zone it calls in sync is.  If in addition *)
(* the wanted records can stand side by side (Compatible), no add is ever  *)
(* refused but for a record that one more run will have deleted.           *)
(***************************************************************************)
EXTENDS Reconcile, RowIds_proofs

LEMMA MinIsMember ==
    ASSUME NEW S, S \subseteq Nat, S # {}
    PROVE  Min(S) \in S
<1>1. PICK m \in S : \A k \in S : m <= k
  BY LeastNumber
<1>2. QED
  BY <1>1 DEF Min

LEMMA MinOfTwo ==
    ASSUME NEW a \in Nat, NEW b \in Nat
    PROVE  Min({a, b}) \in {a, b} /\ Min({a, b}) <= b
<1>1. PICK m \in {a, b} : \A k \in {a, b} : m <= k
  <2>1. {a, b} \subseteq Nat /\ {a, b} # {}
    OBVIOUS
  <2>2. QED
    BY <2>1, LeastNumber
<1>2. Min({a, b}) \in {a, b} /\ \A k \in {a, b} : Min({a, b}) <= k
  BY <1>1 DEF Min
<1>3. QED
  BY <1>2

\* What a provider stores has the type it was sent with.
LEMMA StoredKeepsType ==
    ASSUME NEW r \in Universe \union StoredRecords
    PROVE  Stored(r).type = r.type
<1>1. DOMAIN r = {"name", "type", "value", "dot"}
  <2>1. \A u \in Universe : DOMAIN u = {"name", "type", "value", "dot"}
    BY RecordsAreRecords
  <2>2. QED
    BY <2>1 DEF StoredRecords, Stored
<1>2. QED
  BY <1>1 DEF Stored

LEMMA StoredTwice ==
    ASSUME NEW r \in StoredRecords
    PROVE  Stored(r) \in StoredRecords
<1>1. PICK u \in Universe : r = Stored(u)
  BY DEF StoredRecords
<1>2. Stored(Stored(u)) = Stored(u)
  BY DEF Stored
<1>3. QED
  BY <1>1, <1>2

-----------------------------------------------------------------------------
\* A run that works on a zone works on one of the pairs there are, and it has
\* changes in hand while it applies them only.
Placed ==
    /\ run.phase # "apply" => run.adds = {}
    /\ run.phase \notin {"idle", "provider"} => run.provider \in Providers
    /\ run.phase \in {"ensure", "list", "apply"} => run.zone \in Zones

\* What it deletes is of a type that netdb manages.
Managing == \A r \in run.drops : r.type \in Managed

IInv == TypeOK /\ Placed /\ Managing

LEMMA InitIInv == Init => IInv
<1> SUFFICES ASSUME Init
             PROVE  IInv
  OBVIOUS
<1>1. Idle \in Run /\ Idle.adds \subseteq Idle.want
  BY DEF Idle, Run, Phases
<1>2. rows \subseteq Providers /\ links \subseteq Pairs /\ hosted \subseteq Pairs
  BY DEF Init, Pairs
<1>3. TypeOK
  BY <1>1, <1>2, BoundIsNatural DEF Init, TypeOK
<1>4. Placed /\ Managing
  BY DEF Init, Idle, Placed, Managing
<1>5. QED
  BY <1>3, <1>4 DEF IInv

-----------------------------------------------------------------------------
\* Edits

LEMMA EditedRest ==
    ASSUME IInv, Edited
    PROVE  /\ run' \in Run /\ run'.adds \subseteq run'.want
           /\ status' \in [ok : SUBSET Pairs, changed : SUBSET Pairs]
           /\ edits' \in 0..MaxEdits /\ quiet' \in 0..3
           /\ Placed' /\ Managing'
<1>1. run' = run \/ run' = [run EXCEPT !.clean = FALSE]
  BY DEF Edited
<1>2. run \in Run /\ run.adds \subseteq run.want
  BY DEF IInv, TypeOK
<1>3. run' \in Run /\ run'.adds \subseteq run'.want
  BY <1>1, <1>2 DEF Run
<1>4. Placed' /\ Managing'
  BY <1>1, <1>2 DEF IInv, Placed, Managing, Run
<1>5. edits' \in 0..MaxEdits /\ quiet' \in 0..3
  BY BoundIsNatural DEF IInv, TypeOK, Edited
<1>6. status' \in [ok : SUBSET Pairs, changed : SUBSET Pairs]
  BY DEF IInv, TypeOK, Edited
<1>7. QED
  BY <1>3, <1>4, <1>5, <1>6

LEMMA EditKeepsIInv ==
    ASSUME IInv, Edit
    PROVE  IInv'
<1> USE DEF storeVars, serverVars
<1>1. ASSUME Edited,
             rows' \subseteq Providers, links' \subseteq Pairs,
             desired' \in [Zones -> Desires], hosted' \subseteq Pairs,
             held' \in [Pairs -> SUBSET StoredRecords]
      PROVE  IInv'
  BY <1>1, EditedRest DEF IInv, TypeOK
<1>2. ASSUME NEW p \in Providers, CreateProvider(p) \/ DeleteProvider(p)
      PROVE  IInv'
  BY <1>1, <1>2 DEF CreateProvider, DeleteProvider, IInv, TypeOK
<1>3. ASSUME NEW p \in Providers, NEW z \in Zones,
             LinkZoneProvider(p, z) \/ UnlinkZoneProvider(p, z)
      PROVE  IInv'
  BY <1>1, <1>3 DEF LinkZoneProvider, UnlinkZoneProvider, IInv, TypeOK, Pairs
<1>4. ASSUME NEW z \in Zones, EditRecords(z) \/ DeleteZone(z)
      PROVE  IInv'
  BY <1>1, <1>4 DEF EditRecords, DeleteZone, IInv, TypeOK
<1>5. ASSUME NEW at \in Pairs, NEW r \in StoredRecords,
             OperatorAdds(at, r) \/ OperatorRemoves(at, r)
      PROVE  IInv'
  BY <1>1, <1>5 DEF OperatorAdds, OperatorRemoves, IInv, TypeOK
<1>6. QED
  BY <1>2, <1>3, <1>4, <1>5 DEF Edit

-----------------------------------------------------------------------------
\* The run

\* The run as it is and as it may become.
RunOK(r) ==
    /\ r \in Run /\ r.adds \subseteq r.want
    /\ r.phase # "apply" => r.adds = {}
    /\ r.phase \notin {"idle", "provider"} => r.provider \in Providers
    /\ r.phase \in {"ensure", "list", "apply"} => r.zone \in Zones
    /\ \A d \in r.drops : d.type \in Managed

LEMMA LeavesZone ==
    ASSUME NEW r \in Run, r.provider \in Providers
    PROVE  RunOK(NextZone(r))
BY DEF RunOK, NextZone, Run, Phases

LEMMA HereIsPair ==
    ASSUME IInv, run.phase \in {"ensure", "list", "apply"}
    PROVE  Here \in Pairs
BY DEF IInv, Placed, Here, Pairs

\* Steps that change the run alone.
LEMMA RunAloneKeepsIInv ==
    ASSUME IInv, RunOK(run'),
           UNCHANGED <<storeVars, serverVars, status, edits>>,
           quiet' = quiet \/ quiet' = 0
    PROVE  IInv'
BY DEF IInv, TypeOK, Placed, Managing, RunOK, storeVars, serverVars

LEMMA ReadKeepsIInv ==
    ASSUME IInv,
           \/ ListProviders \/ SkipProvider \/ ListZones \/ LastZone
           \/ LoadDesired \/ ListRecords
    PROVE  IInv'
<1> USE DEF At, Untouched
<1>0. run \in Run /\ run.adds \subseteq run.want
  BY DEF IInv, TypeOK
<1>1. run.todo # {} => Min(run.todo) \in run.todo
  BY <1>0, MinIsMember, NumberedByName DEF Run
<1>2. run.zones # {} => Min(run.zones) \in run.zones
  BY <1>0, MinIsMember, NumberedByName DEF Run
<1>3. CASE ListProviders
  <2>1. RunOK(run')
    BY <1>3 DEF ListProviders, RunOK, Idle, Run, Phases, IInv, TypeOK
  <2>2. QED
    BY <1>3, <2>1, RunAloneKeepsIInv DEF ListProviders
<1>4. CASE SkipProvider
  <2>1. RunOK(run')
    BY <1>0, <1>4 DEF SkipProvider, NextProvider, RunOK, Run, IInv, Placed, Managing
  <2>2. QED
    BY <1>4, <2>1, RunAloneKeepsIInv DEF SkipProvider
<1>5. CASE ListZones
  <2>1. RunOK(run')
    BY <1>0, <1>1, <1>5
       DEF ListZones, NextProvider, RunOK, Run, Phases, IInv, Placed, Managing
  <2>2. QED
    BY <1>5, <2>1, RunAloneKeepsIInv DEF ListZones
<1>6. CASE LastZone
  <2>1. RunOK(run')
    BY <1>0, <1>6 DEF LastZone, RunOK, Run, Phases, IInv, Placed, Managing
  <2>2. QED
    BY <1>6, <2>1, RunAloneKeepsIInv DEF LastZone
<1>7. CASE LoadDesired
  <2>1. desired[Min(run.zones)] \in SUBSET Universe /\ Min(run.zones) \in Zones
    BY <1>0, <1>2, <1>7 DEF LoadDesired, IInv, TypeOK, Run, Universe
  <2>2. RunOK(run')
    BY <1>0, <1>7, <2>1 DEF LoadDesired, RunOK, Run, Phases, IInv, Placed, Managing
  <2>3. QED
    BY <1>7, <2>2, RunAloneKeepsIInv DEF LoadDesired
<1>8. CASE ListRecords
  <2>1. /\ Reported(held[Here]) \subseteq StoredRecords
        /\ \A r \in Reported(held[Here]) : r.type \in Managed
    BY <1>8, HereIsPair DEF ListRecords, Reported, IInv, TypeOK
  <2>2. RunOK(run')
    BY <1>0, <1>8, <2>1 DEF ListRecords, RunOK, Run, Phases, IInv, Placed
  <2>3. QED
    BY <1>8, <2>2, RunAloneKeepsIInv DEF ListRecords
<1>9. QED
  BY <1>3, <1>4, <1>5, <1>6, <1>7, <1>8

\* Steps that write to a provider, or to nobody.
LEMMA WritingKeepsIInv ==
    ASSUME IInv, RunOK(run'),
           held' = held \/ \E r \in Universe \union StoredRecords :
                              held' \in {WithRecord(r), WithoutRecord(r)},
           hosted' \subseteq Pairs,
           UNCHANGED <<storeVars, edits>>,
           status' = status \/ status' = [ok |-> {}, changed |-> {}],
           quiet' = quiet \/ quiet' = 0
    PROVE  IInv'
<1>1. \A r \in Universe \union StoredRecords : Stored(r) \in StoredRecords
  BY StoredTwice DEF StoredRecords
<1>2. held' \in [Pairs -> SUBSET StoredRecords]
  BY <1>1 DEF IInv, TypeOK, WithRecord, WithoutRecord
<1>3. status' \in [ok : SUBSET Pairs, changed : SUBSET Pairs]
  BY DEF IInv, TypeOK
<1>4. QED
  BY <1>2, <1>3 DEF IInv, TypeOK, Placed, Managing, RunOK, storeVars

LEMMA StepKeepsIInv ==
    ASSUME IInv,
           \/ EnsureZone \/ ZoneDone \/ RunDone
           \/ \E r \in Universe : AddRecord(r)
           \/ \E r \in StoredRecords : DeleteRecord(r)
    PROVE  IInv'
<1> USE DEF At, Untouched, storeVars, serverVars
<1>0. run \in Run /\ run.adds \subseteq run.want /\ RunOK(run)
  BY DEF IInv, TypeOK, RunOK, Placed, Managing
<1>1. run.phase \in {"ensure", "apply"} => Here \in Pairs /\ RunOK(NextZone(run))
  BY <1>0, HereIsPair, LeavesZone DEF RunOK
<1>2. CASE EnsureZone
  <2>1. RunOK(run')
    BY <1>0, <1>1, <1>2 DEF EnsureZone, RunOK, Run, Phases
  <2>2. hosted' \subseteq Pairs
    BY <1>1, <1>2 DEF EnsureZone, IInv, TypeOK
  <2>3. QED
    BY <1>2, <2>1, <2>2, WritingKeepsIInv DEF EnsureZone
<1>3. ASSUME NEW r \in Universe, AddRecord(r)
      PROVE  IInv'
  <2>1. RunOK(run')
    <3>1. RunOK([run EXCEPT !.adds = @ \ {r}, !.changed = @ \union {Here}])
      BY <1>0, <1>1, <1>3 DEF AddRecord, At, RunOK, Run
    <3>2. RunOK([run EXCEPT !.adds = @ \ {r}, !.failed = TRUE])
      BY <1>0 DEF RunOK, Run
    <3>3. QED
      BY <1>3, <3>1, <3>2 DEF AddRecord
  <2>2. held' = held \/ held' = WithRecord(r)
    BY <1>3 DEF AddRecord
  <2>3. QED
    BY <1>3, <2>1, <2>2, WritingKeepsIInv DEF AddRecord, IInv, TypeOK
<1>4. ASSUME NEW r \in StoredRecords, DeleteRecord(r)
      PROVE  IInv'
  <2>1. RunOK(run')
    <3>1. RunOK([run EXCEPT !.drops = @ \ {r}, !.changed = @ \union {Here}])
      BY <1>0, <1>1, <1>4 DEF DeleteRecord, At, RunOK, Run
    <3>2. RunOK([run EXCEPT !.drops = @ \ {r}, !.failed = TRUE])
      BY <1>0 DEF RunOK, Run
    <3>3. QED
      BY <1>4, <3>1, <3>2 DEF DeleteRecord
  <2>2. held' = WithoutRecord(r)
    BY <1>4 DEF DeleteRecord
  <2>3. QED
    BY <1>4, <2>1, <2>2, WritingKeepsIInv DEF DeleteRecord, IInv, TypeOK
<1>5. CASE ZoneDone
  <2> DEFINE done == [run EXCEPT !.ok = IF run.failed THEN @ ELSE @ \union {Here}]
  <2>1. done \in Run /\ done.provider \in Providers
    BY <1>0, <1>1, <1>5 DEF ZoneDone, RunOK, Run
  <2>2. run' = NextZone(done)
    BY <1>5 DEF ZoneDone
  <2> HIDE DEF done
  <2>3. RunOK(run')
    BY <2>1, <2>2, LeavesZone
  <2>4. QED
    BY <1>5, <2>3, RunAloneKeepsIInv DEF ZoneDone
<1>6. CASE RunDone
  <2>1. RunOK(run')
    BY <1>6 DEF RunDone, RunOK, Idle, Run, Phases
  <2>2. status' \in [ok : SUBSET Pairs, changed : SUBSET Pairs]
    BY <1>0, <1>6 DEF RunDone, Run
  <2>3. quiet' \in 0..3
    <3>1. quiet \in 0..3
      BY DEF IInv, TypeOK
    <3>2. Min({quiet + 1, 3}) \in {quiet + 1, 3} /\ Min({quiet + 1, 3}) <= 3
      BY <3>1, MinOfTwo
    <3>3. QED
      BY <1>6, <3>1, <3>2 DEF RunDone
  <2>4. QED
    BY <1>6, <2>1, <2>2, <2>3
       DEF RunDone, IInv, TypeOK, Placed, Managing, RunOK
<1>7. QED
  BY <1>2, <1>3, <1>4, <1>5, <1>6

LEMMA FaultKeepsIInv ==
    ASSUME IInv, Fault
    PROVE  IInv'
<1> USE DEF At, storeVars, serverVars
<1>0. run \in Run /\ run.adds \subseteq run.want /\ RunOK(run)
  BY DEF IInv, TypeOK, RunOK, Placed, Managing
<1>1. ASSUME NEW r, RunOK(r)
      PROVE  RunOK(Dirty(r))
  BY <1>1 DEF RunOK, Dirty, Run
<1>2. CASE QueryFails /\ UNCHANGED held
  <2>1. RunOK(run')
    <3>1. RunOK([run EXCEPT !.todo = @ \ {Min(run.todo)}])
      BY <1>0 DEF RunOK, Run
    <3>2. RunOK([run EXCEPT !.zones = @ \ {Min(run.zones)}])
      BY <1>0 DEF RunOK, Run
    <3>3. run.phase \in {"ensure", "list"} => RunOK(NextZone(run))
      BY <1>0, LeavesZone DEF RunOK
    <3>4. QED
      BY <1>0, <1>1, <1>2, <3>1, <3>2, <3>3 DEF QueryFails
  <2>2. status' = status \/ status' = [ok |-> {}, changed |-> {}]
    BY <1>2 DEF QueryFails
  <2>3. QED
    BY <1>2, <2>1, <2>2, WritingKeepsIInv DEF Fault, IInv, TypeOK
<1>3. ASSUME NEW r \in Universe, AddFails(r), UNCHANGED status
      PROVE  IInv'
  <2>1. RunOK([run EXCEPT !.adds = @ \ {r}, !.failed = TRUE])
    BY <1>0 DEF RunOK, Run
  <2>2. QED
    BY <1>1, <1>3, <2>1, WritingKeepsIInv DEF Fault, AddFails, IInv, TypeOK
<1>4. ASSUME NEW r \in StoredRecords, DeleteFails(r), UNCHANGED status
      PROVE  IInv'
  <2>1. RunOK([run EXCEPT !.drops = @ \ {r}, !.failed = TRUE])
    BY <1>0 DEF RunOK, Run
  <2>2. QED
    BY <1>1, <1>4, <2>1, WritingKeepsIInv DEF Fault, DeleteFails, IInv, TypeOK
<1>5. QED
  BY <1>2, <1>3, <1>4 DEF Fault

LEMMA NextIInv == IInv /\ [Next]_vars => IInv'
<1> SUFFICES ASSUME IInv, [Next]_vars
             PROVE  IInv'
  OBVIOUS
<1>1. CASE Edit
  BY <1>1, EditKeepsIInv
<1>2. CASE RunStep
  BY <1>2, ReadKeepsIInv, StepKeepsIInv DEF RunStep
<1>3. CASE Fault
  BY <1>3, FaultKeepsIInv
<1>4. CASE UNCHANGED vars
  BY <1>4 DEF vars, storeVars, serverVars, IInv, TypeOK, Placed, Managing
<1>5. QED
  BY <1>1, <1>2, <1>3, <1>4 DEF Next

\* Throughout a run (reconcile.go, runOnce and reconcileZone) the parts of its
\* state are what they should be, it works on a provider and a zone there are,
\* has adds in hand only while it applies a delta, and has no record in its
\* list of deletes whose type ListRecords leaves out.
THEOREM Invariance == Spec => []IInv
BY InitIInv, NextIInv, PTL DEF Spec

\* The rows, the providers' records, the run and the status netdb shows have the
\* form that TypeOK gives them, after any edits, faults and runs.
THEOREM TypeCorrect == Spec => []TypeOK
<1>1. IInv => TypeOK
  BY DEF IInv
<1>2. QED
  BY <1>1, Invariance, PTL

-----------------------------------------------------------------------------
\* Records netdb does not manage

Kept == \A at \in Pairs : \A r \in held[at] : r.type \notin Managed => r \in held'[at]

\* A delete takes records of its own type only.
LEMMA DeleteKeeps ==
    ASSUME IInv, Here \in Pairs, NEW d \in run.drops, held' = WithoutRecord(d)
    PROVE  Kept
<1> SUFFICES ASSUME NEW at \in Pairs, NEW r \in held[at], r.type \notin Managed
             PROVE  r \in held'[at]
  BY DEF Kept
<1>1. d \in StoredRecords /\ d.type \in Managed
  BY DEF IInv, TypeOK, Run, Managing
<1>2. Stored(d).type # r.type
  BY <1>1, StoredKeepsType
<1>3. Key(r) # Key(Stored(d))
  BY <1>2 DEF Key
<1>4. held \in [Pairs -> SUBSET StoredRecords]
  BY DEF IInv, TypeOK
<1>5. QED
  BY <1>3, <1>4 DEF WithoutRecord

LEMMA AddKeeps ==
    ASSUME IInv, NEW d, held' = WithRecord(d)
    PROVE  Kept
BY DEF IInv, TypeOK, WithRecord, Kept

\* What a step that is no edit may do to a provider: take one of the adds, or,
\* when they have all been tried, one of the deletes.
LEMMA Writes ==
    ASSUME IInv, [Next]_vars, edits' = edits
    PROVE  \/ held' = held
           \/ At("apply") /\ \E r \in run.adds : held' = WithRecord(r)
           \/ At("apply") /\ run.adds = {} /\ \E r \in run.drops : held' = WithoutRecord(r)
<1> USE DEF At, Untouched, storeVars, serverVars
<1>1. CASE Edit
  <2>1. edits \in Nat
    BY BoundIsNatural DEF IInv, TypeOK
  <2>2. edits' = edits + 1
    BY <1>1 DEF Edit, Edited, CreateProvider, DeleteProvider, LinkZoneProvider,
                UnlinkZoneProvider, EditRecords, DeleteZone, OperatorAdds,
                OperatorRemoves
  <2>3. QED
    BY <2>1, <2>2
<1>2. ASSUME NEW r \in Universe, AddRecord(r) \/ AddFails(r)
      PROVE  At("apply") /\ r \in run.adds /\ (held' = held \/ held' = WithRecord(r))
  BY <1>2 DEF AddRecord, AddFails
<1>3. ASSUME NEW r \in StoredRecords, DeleteRecord(r) \/ DeleteFails(r)
      PROVE  /\ At("apply") /\ run.adds = {} /\ r \in run.drops
             /\ held' = held \/ held' = WithoutRecord(r)
  BY <1>3 DEF DeleteRecord, DeleteFails
<1>4. CASE RunStep
  <2>1. CASE \/ ListProviders \/ SkipProvider \/ ListZones \/ LastZone
             \/ LoadDesired \/ EnsureZone \/ ListRecords \/ ZoneDone \/ RunDone
    BY <2>1 DEF ListProviders, SkipProvider, ListZones, LastZone,
                LoadDesired, EnsureZone, ListRecords, ZoneDone, RunDone
  <2>2. QED
    BY <1>2, <1>3, <1>4, <2>1 DEF RunStep
<1>5. CASE Fault
  BY <1>2, <1>3, <1>5 DEF Fault
<1>6. QED
  BY <1>1, <1>4, <1>5 DEF Next, vars

LEMMA StepKeeps ==
    ASSUME IInv, [Next]_vars, edits' = edits
    PROVE  Kept
<1>1. CASE held' = held
  BY <1>1 DEF Kept
<1>2. CASE At("apply") /\ \E r \in run.adds : held' = WithRecord(r)
  BY <1>2, AddKeeps
<1>3. CASE At("apply") /\ \E r \in run.drops : held' = WithoutRecord(r)
  BY <1>3, HereIsPair, DeleteKeeps DEF At
<1>4. QED
  BY <1>1, <1>2, <1>3, Writes

\* Whatever the store wants, whatever fails and whoever edits: no step of a run
\* removes a record of a type outside managedTypes (cloudflare.go:161-187,
\* technitium.go:212-234), as the diff never sees one and a delete names
\* the type along with the value.
THEOREM UnmanagedSurvive == Spec => UnmanagedKept
<1>1. IInv /\ [Next]_vars =>
        [\A at \in Pairs : \A r \in held[at] :
            r.type \notin Managed /\ edits' = edits => r \in held'[at]]_vars
  BY StepKeeps DEF Kept
<1>2. QED
  BY <1>1, Invariance, PTL DEF Spec, UnmanagedKept

-----------------------------------------------------------------------------
(***************************************************************************)
(* What a run knows.  While nobody edits and no call fails, what a run has *)
(* loaded of a zone is what the store wants there, and what it has left to *)
(* add and to delete is the whole difference to what the provider lists:   *)
(* so a zone in sync is not touched, by this run or by the next.           *)
(***************************************************************************)

Listed == Reported(held[Here])
Missing == {r \in run.want : Key(r) \notin Keys(Listed)}
Extra == {r \in Listed : Key(r) \notin Keys(run.want)}

Trimmed(at) == Keys(Reported(held[at])) \subseteq Keys(desired[at[2]])

IdleIsIdle == At("idle") => run = Idle

Fresh ==
    run.clean /\ run.phase \in {"ensure", "list", "apply"} => run.want = desired[run.zone]

Exactly ==
    run.clean /\ At("apply") =>
        /\ run.drops = Extra
        /\ run.adds \subseteq Missing
        /\ ~run.failed => run.adds = Missing

Truthful ==
    /\ run.clean => \A at \in run.ok : InSync(at)
    /\ quiet >= 1 => run.clean /\ \A at \in status.ok : InSync(at)

Knows == IdleIsIdle /\ Fresh /\ Exactly /\ Truthful

\* A record is its four fields.
LEMMA Fields ==
    ASSUME NEW r \in Universe \union StoredRecords
    PROVE  \E n, t, v, d : r = [name |-> n, type |-> t, value |-> v, dot |-> d]
<1>1. CASE r \in Universe
  BY <1>1, RecordsAreRecords
<1>2. CASE r \in StoredRecords
  <2>1. PICK u \in Universe : r = [u EXCEPT !.dot = FALSE]
    BY <1>2 DEF StoredRecords, Stored
  <2>2. PICK n, t, v, d : u = [name |-> n, type |-> t, value |-> v, dot |-> d]
    BY RecordsAreRecords
  <2>3. r = [name |-> n, type |-> t, value |-> v, dot |-> FALSE]
    BY <2>1, <2>2
  <2>4. QED
    BY <2>3
<1>3. QED
  BY <1>1, <1>2

LEMMA SameKey ==
    ASSUME NEW r \in Universe \union StoredRecords,
           NEW s \in Universe \union StoredRecords,
           Key(r) = Key(s)
    PROVE  r = s
<1>1. PICK n, t, v, d : r = [name |-> n, type |-> t, value |-> v, dot |-> d]
  BY Fields
<1>2. PICK n2, t2, v2, d2 : s = [name |-> n2, type |-> t2, value |-> v2, dot |-> d2]
  BY Fields
<1>3. QED
  BY <1>1, <1>2 DEF Key

LEMMA StoredIsStored ==
    ASSUME NEW r \in StoredRecords
    PROVE  Stored(r) = r
BY DEF StoredRecords, Stored

\* What can be listed as it was sent is stored as it was sent.
LEMMA SentAsItIs ==
    ASSUME NEW r \in Universe, r.dot = FALSE
    PROVE  Stored(r) = r
<1>1. PICK n, t, v, d : r = [name |-> n, type |-> t, value |-> v, dot |-> d]
  BY Fields
<1>2. QED
  BY <1>1 DEF Stored

-----------------------------------------------------------------------------
\* A run that has been disturbed knows nothing, and claims nothing.
LEMMA SpoiltKnows ==
    ASSUME run'.phase # "idle", run'.clean = FALSE, ~(quiet' >= 1)
    PROVE  Knows'
BY DEF Knows, IdleIsIdle, At, Fresh, Exactly, Truthful

\* A step that writes to no provider and begins or ends no delta.
LEMMA ReadingKnows ==
    ASSUME Knows, UNCHANGED <<held, desired, quiet, status>>,
           run'.phase \notin {"idle", "apply"}, Fresh',
           run'.clean = run.clean, run'.ok \subseteq run.ok
    PROVE  Knows'
<1>1. \A at : InSync(at)' <=> InSync(at)
  BY DEF InSync
<1>2. QED
  BY <1>1 DEF Knows, IdleIsIdle, At, Exactly, Truthful

LEMMA EditKnows ==
    ASSUME IInv, Knows, Edited
    PROVE  Knows'
<1>0. quiet' = 0 /\ run \in Run
  BY DEF Edited, IInv, TypeOK
<1>1. ~(quiet' >= 1) /\ run \in Run
  BY <1>0
<1>2. CASE At("idle")
  <2>1. run' = run /\ run = Idle
    BY <1>2 DEF Edited, Knows, IdleIsIdle
  <2>2. QED
    BY <1>1, <2>1 DEF Knows, IdleIsIdle, At, Fresh, Exactly, Truthful, Idle
<1>3. CASE ~At("idle")
  <2>1. run'.clean = FALSE /\ run'.phase # "idle"
    BY <1>1, <1>3 DEF Edited, At, Run
  <2>2. QED
    BY <1>1, <2>1, SpoiltKnows
<1>4. QED
  BY <1>2, <1>3

LEMMA ReadStepKnows ==
    ASSUME IInv, Knows,
           \/ ListProviders \/ SkipProvider \/ ListZones \/ LastZone
           \/ LoadDesired \/ EnsureZone
    PROVE  Knows'
<1> USE DEF At, Untouched, storeVars, serverVars
<1>0. run \in Run
  BY DEF IInv, TypeOK
<1>1. CASE ListProviders
  <2>1. run = Idle
    BY <1>1 DEF ListProviders, Knows, IdleIsIdle
  <2>2. run'.phase = "provider" /\ run'.clean = run.clean /\ run'.ok = run.ok
    BY <1>1, <2>1 DEF ListProviders, Idle
  <2>3. Fresh'
    BY <2>2 DEF Fresh
  <2>4. QED
    BY <1>1, <2>2, <2>3, ReadingKnows DEF ListProviders
<1>2. CASE SkipProvider
  <2>1. run'.phase = "provider" /\ run'.clean = run.clean /\ run'.ok = run.ok
    BY <1>0, <1>2 DEF SkipProvider, NextProvider, Run
  <2>2. Fresh'
    BY <2>1 DEF Fresh
  <2>3. QED
    BY <1>2, <2>1, <2>2, ReadingKnows DEF SkipProvider
<1>3. CASE ListZones
  <2>1. run'.phase = "zone" /\ run'.clean = run.clean /\ run'.ok = run.ok
    BY <1>0, <1>3 DEF ListZones, Run
  <2>2. Fresh'
    BY <2>1 DEF Fresh
  <2>3. QED
    BY <1>3, <2>1, <2>2, ReadingKnows DEF ListZones
<1>4. CASE LastZone
  <2>1. run'.phase = "provider" /\ run'.clean = run.clean /\ run'.ok = run.ok
    BY <1>0, <1>4 DEF LastZone, Run
  <2>2. Fresh'
    BY <2>1 DEF Fresh
  <2>3. QED
    BY <1>4, <2>1, <2>2, ReadingKnows DEF LastZone
<1>5. CASE LoadDesired
  <2>1. /\ run'.phase = "ensure" /\ run'.clean = run.clean /\ run'.ok = run.ok
        /\ run'.want = desired[run'.zone]
    BY <1>0, <1>5 DEF LoadDesired, Run
  <2>2. Fresh'
    BY <1>5, <2>1 DEF Fresh, LoadDesired
  <2>3. QED
    BY <1>5, <2>1, <2>2, ReadingKnows DEF LoadDesired
<1>6. CASE EnsureZone
  <2>1. /\ run'.phase \in {"list", "zone"}
        /\ run'.clean = run.clean /\ run'.ok = run.ok
        /\ run'.phase = "list" => run'.want = run.want /\ run'.zone = run.zone
    BY <1>0, <1>6 DEF EnsureZone, NextZone, Run
  <2>2. Fresh'
    BY <1>6, <2>1 DEF Fresh, EnsureZone, Knows
  <2>3. QED
    BY <1>6, <2>1, <2>2, ReadingKnows DEF EnsureZone
<1>7. QED
  BY <1>1, <1>2, <1>3, <1>4, <1>5, <1>6

LEMMA ListKnows ==
    ASSUME IInv, Knows, ListRecords
    PROVE  Knows'
<1> USE DEF At, Untouched, storeVars, serverVars
<1>0. run \in Run
  BY DEF IInv, TypeOK
<1>1. /\ run'.phase = "apply" /\ run'.clean = run.clean /\ run'.ok = run.ok
      /\ run'.want = run.want /\ run'.zone = run.zone
      /\ run'.adds = Missing /\ run'.drops = Extra
      /\ run'.provider = run.provider
  BY <1>0 DEF ListRecords, Run, Missing, Extra, Listed
<1>2. Here' = Here /\ held' = held /\ desired' = desired
  BY <1>1 DEF ListRecords, Here
<1>3. Missing' = Missing /\ Extra' = Extra
  BY <1>1, <1>2 DEF Missing, Extra, Listed
<1>4. Fresh' /\ Exactly'
  BY <1>1, <1>2, <1>3 DEF Fresh, Exactly, Knows, ListRecords
<1>5. \A at : InSync(at)' <=> InSync(at)
  BY <1>2 DEF InSync
<1>6. Truthful'
  BY <1>1, <1>5 DEF Truthful, Knows, ListRecords
<1>7. QED
  BY <1>1, <1>4, <1>6 DEF Knows, IdleIsIdle

\* What a clean run has in hand can be listed as it is sent.
LEMMA WantsAreListable ==
    ASSUME Listable, IInv, Knows, run.clean, At("apply")
    PROVE  /\ Here \in Pairs /\ Here[2] = run.zone
           /\ run.want = desired[run.zone] /\ run.want \in Desires
           /\ \A r \in run.want : r \in Universe /\ r.type \in Managed /\ Stored(r) = r
<1>1. Here \in Pairs /\ Here[2] = run.zone /\ run.zone \in Zones
  BY HereIsPair DEF At, Here, IInv, Placed
<1>2. run.want = desired[run.zone]
  BY DEF Knows, Fresh, At
<1>3. run.want \in Desires
  BY <1>1, <1>2 DEF IInv, TypeOK
<1>4. \A r \in run.want : r \in Universe /\ r.type \in Managed /\ r.dot = FALSE
  BY <1>3 DEF Listable, Universe
<1>5. QED
  BY <1>1, <1>2, <1>3, <1>4, SentAsItIs

\* A zone that has something to add or to delete is not in sync.
LEMMA WorkMeansDifference ==
    ASSUME Listable, IInv, Knows, run.clean, At("apply"),
           run.adds # {} \/ run.drops # {}
    PROVE  ~InSync(Here)
<1>1. Here[2] = run.zone /\ run.want = desired[run.zone]
  BY WantsAreListable
<1>2. run.adds \subseteq Missing /\ run.drops = Extra
  BY DEF Knows, Exactly
<1>3. Keys(Listed) # Keys(run.want)
  BY <1>2 DEF Missing, Extra, Keys
<1>4. QED
  BY <1>1, <1>3 DEF InSync, Listed

\* A step of the apply phase, wherever it leaves the delta.
LEMMA ApplyingKnows ==
    ASSUME Listable, IInv, Knows, At("apply"), run.clean,
           run.adds # {} \/ run.drops # {},
           UNCHANGED <<desired, status, quiet>>,
           run'.phase = "apply", run'.clean = run.clean, run'.ok = run.ok,
           run'.want = run.want, run'.zone = run.zone, run'.provider = run.provider,
           \A at \in Pairs \ {Here} : held'[at] = held[at],
           Exactly'
    PROVE  Knows'
<1>1. ~InSync(Here)
  BY WorkMeansDifference
<1>2. \A at \in Pairs : InSync(at) => InSync(at)'
  BY <1>1 DEF InSync
<1>3. run.ok \subseteq Pairs /\ status.ok \subseteq Pairs
  BY DEF IInv, TypeOK, Run
<1>4. Truthful'
  BY <1>2, <1>3 DEF Truthful, Knows
<1>5. QED
  BY <1>4 DEF Knows, IdleIsIdle, At, Fresh

\* Where nothing excludes it, a missing record is taken; a duplicate it is not.
LEMMA AddKnows ==
    ASSUME Listable, IInv, Knows, NEW r \in Universe, AddRecord(r)
    PROVE  Knows'
<1> USE DEF At, storeVars
<1>0. run \in Run /\ run.phase = "apply" /\ r \in run.adds /\ run.adds \subseteq run.want
  BY DEF IInv, TypeOK, AddRecord
<1>1. /\ run'.phase = "apply" /\ run'.clean = run.clean /\ run'.ok = run.ok
      /\ run'.want = run.want /\ run'.zone = run.zone /\ run'.provider = run.provider
      /\ run'.adds = run.adds \ {r} /\ run'.drops = run.drops
      /\ UNCHANGED <<desired, status, quiet>>
  BY <1>0 DEF AddRecord, Run
<1>2. CASE run.clean
  <2>1. /\ Here \in Pairs
        /\ \A q \in run.want : q \in Universe /\ q.type \in Managed /\ Stored(q) = q
    BY <1>0, <1>2, WantsAreListable
  <2>2. run.drops = Extra /\ run.adds \subseteq Missing
        /\ (~run.failed => run.adds = Missing)
    BY <1>0, <1>2 DEF Knows, Exactly
  <2>3. r \in Missing /\ Stored(r) = r /\ r.type \in Managed
    BY <1>0, <2>1, <2>2
  <2>4. held \in [Pairs -> SUBSET StoredRecords]
    BY DEF IInv, TypeOK
  <2>5. Here' = Here
    BY <1>1 DEF Here
  <2>6. CASE Accepts(r)
    <3>1. held' = WithRecord(r) /\ run'.failed = run.failed
      BY <1>0, <2>6 DEF AddRecord, Run
    <3>2. held'[Here] = held[Here] \union {r} /\ \A at \in Pairs \ {Here} : held'[at] = held[at]
      BY <2>1, <2>3, <2>4, <3>1 DEF WithRecord
    <3>3. Listed' = Listed \union {r}
      BY <2>3, <2>5, <3>2 DEF Listed, Reported
    <3>4. Keys(Listed)' = Keys(Listed) \union {Key(r)}
      BY <3>3 DEF Keys
    <3>5. Missing' = Missing \ {r}
      <4>1. \A q \in run.want : Key(q) = Key(r) <=> q = r
        BY <1>0, <2>1, SameKey
      <4>2. QED
        BY <1>1, <3>4, <4>1 DEF Missing
    <3>6. Extra' = Extra
      <4>1. Key(r) \in Keys(run.want)
        BY <1>0 DEF Keys
      <4>2. QED
        BY <1>1, <3>3, <4>1 DEF Extra
    <3>7. Exactly'
      BY <1>1, <2>2, <3>1, <3>5, <3>6 DEF Exactly
    <3>8. QED
      BY <1>0, <1>1, <1>2, <3>2, <3>7, ApplyingKnows
  <2>7. CASE ~Accepts(r)
    <3>1. ~Duplicate(r)
      <4>1. \A s \in held[Here] : Key(s) = Key(r) => s \in Listed
        BY <2>1, <2>3, <2>4, SameKey DEF Listed, Reported
      <4>2. QED
        BY <2>3, <4>1 DEF Duplicate, Keys, Missing
    <3>2. held' = held /\ run'.failed = TRUE
      BY <1>0, <2>7, <3>1 DEF AddRecord, Run
    <3>3. Missing' = Missing /\ Extra' = Extra
      BY <1>1, <2>5, <3>2 DEF Missing, Extra, Listed
    <3>4. Exactly'
      BY <1>1, <2>2, <3>2, <3>3 DEF Exactly
    <3>5. QED
      BY <1>0, <1>1, <1>2, <3>2, <3>4, ApplyingKnows
  <2>8. QED
    BY <2>6, <2>7
<1>3. CASE ~run.clean
  <2>1. run'.clean = FALSE /\ ~(quiet' >= 1)
    BY <1>0, <1>1, <1>3 DEF Knows, Truthful, Run
  <2>2. QED
    BY <1>1, <2>1, SpoiltKnows
<1>4. QED
  BY <1>2, <1>3

\* A delete finds the record it means, and takes no other.
LEMMA DeleteKnows ==
    ASSUME Listable, IInv, Knows, NEW r \in StoredRecords, DeleteRecord(r)
    PROVE  Knows'
<1> USE DEF At, storeVars
<1>0. run \in Run /\ run.phase = "apply" /\ r \in run.drops /\ run.adds = {}
  BY DEF IInv, TypeOK, DeleteRecord
<1>1. /\ run'.phase = "apply" /\ run'.clean = run.clean /\ run'.ok = run.ok
      /\ run'.want = run.want /\ run'.zone = run.zone /\ run'.provider = run.provider
      /\ run'.adds = run.adds /\ run'.drops = run.drops \ {r}
      /\ UNCHANGED <<desired, status, quiet>>
  BY <1>0 DEF DeleteRecord, Run
<1>2. CASE run.clean
  <2>1. Here \in Pairs
    BY <1>0, <1>2, WantsAreListable
  <2>2. run.drops = Extra /\ run.adds \subseteq Missing
        /\ (~run.failed => run.adds = Missing)
    BY <1>0, <1>2 DEF Knows, Exactly
  <2>3. held \in [Pairs -> SUBSET StoredRecords] /\ Stored(r) = r
    BY StoredIsStored DEF IInv, TypeOK
  <2>4. Here' = Here
    BY <1>1 DEF Here
  <2>5. r \in held[Here] /\ r \in Extra
    BY <1>0, <2>2 DEF Extra, Listed, Reported
  <2>6. run'.failed = run.failed /\ held' = WithoutRecord(r)
    BY <1>0, <2>5 DEF DeleteRecord, Run
  <2>7. /\ held'[Here] = held[Here] \ {r}
        /\ \A at \in Pairs \ {Here} : held'[at] = held[at]
    <3>1. \A s \in held[Here] : Key(s) = Key(r) <=> s = r
      BY <2>1, <2>3, SameKey
    <3>2. held' = [held EXCEPT ![Here] = {s \in @ : Key(s) # Key(r)}]
      BY <2>3, <2>6 DEF WithoutRecord
    <3>3. held'[Here] = {s \in held[Here] : Key(s) # Key(r)}
      BY <2>1, <2>3, <3>2
    <3>4. QED
      BY <2>1, <2>3, <3>1, <3>2, <3>3
  <2>8. Listed' = Listed \ {r}
    BY <2>4, <2>7 DEF Listed, Reported
  <2>9. Extra' = Extra \ {r}
    BY <1>1, <2>8 DEF Extra
  <2>10. Missing' = Missing
    <3>1. \A q \in run.want : Key(q) # Key(r)
      BY <2>5 DEF Extra, Keys
    <3>2. \A q \in run.want : Key(q) \in Keys(Listed)' <=> Key(q) \in Keys(Listed)
      BY <2>8, <3>1 DEF Keys
    <3>3. QED
      BY <1>1, <3>2 DEF Missing
  <2>11. Exactly'
    BY <1>1, <2>2, <2>6, <2>9, <2>10 DEF Exactly
  <2>12. QED
    BY <1>0, <1>1, <1>2, <2>7, <2>11, ApplyingKnows
<1>3. CASE ~run.clean
  <2>1. run'.clean = FALSE /\ ~(quiet' >= 1)
    BY <1>0, <1>1, <1>3 DEF Knows, Truthful, Run
  <2>2. QED
    BY <1>1, <2>1, SpoiltKnows
<1>4. QED
  BY <1>2, <1>3

\* When the delta is worked off without an error the zone is in sync.
LEMMA DoneMeansInSync ==
    ASSUME Listable, IInv, Knows, run.clean, At("apply"),
           run.adds = {}, run.drops = {}
    PROVE  /\ Trimmed(Here)
           /\ ~run.failed => InSync(Here)
<1>1. Here[2] = run.zone /\ run.want = desired[run.zone]
  BY WantsAreListable
<1>2. Extra = {} /\ (~run.failed => Missing = {})
  BY DEF Knows, Exactly
<1>3. Keys(Listed) \subseteq Keys(run.want)
  BY <1>2 DEF Extra, Keys
<1>4. ~run.failed => Keys(run.want) \subseteq Keys(Listed)
  BY <1>2 DEF Missing, Keys
<1>5. QED
  BY <1>1, <1>3, <1>4 DEF InSync, Trimmed, Listed

LEMMA ZoneDoneKnows ==
    ASSUME Listable, IInv, Knows, ZoneDone
    PROVE  Knows'
<1> USE DEF At, Untouched, storeVars, serverVars
<1>0. run \in Run
  BY DEF IInv, TypeOK
<1>1. /\ run'.phase = "zone" /\ run'.clean = run.clean
      /\ run'.ok = IF run.failed THEN run.ok ELSE run.ok \union {Here}
      /\ UNCHANGED <<held, desired, quiet, status>>
  BY <1>0 DEF ZoneDone, NextZone, Run
<1>2. \A at : InSync(at)' <=> InSync(at)
  BY <1>1 DEF InSync
<1>3. run.clean /\ ~run.failed => InSync(Here)
  BY DoneMeansInSync DEF ZoneDone
<1>4. Truthful'
  BY <1>1, <1>2, <1>3 DEF Truthful, Knows
<1>5. QED
  BY <1>1, <1>4 DEF Knows, IdleIsIdle, Fresh, Exactly

LEMMA RunDoneKnows ==
    ASSUME IInv, Knows, RunDone
    PROVE  Knows'
<1> USE DEF At, storeVars, serverVars
<1>1. run' = Idle /\ status'.ok = run.ok /\ UNCHANGED <<held, desired>>
  BY DEF RunDone
<1>2. \A at : InSync(at)' <=> InSync(at)
  BY <1>1 DEF InSync
<1>3. quiet' >= 1 => run.clean
  BY DEF RunDone
<1>4. Truthful'
  BY <1>1, <1>2, <1>3 DEF Truthful, Knows, Idle
<1>5. QED
  BY <1>1, <1>4 DEF Knows, IdleIsIdle, Fresh, Exactly, Idle

LEMMA FaultKnows ==
    ASSUME IInv, Knows, Fault
    PROVE  Knows'
<1> USE DEF At
<1>q. quiet' = 0
  BY DEF Fault
<1>0. run \in Run /\ ~(quiet' >= 1)
  BY <1>q DEF IInv, TypeOK
<1>1. CASE UNCHANGED run /\ status'.ok = {} /\ run.phase = "idle"
  <2>1. run = Idle
    BY <1>1 DEF Knows, IdleIsIdle
  <2>2. QED
    BY <1>0, <1>1, <2>1 DEF Knows, IdleIsIdle, Fresh, Exactly, Truthful, Idle
<1>2. CASE run'.clean = FALSE /\ run'.phase # "idle"
  BY <1>0, <1>2, SpoiltKnows
<1>3. ASSUME QueryFails
      PROVE  \/ UNCHANGED run /\ status'.ok = {} /\ run.phase = "idle"
             \/ run'.clean = FALSE /\ run'.phase # "idle"
  <2>1. \A r \in Run : Dirty(r).clean = FALSE /\ Dirty(r).phase = r.phase
    BY DEF Dirty, Run
  <2>2. /\ [run EXCEPT !.todo = @ \ {Min(run.todo)}] \in Run
        /\ [run EXCEPT !.zones = @ \ {Min(run.zones)}] \in Run
        /\ NextZone(run) \in Run /\ NextZone(run).phase = "zone"
    BY <1>0 DEF NextZone, Run, Phases
  <2>3. QED
    BY <1>0, <1>3, <2>1, <2>2 DEF QueryFails, NextProvider, Run
<1>4. ASSUME NEW r, AddFails(r) \/ DeleteFails(r)
      PROVE  run'.clean = FALSE /\ run'.phase # "idle"
  BY <1>0, <1>4 DEF AddFails, DeleteFails, Dirty, Run
<1>5. QED
  BY <1>1, <1>2, <1>3, <1>4 DEF Fault

LEMMA InitKnows == Init => Knows
BY DEF Init, Idle, Knows, IdleIsIdle, At, Fresh, Exactly, Truthful

LEMMA NextKnows ==
    ASSUME Listable
    PROVE  IInv /\ Knows /\ [Next]_vars => Knows'
<1> SUFFICES ASSUME IInv, Knows, [Next]_vars
             PROVE  Knows'
  OBVIOUS
<1>1. CASE Edit
  BY <1>1, EditKnows DEF Edit, CreateProvider, DeleteProvider, LinkZoneProvider,
       UnlinkZoneProvider, EditRecords, DeleteZone, OperatorAdds, OperatorRemoves
<1>2. CASE RunStep
  BY <1>2, ReadStepKnows, ListKnows, AddKnows, DeleteKnows, ZoneDoneKnows,
     RunDoneKnows DEF RunStep
<1>3. CASE Fault
  BY <1>3, FaultKnows
<1>4. CASE UNCHANGED vars
  BY <1>4 DEF vars, storeVars, serverVars, Knows, IdleIsIdle, At, Fresh, Exactly,
       Truthful, InSync, Missing, Extra, Listed, Here
<1>5. QED
  BY <1>1, <1>2, <1>3, <1>4 DEF Next

\* For stores whose records a provider lists as they were sent: what a run has
\* loaded, and what it has left to do, stays exact until somebody interferes
\* (reconcile.go:219-245).
THEOREM RunsKnow == Listable => (Spec => [](IInv /\ Knows))
<1> SUFFICES ASSUME Listable
             PROVE  Spec => [](IInv /\ Knows)
  OBVIOUS
<1>1. Init => Knows
  BY InitKnows
<1>2. IInv /\ Knows /\ [Next]_vars => Knows'
  BY NextKnows
<1>3. QED
  BY <1>1, <1>2, Invariance, PTL DEF Spec

\* For such stores, a zone that the status page shows OK holds exactly what the
\* store wanted, and still does unless somebody has edited or a call has failed
\* since the run began.
THEOREM StatusIsHonest == Listable => (Spec => []ReportHonest)
<1> SUFFICES ASSUME Listable
             PROVE  Spec => []ReportHonest
  OBVIOUS
<1>1. Knows => ReportHonest
  BY DEF Knows, Truthful, ReportHonest
<1>2. Spec => [](IInv /\ Knows)
  BY RunsKnow
<1>3. QED
  BY <1>1, <1>2, PTL

-----------------------------------------------------------------------------
\* Names that resolve

\* A delete in a clean run, once every add has been taken: what is wanted is
\* there and is not what is deleted.
LEMMA DeleteLeavesWanted ==
    ASSUME Listable, IInv, Knows, run.clean, ~run.failed, At("apply"),
           run.adds = {}, NEW d \in run.drops, held' = WithoutRecord(d),
           NEW at \in Pairs, NEW q \in run.want,
           NEW types, q.type \in types, Resolves(held, at, q.name, types)
    PROVE  Resolves(held', at, q.name, types)
<1>1. Here \in Pairs /\ q.type \in Managed
  BY WantsAreListable
<1>2. held \in [Pairs -> SUBSET StoredRecords] /\ d \in StoredRecords
  BY DEF IInv, TypeOK, Run
<1>3. Stored(d) = d
  BY <1>2, StoredIsStored
<1>4. CASE at = Here
  <2>1. Missing = {} /\ d \in Extra
    BY DEF Knows, Exactly
  <2>2. PICK s \in Listed : Key(s) = Key(q)
    BY <2>1 DEF Missing, Keys
  <2>3. s \in held[Here] /\ s.type = q.type /\ s.name = q.name
    BY <2>2 DEF Listed, Reported, Key
  <2>4. Key(s) # Key(d)
    BY <2>1, <2>2 DEF Extra, Keys
  <2>5. s \in held'[Here]
    BY <1>1, <1>2, <1>3, <2>3, <2>4 DEF WithoutRecord
  <2>6. QED
    BY <1>4, <2>3, <2>5 DEF Resolves
<1>5. CASE at # Here
  <2>1. held'[at] = held[at]
    BY <1>1, <1>2, <1>5 DEF WithoutRecord
  <2>2. QED
    BY <2>1 DEF Resolves
<1>6. QED
  BY <1>4, <1>5

LEMMA StepLeavesWanted ==
    ASSUME Listable, IInv, Knows, [Next]_vars, edits' = edits,
           run.clean, ~run.failed,
           NEW at \in Pairs, NEW q \in run.want,
           NEW types \in {Managed, {q.type}},
           Resolves(held, at, q.name, types)
    PROVE  Resolves(held', at, q.name, types)
<1>1. CASE held' = held
  BY <1>1
<1>2. CASE At("apply") /\ \E r \in run.adds : held' = WithRecord(r)
  <2>1. held[at] \subseteq held'[at]
    BY <1>2 DEF IInv, TypeOK, WithRecord
  <2>2. QED
    BY <2>1 DEF Resolves
<1>3. CASE /\ At("apply") /\ run.adds = {}
           /\ \E r \in run.drops : held' = WithoutRecord(r)
  <2>1. q.type \in types
    BY <1>3, WantsAreListable
  <2>2. QED
    BY <1>3, <2>1, DeleteLeavesWanted
<1>4. QED
  BY <1>1, <1>2, <1>3, Writes

\* For such stores, a wanted name that resolves goes on resolving while its records
\* are replaced, and so does each type wanted for it (reconcile.go:229-245): by the
\* time of the first delete everything wanted is there, unless an add has failed or
\* been refused, or somebody has edited.
THEOREM ReplacingIsSeamless == Listable => (Spec => NoOutage)
<1> SUFFICES ASSUME Listable
             PROVE  Spec => NoOutage
  OBVIOUS
<1>1. IInv /\ Knows /\ [Next]_vars =>
        [\A at \in Pairs, w \in run.want : \A types \in {Managed, {w.type}} :
            Resolves(held, at, w.name, types) /\ run.clean /\ ~run.failed /\ edits' = edits
                => Resolves(held', at, w.name, types)]_vars
  BY StepLeavesWanted
<1>2. Spec => [](IInv /\ Knows)
  BY RunsKnow
<1>3. QED
  BY <1>1, <1>2, PTL DEF Spec, NoOutage

-----------------------------------------------------------------------------
(***************************************************************************)
(* How far undisturbed runs have brought a zone: after one it holds        *)
(* nothing but what is wanted, and so after two it holds all of it.        *)
(***************************************************************************)

Level(at, n) == (n >= 1 => Trimmed(at)) /\ (n >= 2 => InSync(at))

\* A clean run works on what the tables and the provider still have.
Scoped ==
    run.clean /\ ~At("idle") =>
        /\ run.todo \subseteq rows
        /\ At("provider") => run.zones = {}
        /\ ~At("provider") =>
            /\ run.provider \in rows /\ Kind[run.provider] \in Configured
            /\ \A z \in run.zones : <<run.provider, z>> \in links
        /\ run.phase \in {"ensure", "list", "apply"} => Here \in links
        /\ run.phase \in {"list", "apply"} => Here \in hosted

Ahead(at) == at[1] \in run.todo \/ (at[1] = run.provider /\ at[2] \in run.zones)
InHand(at) == run.phase \in {"ensure", "list", "apply"} /\ at = Here

Levelled ==
    /\ \A at \in Servable : Level(at, quiet)
    /\ run.clean /\ ~At("idle") =>
        \A at \in Servable : Ahead(at) \/ InHand(at) \/ Level(at, quiet + 1)

\* The first undisturbed run may be refused an add, the second is not; the third
\* has nothing to do.
Unrefused == run.clean /\ (At("apply") => quiet >= 1) => ~run.failed

Still ==
    /\ quiet >= 2 => run.changed = {}
    /\ quiet >= 3 => status.changed = {}

Progress == Scoped /\ Levelled /\ Unrefused /\ Still

-----------------------------------------------------------------------------
\* A step that spoils the quiet has nothing to keep.
LEMMA SpoiltProgress ==
    ASSUME run'.clean = FALSE \/ run' = Idle, quiet' = 0
    PROVE  Progress'
<1>1. ~(quiet' >= 1) /\ ~(quiet' >= 2) /\ ~(quiet' >= 3)
  OBVIOUS
<1>2. QED
  BY <1>1 DEF Progress, Scoped, Levelled, Level, Unrefused, Still, At, Idle

\* In a run that has been disturbed there has been no undisturbed one since.
LEMMA DisturbedProgress ==
    ASSUME IInv, Knows, ~run.clean, run'.clean = run.clean, quiet' = quiet
    PROVE  Progress'
<1>1. quiet = 0
  BY DEF Knows, Truthful, IInv, TypeOK
<1>2. run'.clean = FALSE
  BY DEF IInv, TypeOK, Run
<1>3. QED
  BY <1>1, <1>2, SpoiltProgress

LEMMA SameLevels ==
    ASSUME UNCHANGED <<held, desired>>
    PROVE  \A at : Trimmed(at)' = Trimmed(at) /\ InSync(at)' = InSync(at)
BY DEF Trimmed, InSync

\* A step that writes to no provider, of a run that goes on.
LEMMA ReadingProgress ==
    ASSUME Progress, UNCHANGED <<held, desired, quiet, status>>,
           Servable' = Servable, ~At("idle")', run'.changed = run.changed,
           Scoped', run'.failed = FALSE,
           \A at \in Servable : Ahead(at)' \/ InHand(at)' \/ Level(at, quiet + 1)
    PROVE  Progress'
<1>1. \A at, n : Level(at, n)' = Level(at, n)
  BY SameLevels DEF Level
<1>2. Levelled'
  BY <1>1 DEF Progress, Levelled
<1>3. Unrefused' /\ Still'
  BY DEF Progress, Unrefused, Still
<1>4. QED
  BY <1>2, <1>3 DEF Progress

LEMMA ListProvidersProgress ==
    ASSUME IInv, Knows, Progress, ListProviders
    PROVE  Progress'
<1> USE DEF At, Untouched, storeVars, serverVars
<1>1. run = Idle /\ run' = [Idle EXCEPT !.phase = "provider", !.todo = rows]
  BY DEF ListProviders, Knows, IdleIsIdle
<1>2. /\ run'.phase = "provider" /\ run'.todo = rows /\ run'.zones = {}
      /\ run'.changed = run.changed /\ run'.failed = FALSE
  BY <1>1 DEF Idle
<1>3. UNCHANGED <<storeVars, serverVars, status, quiet>>
  BY DEF ListProviders
<1>4. Servable' = Servable
  BY <1>3 DEF Servable, Served
<1>5. Scoped'
  BY <1>2, <1>3 DEF Scoped
<1>6. \A at \in Servable : Ahead(at)'
  BY <1>2 DEF Servable, Served, Ahead
<1>7. QED
  BY <1>2, <1>3, <1>4, <1>5, <1>6, ReadingProgress

\* Between the zones: nothing is in hand.
LEMMA ProviderProgress ==
    ASSUME IInv, Knows, Progress, run.clean,
           SkipProvider \/ ListZones \/ LastZone
    PROVE  Progress'
<1> USE DEF At, Untouched, storeVars, serverVars
<1>0. run \in Run /\ run.phase \in {"provider", "zone"}
  BY DEF IInv, TypeOK, SkipProvider, ListZones, LastZone, NextProvider
<1>1. /\ run.todo \subseteq rows
      /\ run.phase = "provider" => run.zones = {}
      /\ run.failed = FALSE
      /\ \A at \in Servable : Ahead(at) \/ Level(at, quiet + 1)
  BY <1>0 DEF Progress, Scoped, Levelled, InHand, Unrefused, Run
<1>2. UNCHANGED <<storeVars, serverVars, status, quiet>>
  BY DEF SkipProvider, ListZones, LastZone
<1>3. Servable' = Servable
  BY <1>2 DEF Servable, Served
<1>4. run.todo # {} => Min(run.todo) \in run.todo
  BY <1>0, MinIsMember, NumberedByName DEF Run
<1>5. CASE SkipProvider
  <2>1. /\ run'.phase = "provider" /\ run'.todo = run.todo \ {Min(run.todo)}
        /\ run'.zones = run.zones /\ run'.provider = run.provider
        /\ run'.changed = run.changed /\ run'.failed = run.failed
        /\ Kind[Min(run.todo)] \notin Configured /\ run.phase = "provider"
    BY <1>0, <1>5 DEF SkipProvider, NextProvider, Run
  <2>2. Scoped'
    BY <1>1, <1>2, <2>1 DEF Scoped
  <2>3. \A at \in Servable : at[1] # Min(run.todo)
    BY <2>1 DEF Servable, Served
  <2>4. \A at \in Servable : Ahead(at)' \/ Level(at, quiet + 1)
    BY <1>1, <2>1, <2>3 DEF Ahead
  <2>5. QED
    BY <1>1, <1>2, <1>3, <2>1, <2>2, <2>4, ReadingProgress
<1>6. CASE ListZones
  <2> DEFINE p == Min(run.todo)
  <2>1. /\ run'.phase = "zone" /\ run'.todo = run.todo \ {p} /\ run'.provider = p
        /\ run'.zones = {z \in Zones : <<p, z>> \in links}
        /\ run'.changed = run.changed /\ run'.failed = run.failed
        /\ Kind[p] \in Configured /\ run.phase = "provider" /\ run.todo # {}
    BY <1>0, <1>6 DEF ListZones, NextProvider, Run
  <2>2. p \in rows
    BY <1>1, <1>4, <2>1
  <2>3. Scoped'
    BY <1>1, <1>2, <2>1, <2>2 DEF Scoped
  <2>4. \A at \in Servable : at[2] \in Zones /\ at = <<at[1], at[2]>> /\ at \in links
    BY DEF Servable, Served, IInv, TypeOK, Pairs
  <2>5. ASSUME NEW at \in Servable
        PROVE  Ahead(at)' \/ Level(at, quiet + 1)
    <3>1. CASE at[1] = p
      BY <2>1, <2>4, <3>1 DEF Ahead
    <3>2. CASE at[1] # p
      BY <1>1, <2>1, <3>2 DEF Ahead
    <3>3. QED
      BY <3>1, <3>2
  <2>6. QED
    BY <1>1, <1>2, <1>3, <2>1, <2>3, <2>5, ReadingProgress
<1>7. CASE LastZone
  <2>1. /\ run'.phase = "provider" /\ run'.todo = run.todo /\ run'.zones = {}
        /\ run'.changed = run.changed /\ run'.failed = run.failed /\ run.zones = {}
    BY <1>0, <1>7 DEF LastZone, Run
  <2>2. Scoped'
    BY <1>1, <1>2, <2>1 DEF Scoped
  <2>3. \A at \in Servable : Ahead(at)' \/ Level(at, quiet + 1)
    BY <1>1, <2>1 DEF Ahead
  <2>4. QED
    BY <1>1, <1>2, <1>3, <2>1, <2>2, <2>3, ReadingProgress
<1>8. QED
  BY <1>5, <1>6, <1>7

\* What Scoped says of a zone in hand.
LEMMA ScopeOfZone ==
    ASSUME IInv, Progress, run.clean, run.phase \in {"zone", "ensure", "list", "apply"}
    PROVE  /\ run \in Run
           /\ run.todo \subseteq rows
           /\ run.provider \in rows /\ Kind[run.provider] \in Configured
           /\ \A z \in run.zones : <<run.provider, z>> \in links
           /\ run.phase # "zone" => Here \in links
           /\ run.phase \in {"list", "apply"} => Here \in hosted
           /\ \A at \in Servable : Ahead(at) \/ InHand(at) \/ Level(at, quiet + 1)
           /\ run.phase # "apply" => run.failed = FALSE
BY DEF IInv, TypeOK, Run, Progress, Scoped, Levelled, Unrefused, At

LEMMA LoadProgress ==
    ASSUME IInv, Knows, Progress, run.clean, LoadDesired
    PROVE  Progress'
<1> USE DEF At, Untouched, storeVars, serverVars
<1>0. run \in Run /\ run.phase = "zone" /\ run.zones # {}
  BY DEF IInv, TypeOK, LoadDesired
<1> DEFINE z == Min(run.zones)
<1>1. z \in run.zones
  BY <1>0, MinIsMember, NumberedByName DEF Run
<1>2. /\ run'.phase = "ensure" /\ run'.todo = run.todo /\ run'.provider = run.provider
      /\ run'.zones = run.zones \ {z} /\ run'.zone = z /\ run'.clean = run.clean
      /\ run'.changed = run.changed /\ run'.failed = run.failed
      /\ UNCHANGED <<storeVars, serverVars, status, quiet>>
  BY <1>0 DEF LoadDesired, Run
<1> HIDE DEF z
<1>3. Servable' = Servable
  BY <1>2 DEF Servable, Served
<1>4. Here' = <<run.provider, z>>
  BY <1>2 DEF Here
<1>5. Scoped'
  BY <1>0, <1>1, <1>2, <1>4, ScopeOfZone DEF Scoped
<1>6. ASSUME NEW at \in Servable
      PROVE  Ahead(at)' \/ InHand(at)' \/ Level(at, quiet + 1)
  <2>1. at = <<at[1], at[2]>>
    BY DEF Servable, Served, IInv, TypeOK, Pairs
  <2>2. Ahead(at) \/ Level(at, quiet + 1)
    BY <1>0, ScopeOfZone DEF InHand
  <2>3. CASE at[1] = run.provider /\ at[2] = z
    BY <1>2, <1>4, <2>1, <2>3 DEF InHand
  <2>4. CASE ~(at[1] = run.provider /\ at[2] = z)
    BY <1>2, <2>2, <2>4 DEF Ahead
  <2>5. QED
    BY <2>3, <2>4
<1>7. run.failed = FALSE
  BY <1>0, ScopeOfZone
<1>8. QED
  BY <1>2, <1>3, <1>5, <1>6, <1>7, ReadingProgress

\* A zone that is given up here is one that no run can serve.
LEMMA EnsureProgress ==
    ASSUME IInv, Knows, Progress, run.clean, EnsureZone
    PROVE  Progress'
<1> USE DEF At, storeVars
<1>0. run \in Run /\ run.phase = "ensure" /\ run.failed = FALSE
  BY ScopeOfZone DEF EnsureZone
<1>1. UNCHANGED <<storeVars, held, status, quiet>>
  BY DEF EnsureZone
<1>2. Here = <<run.provider, run.zone>> /\ Here[1] = run.provider
  BY DEF Here
<1>3. hosted' = IF Kind[run.provider] = "technitium" THEN hosted \union {Here} ELSE hosted
  BY DEF EnsureZone
<1>4. Servable' = Servable
  BY <1>1, <1>2, <1>3 DEF Servable, Served
<1>5. CASE Here \in hosted'
  <2>1. run' = [run EXCEPT !.phase = "list"]
    BY <1>5 DEF EnsureZone
  <2>2. /\ run'.phase = "list" /\ run'.todo = run.todo /\ run'.zones = run.zones
        /\ run'.provider = run.provider /\ run'.zone = run.zone
        /\ run'.changed = run.changed /\ run'.failed = FALSE
    BY <1>0, <2>1 DEF Run
  <2>3. Here' = Here
    BY <2>2 DEF Here
  <2>4. Scoped'
    BY <1>0, <1>1, <1>5, <2>2, <2>3, ScopeOfZone DEF Scoped
  <2>5. \A at \in Servable : Ahead(at)' \/ InHand(at)' \/ Level(at, quiet + 1)
    BY <1>0, <2>2, <2>3, ScopeOfZone DEF Ahead, InHand
  <2>6. QED
    BY <1>1, <1>4, <2>2, <2>4, <2>5, ReadingProgress
<1>6. CASE Here \notin hosted'
  <2>1. run' = NextZone(run)
    BY <1>6 DEF EnsureZone
  <2>2. /\ run'.phase = "zone" /\ run'.todo = run.todo /\ run'.zones = run.zones
        /\ run'.provider = run.provider
        /\ run'.changed = run.changed /\ run'.failed = FALSE
    BY <1>0, <2>1 DEF NextZone, Run
  <2>3. Here \notin Servable
    BY <1>2, <1>3, <1>6 DEF Servable
  <2>4. Scoped'
    BY <1>0, <1>1, <2>2, ScopeOfZone DEF Scoped
  <2>5. \A at \in Servable : Ahead(at)' \/ InHand(at)' \/ Level(at, quiet + 1)
    BY <1>0, <2>2, <2>3, ScopeOfZone DEF Ahead, InHand
  <2>6. QED
    BY <1>1, <1>4, <2>2, <2>4, <2>5, ReadingProgress
<1>7. QED
  BY <1>5, <1>6

LEMMA ListRecordsProgress ==
    ASSUME IInv, Knows, Progress, run.clean, ListRecords
    PROVE  Progress'
<1> USE DEF At, Untouched, storeVars, serverVars
<1>0. run \in Run /\ run.phase = "list" /\ run.failed = FALSE
  BY ScopeOfZone DEF ListRecords
<1>1. /\ run'.phase = "apply" /\ run'.todo = run.todo /\ run'.zones = run.zones
      /\ run'.provider = run.provider /\ run'.zone = run.zone
      /\ run'.changed = run.changed /\ run'.failed = FALSE
      /\ UNCHANGED <<storeVars, serverVars, status, quiet>>
  BY <1>0 DEF ListRecords, Run
<1>2. Here' = Here
  BY <1>1 DEF Here
<1>3. Servable' = Servable
  BY <1>1 DEF Servable, Served
<1>4. Scoped'
  BY <1>0, <1>1, <1>2, ScopeOfZone DEF Scoped
<1>5. \A at \in Servable : Ahead(at)' \/ InHand(at)' \/ Level(at, quiet + 1)
  BY <1>0, <1>1, <1>2, ScopeOfZone DEF Ahead, InHand
<1>6. QED
  BY <1>1, <1>3, <1>4, <1>5, ReadingProgress

-----------------------------------------------------------------------------
\* The zone in hand is one that runs can serve; with something left to do in it
\* it is not in sync, so fewer than two undisturbed runs have gone before.
LEMMA HereIsServable ==
    ASSUME Listable, IInv, Knows, Progress, run.clean, At("apply")
    PROVE  /\ Here \in Servable
           /\ quiet >= 1 => Trimmed(Here)
           /\ run.adds # {} \/ run.drops # {} => ~(quiet >= 2)
<1>1. Here \in links /\ Here \in hosted /\ run.provider \in rows
      /\ Kind[run.provider] \in Configured
  BY ScopeOfZone DEF At
<1>2. Here[1] = run.provider
  BY DEF Here
<1>3. Here \in Servable
  BY <1>1, <1>2 DEF Servable, Served
<1>4. Level(Here, quiet)
  BY <1>3 DEF Progress, Levelled
<1>5. QED
  BY <1>3, <1>4, WorkMeansDifference DEF Level

\* A trimmed zone holds nothing that would refuse what is missing from it.
LEMMA TrimmedAccepts ==
    ASSUME Listable, Compatible, IInv, Knows, run.clean, At("apply"),
           Trimmed(Here), NEW r \in run.adds
    PROVE  Accepts(r)
<1>1. /\ Here \in Pairs /\ Here[2] = run.zone
      /\ run.want = desired[run.zone] /\ run.want \in Desires
      /\ \A q \in run.want : q \in Universe /\ q.type \in Managed /\ Stored(q) = q
  BY WantsAreListable
<1>2. r \in Missing /\ r \in run.want /\ Stored(r) = r
  BY <1>1 DEF IInv, TypeOK, Knows, Exactly
<1>3. ASSUME NEW s \in held[Here]
      PROVE  Key(s) # Key(r) /\ ~Conflict(s, r)
  <2>1. s \in StoredRecords
    BY <1>1 DEF IInv, TypeOK
  <2>2. CASE s.type \in Managed
    <3>1. s \in Listed
      BY <2>2 DEF Listed, Reported
    <3>2. PICK q \in run.want : Key(q) = Key(s)
      BY <1>1, <3>1 DEF Trimmed, Listed, Keys
    <3>3. q = s
      BY <1>1, <2>1, <3>2, SameKey
    <3>4. QED
      BY <1>1, <1>2, <3>1, <3>3 DEF Missing, Keys, Compatible
  <2>3. CASE s.type \notin Managed
    <3>1. Key(s) # Key(r)
      BY <1>1, <1>2, <2>3 DEF Key
    <3>2. QED
      BY <1>1, <1>2, <2>1, <2>3, <3>1 DEF Compatible
  <2>4. QED
    BY <2>2, <2>3
<1>4. QED
  BY <1>2, <1>3 DEF Accepts

\* A step of the apply phase that leaves the zone trimmed if it was.
LEMMA ApplyingProgress ==
    ASSUME Listable, IInv, Knows, Progress, run.clean, At("apply"),
           run.adds # {} \/ run.drops # {},
           UNCHANGED <<storeVars, hosted, status, quiet>>,
           run'.phase = "apply", run'.todo = run.todo, run'.zones = run.zones,
           run'.provider = run.provider, run'.zone = run.zone,
           quiet >= 1 => run'.failed = FALSE,
           \A at \in Pairs \ {Here} : held'[at] = held[at],
           Trimmed(Here) => Trimmed(Here)'
    PROVE  Progress'
<1> USE DEF At, storeVars
<1>1. /\ Here \in Servable /\ (quiet >= 1 => Trimmed(Here)) /\ ~(quiet >= 2)
      /\ ~(quiet >= 3)
  BY HereIsServable DEF IInv, TypeOK
<1>2. Servable' = Servable /\ Servable \subseteq Pairs /\ Here' = Here
  BY DEF Servable, Served, IInv, TypeOK, Here
<1>3. \A at \in Pairs \ {Here} :
        Trimmed(at)' = Trimmed(at) /\ InSync(at)' = InSync(at)
  BY DEF Trimmed, InSync
<1>4. Trimmed(Here)' <=> Keys(Reported(held'[Here])) \subseteq Keys(desired'[Here[2]])
  BY <1>2 DEF Trimmed
<1>5. \A at \in Servable : Level(at, quiet)'
  <2>1. ASSUME NEW at \in Servable
        PROVE  Level(at, quiet)'
    <3>1. CASE at = Here
      BY <1>1, <1>4, <3>1 DEF Level, Trimmed
    <3>2. CASE at # Here
      BY <1>2, <1>3, <3>2 DEF Level, Progress, Levelled
    <3>3. QED
      BY <3>1, <3>2
  <2>2. QED
    BY <2>1
<1>6. ASSUME NEW at \in Servable
      PROVE  (Ahead(at) \/ InHand(at) \/ Level(at, quiet + 1))'
  <2>1. CASE at = Here
    BY <1>2, <2>1 DEF InHand
  <2>2. CASE at # Here
    <3>1. Ahead(at) \/ Level(at, quiet + 1)
      BY <2>2, ScopeOfZone DEF InHand
    <3>2. QED
      BY <1>2, <1>3, <2>2, <3>1 DEF Ahead, Level
  <2>3. QED
    BY <2>1, <2>2
<1>7. Levelled'
  BY <1>2, <1>5, <1>6 DEF Levelled
<1>8. Scoped'
  BY <1>2, ScopeOfZone DEF Scoped
<1>9. Unrefused' /\ Still'
  BY <1>1 DEF Unrefused, Still
<1>10. QED
  BY <1>7, <1>8, <1>9 DEF Progress

LEMMA AddProgress ==
    ASSUME Listable, Compatible, IInv, Knows, Progress, run.clean,
           NEW r \in Universe, AddRecord(r)
    PROVE  Progress'
<1> USE DEF At, storeVars
<1>0. run \in Run /\ run.phase = "apply" /\ r \in run.adds /\ run.adds \subseteq run.want
  BY DEF IInv, TypeOK, AddRecord
<1>1. /\ run'.phase = "apply" /\ run'.todo = run.todo /\ run'.zones = run.zones
      /\ run'.provider = run.provider /\ run'.zone = run.zone
      /\ run'.failed = run.failed \/ ~Accepts(r)
      /\ UNCHANGED <<storeVars, hosted, status, quiet>>
  BY <1>0 DEF AddRecord, Run
<1>2. /\ Here \in Pairs /\ Here[2] = run.zone /\ run.want = desired[run.zone]
      /\ Stored(r) = r
  BY <1>0, WantsAreListable
<1>3. held' = held \/ held' = WithRecord(r)
  BY DEF AddRecord
<1>4. held \in [Pairs -> SUBSET StoredRecords]
  BY DEF IInv, TypeOK
<1>5. \A at \in Pairs \ {Here} : held'[at] = held[at]
  BY <1>2, <1>3, <1>4 DEF WithRecord
<1>6. quiet >= 1 => run'.failed = FALSE
  <2>1. quiet >= 1 => Trimmed(Here) /\ run.failed = FALSE
    BY <1>0, HereIsServable DEF Progress, Unrefused, Run
  <2>2. QED
    BY <1>0, <1>1, <2>1, TrimmedAccepts
<1>7. Trimmed(Here) => Trimmed(Here)'
  <2>1. held'[Here] \subseteq held[Here] \union {r}
    BY <1>2, <1>3, <1>4 DEF WithRecord
  <2>2. Key(r) \in Keys(desired[Here[2]])
    BY <1>0, <1>2 DEF Keys
  <2>3. Here' = Here /\ desired' = desired
    BY <1>1 DEF Here
  <2>4. QED
    BY <2>1, <2>2, <2>3 DEF Trimmed, Reported, Keys
<1>8. run.adds # {}
  BY <1>0
<1>9. QED
  BY <1>0, <1>1, <1>5, <1>6, <1>7, <1>8, ApplyingProgress

LEMMA DeleteProgress ==
    ASSUME Listable, IInv, Knows, Progress, run.clean,
           NEW r \in StoredRecords, DeleteRecord(r)
    PROVE  Progress'
<1> USE DEF At, storeVars
<1>0. run \in Run /\ run.phase = "apply" /\ r \in run.drops
  BY DEF IInv, TypeOK, DeleteRecord
<1>1. r \in held[Here]
  BY <1>0 DEF Knows, Exactly, Extra, Listed, Reported
<1>2. /\ run'.phase = "apply" /\ run'.todo = run.todo /\ run'.zones = run.zones
      /\ run'.provider = run.provider /\ run'.zone = run.zone
      /\ run'.failed = run.failed
      /\ UNCHANGED <<storeVars, hosted, status, quiet>>
  BY <1>0, <1>1 DEF DeleteRecord, Run
<1>3. Here \in Pairs /\ held \in [Pairs -> SUBSET StoredRecords]
  BY <1>0, WantsAreListable DEF IInv, TypeOK
<1>4. held'[Here] \subseteq held[Here] /\ \A at \in Pairs \ {Here} : held'[at] = held[at]
  BY <1>3 DEF DeleteRecord, WithoutRecord
<1>5. Here' = Here /\ desired' = desired
  BY <1>2 DEF Here
<1>6. Trimmed(Here) => Trimmed(Here)'
  BY <1>4, <1>5 DEF Trimmed, Reported, Keys
<1>7. quiet >= 1 => run'.failed = FALSE
  BY <1>0, <1>2 DEF Progress, Unrefused, Run
<1>8. run.drops # {}
  BY <1>0
<1>9. QED
  BY <1>0, <1>2, <1>4, <1>6, <1>7, <1>8, ApplyingProgress

\* The zone comes out one level up.
LEMMA ZoneDoneProgress ==
    ASSUME Listable, IInv, Knows, Progress, run.clean, ZoneDone
    PROVE  Progress'
<1> USE DEF At, Untouched, storeVars, serverVars
<1>0. run \in Run /\ run.phase = "apply" /\ run.adds = {} /\ run.drops = {}
  BY DEF IInv, TypeOK, ZoneDone
<1>1. /\ run'.phase = "zone" /\ run'.todo = run.todo /\ run'.zones = run.zones
      /\ run'.provider = run.provider /\ run'.failed = FALSE
      /\ run'.changed = run.changed
      /\ UNCHANGED <<storeVars, serverVars, status, quiet>>
  BY <1>0 DEF ZoneDone, NextZone, Run
<1>2. Servable' = Servable
  BY <1>1 DEF Servable, Served
<1>3. Scoped'
  BY <1>0, <1>1, ScopeOfZone DEF Scoped
<1>4. Level(Here, quiet + 1)
  <2>1. quiet \in 0..3 /\ Trimmed(Here) /\ (~run.failed => InSync(Here))
    BY <1>0, DoneMeansInSync DEF IInv, TypeOK
  <2>2. quiet >= 1 => ~run.failed
    BY <1>0 DEF Progress, Unrefused
  <2>3. quiet + 1 >= 2 => quiet >= 1
    BY <2>1
  <2>4. QED
    BY <2>1, <2>2, <2>3 DEF Level
<1>5. \A at \in Servable : Ahead(at)' \/ InHand(at)' \/ Level(at, quiet + 1)
  BY <1>0, <1>1, <1>4, ScopeOfZone DEF Ahead, InHand
<1>6. QED
  BY <1>1, <1>2, <1>3, <1>5, ReadingProgress

LEMMA RunDoneProgress ==
    ASSUME IInv, Knows, Progress, RunDone
    PROVE  Progress'
<1> USE DEF At, storeVars, serverVars
<1>0. run \in Run /\ run.phase = "provider" /\ run.todo = {} /\ quiet \in 0..3
  BY DEF IInv, TypeOK, RunDone
<1>1. /\ run' = Idle /\ status'.changed = run.changed
      /\ UNCHANGED <<storeVars, serverVars>>
  BY DEF RunDone
<1>2. CASE ~run.clean
  <2>1. quiet' = 0
    BY <1>2 DEF RunDone
  <2>2. QED
    BY <1>1, <2>1, SpoiltProgress
<1>3. CASE run.clean
  <2>1. quiet' \in Nat /\ quiet' <= quiet + 1
    <3>1. quiet' = Min({quiet + 1, 3})
      BY <1>3 DEF RunDone
    <3>2. Min({quiet + 1, 3}) \in {quiet + 1, 3} /\ Min({quiet + 1, 3}) <= quiet + 1
      <4>1. {quiet + 1, 3} = {3, quiet + 1}
        OBVIOUS
      <4>2. QED
        BY <1>0, <4>1, MinOfTwo
    <3>3. QED
      BY <1>0, <3>1, <3>2
  <2>2. \A at \in Servable : Level(at, quiet + 1)
    BY <1>0, <1>3 DEF Progress, Scoped, Levelled, Ahead, InHand
  <2>3. Servable' = Servable /\ \A at, n : Level(at, n)' = Level(at, n)
    BY <1>1, SameLevels DEF Servable, Served, Level
  <2>4. \A at : Level(at, quiet + 1) => Level(at, quiet')
    BY <1>0, <2>1 DEF Level
  <2>5. \A at \in Servable' : Level(at, quiet)'
    BY <2>2, <2>3, <2>4, SameLevels, <1>1 DEF Level
  <2>6. Still'
    <3>1. quiet' >= 3 => quiet >= 2
      BY <1>0, <2>1
    <3>2. QED
      BY <1>1, <3>1 DEF Still, Progress, Idle
  <2>7. QED
    BY <1>1, <2>5, <2>6 DEF Progress, Scoped, Levelled, Unrefused, Idle
<1>4. QED
  BY <1>2, <1>3

LEMMA EditProgress ==
    ASSUME IInv, Knows, Edited
    PROVE  Progress'
<1>1. run' = Idle \/ run'.clean = FALSE
  BY DEF Edited, Knows, IdleIsIdle, At, IInv, TypeOK, Run
<1>2. QED
  BY <1>1, SpoiltProgress DEF Edited

LEMMA FaultProgress ==
    ASSUME IInv, Knows, Fault
    PROVE  Progress'
<1>1. \A r \in Run : Dirty(r).clean = FALSE
  BY DEF Dirty, Run
<1>2. run \in Run /\ NextZone(run) \in Run
  BY DEF IInv, TypeOK, NextZone, Run, Phases
<1>3. ASSUME QueryFails
      PROVE  run' = Idle \/ run'.clean = FALSE
  <2>1. /\ [run EXCEPT !.todo = @ \ {Min(run.todo)}] \in Run
        /\ [run EXCEPT !.zones = @ \ {Min(run.zones)}] \in Run
    BY <1>2 DEF Run
  <2>2. QED
    BY <1>1, <1>2, <1>3, <2>1 DEF QueryFails, Knows, IdleIsIdle
<1>4. ASSUME NEW r, AddFails(r) \/ DeleteFails(r)
      PROVE  run'.clean = FALSE
  BY <1>2, <1>4 DEF AddFails, DeleteFails, Dirty, Run
<1>5. QED
  BY <1>3, <1>4, SpoiltProgress DEF Fault

LEMMA InitProgress == Init => Progress
<1> SUFFICES ASSUME Init
             PROVE  Progress
  OBVIOUS
<1>1. run = Idle /\ quiet = 0
  BY DEF Init
<1>2. ~(quiet >= 1) /\ ~(quiet >= 2) /\ ~(quiet >= 3)
  BY <1>1
<1>3. QED
  BY <1>1, <1>2 DEF Progress, Scoped, Levelled, Level, Unrefused, Still, At, Idle

LEMMA NextProgress ==
    ASSUME Listable, Compatible
    PROVE  IInv /\ Knows /\ Progress /\ [Next]_vars => Progress'
<1> SUFFICES ASSUME IInv, Knows, Progress, [Next]_vars
             PROVE  Progress'
  OBVIOUS
<1>1. CASE Edit
  BY <1>1, EditProgress DEF Edit, CreateProvider, DeleteProvider, LinkZoneProvider,
       UnlinkZoneProvider, EditRecords, DeleteZone, OperatorAdds, OperatorRemoves
<1>2. CASE ListProviders \/ RunDone
  BY <1>2, ListProvidersProgress, RunDoneProgress
<1>3. ASSUME RunStep, ~(ListProviders \/ RunDone), run.clean
      PROVE  Progress'
  BY <1>3, ProviderProgress, LoadProgress, EnsureProgress, ListRecordsProgress,
     AddProgress, DeleteProgress, ZoneDoneProgress DEF RunStep
<1>4. ASSUME RunStep, ~(ListProviders \/ RunDone), ~run.clean
      PROVE  Progress'
  <2>1. run \in Run
    BY DEF IInv, TypeOK
  <2>2. run'.clean = run.clean /\ quiet' = quiet
    <3>1. ASSUME NEW r, AddRecord(r) \/ DeleteRecord(r)
          PROVE  run'.clean = run.clean /\ quiet' = quiet
      BY <2>1, <3>1 DEF AddRecord, DeleteRecord, Run
    <3>2. CASE SkipProvider \/ ListZones \/ LastZone \/ LoadDesired \/ ListRecords
      BY <2>1, <3>2 DEF SkipProvider, ListZones, LastZone, LoadDesired, ListRecords, Run
    <3>3. CASE EnsureZone \/ ZoneDone
      BY <2>1, <3>3 DEF EnsureZone, ZoneDone, NextZone, Run
    <3>4. QED
      BY <1>4, <3>1, <3>2, <3>3 DEF RunStep
  <2>3. QED
    BY <1>4, <2>2, DisturbedProgress
<1>5. CASE Fault
  BY <1>5, FaultProgress
<1>6. CASE UNCHANGED vars
  BY <1>6 DEF vars, storeVars, serverVars, Progress, Scoped, Levelled, Level, Trimmed,
       InSync, Unrefused, Still, Ahead, InHand, Here, At, Servable, Served
<1>7. QED
  BY <1>1, <1>2, <1>3, <1>4, <1>5, <1>6 DEF Next

\* For stores that runs can follow: every undisturbed run brings a zone that it
\* can serve one level up (reconcile.go:116-168, 190-266).
THEOREM RunsProgress ==
    Listable /\ Compatible => (Spec => [](Knows /\ Progress))
<1> SUFFICES ASSUME Listable, Compatible
             PROVE  Spec => [](Knows /\ Progress)
  OBVIOUS
<1>1. Init => Progress
  BY InitProgress
<1>2. IInv /\ Knows /\ Progress /\ [Next]_vars => Progress'
  BY NextProgress
<1>3. Spec => [](IInv /\ Knows)
  BY RunsKnow
<1>4. QED
  BY <1>1, <1>2, <1>3, PTL DEF Spec

\* For such stores, two undisturbed runs bring every zone in line, whatever was in
\* it and however earlier runs were cut short.
THEOREM TwoRunsAreEnough == Listable /\ Compatible => (Spec => []TwoRunsSuffice)
<1> SUFFICES ASSUME Listable, Compatible
             PROVE  Spec => []TwoRunsSuffice
  OBVIOUS
<1>1. Knows /\ Progress => TwoRunsSuffice
  BY DEF Progress, Levelled, Level, TwoRunsSuffice
<1>2. Spec => [](Knows /\ Progress)
  BY RunsProgress
<1>3. QED
  BY <1>1, <1>2, PTL

\* For such stores, a run after two undisturbed ones neither adds nor deletes:
\* nothing flaps.
THEOREM NothingFlaps == Listable /\ Compatible => (Spec => []FurtherRunsAreNoOps)
<1> SUFFICES ASSUME Listable, Compatible
             PROVE  Spec => []FurtherRunsAreNoOps
  OBVIOUS
<1>1. Knows /\ Progress => FurtherRunsAreNoOps
  BY DEF Progress, Still, FurtherRunsAreNoOps
<1>2. Spec => [](Knows /\ Progress)
  BY RunsProgress
<1>3. QED
  BY <1>1, <1>2, PTL

=============================================================================
