-------------------------------- MODULE Synth --------------------------------
(***************************************************************************)
(* Record synthesis.  A web handler commits its mutation and then, with no *)
(* lock held, runs synth.Run: it reads the inventory one query at a time,  *)
(* builds the desired records in memory, and brings the source='auto' rows *)
(* into line with them in one transaction.  Several handlers may be        *)
(* between two of these steps at once, and the MCP tools and the lease     *)
(* poller commit to the same tables without running synth.                 *)
(*                                                                         *)
(* A NIC is folded into its host, and a zone is known by its name.  Zones  *)
(* and subnets are numbers, in the order of their names and prefixes.  A   *)
(* row of hosts and of ip_assignments has the id SQLite gives it, one more *)
(* than the largest, so a deleted row's id may come back as another row.   *)
(***************************************************************************)
EXTENDS RowIds

CONSTANTS
    Handlers,    \* web requests served at the same time
    Labels,      \* host names and dns_name overrides
    Addrs,
    Family,      \* address -> "A" or "AAAA"
    Zones,
    Covers,      \* address -> zones whose name is a suffix of its reverse name
    Subnets,
    Contains,    \* subnet -> the addresses in its prefix
    ManualKeys,  \* what users enter by hand: a subset of Key
    Seed,        \* the inventory when the program starts
    Tools,       \* whether anything but a handler that resyncs commits
    MaxEdits     \* bound: mutations and faults together

ASSUME NumberedByOrder == Zones \subseteq Nat \ {0} /\ Subnets \subseteq Nat
ASSUME TwoFamilies == Family \in [Addrs -> {"A", "AAAA"}]
ASSUME ToolsOrNot == Tools \in BOOLEAN
ASSUME BoundIsNatural == MaxEdits \in Nat

VARIABLES
    db,       \* the tables
    run,      \* handler -> its synth.Run
    edits,    \* mutations and faults so far
    settled   \* auto was written by a run that no mutation has disturbed

vars == <<db, run, edits, settled>>

Roles == {"forward", "reverse"}
Kinds == {"static", "reserved", "dynamic"}
Published == {"static", "reserved"}
Host == [label : Labels, dns : BOOLEAN]
Link == [subnet : Subnets, zone : Zones, role : Roles]

\* A name is <<label, zone>>, or <<address>> for the address's reverse name.  A
\* target is a name, something typed by hand, or empty for A and AAAA.
Names == (Labels \X Zones) \union {<<a>> : a \in Addrs}
NoTarget == <<>>
Typed == <<"typed">>
Key == [name : Names, type : {"A", "AAAA", "PTR"}, target : Names \union {NoTarget, Typed}]

ASSUME ManualKeysAreKeys == ManualKeys \subseteq Key

IpRow(d) == [host : DOMAIN d.hosts, addr : Addrs, kind : Kinds]

\* The schema's foreign keys and UNIQUE constraints.
Tables == {"hosts", "ips", "zones", "subnets", "links", "manual", "auto"}
Intact(d) ==
    /\ d = [t \in Tables |-> d[t]]
    /\ DOMAIN d.hosts \subseteq Ids /\ d.hosts \in [DOMAIN d.hosts -> Host]
    /\ DOMAIN d.ips \subseteq Ids /\ d.ips \in [DOMAIN d.ips -> IpRow(d)]
    /\ \A i, j \in DOMAIN d.ips :
        d.ips[i].host = d.ips[j].host /\ d.ips[i].addr = d.ips[j].addr => i = j
    /\ d.zones \subseteq Zones /\ d.subnets \subseteq Subnets
    /\ d.links \subseteq [subnet : d.subnets, zone : d.zones, role : Roles]
    /\ DOMAIN d.manual \subseteq Key /\ Range(d.manual) \subseteq d.zones
    /\ DOMAIN d.auto \subseteq Key \ DOMAIN d.manual
    /\ d.auto \in [DOMAIN d.auto -> [zone : d.zones, ids : SUBSET DOMAIN d.ips]]

\* A table that has rows has a last one.
HasLast(table) == DOMAIN table # {} => \E n \in DOMAIN table : \A i \in DOMAIN table : i <= n

ASSUME SeedIntact == Intact(Seed) /\ HasLast(Seed.hosts) /\ HasLast(Seed.ips)

Empty == [x \in {} |-> x]
Idle == [phase |-> "idle", hosts |-> Empty, subnets |-> {}, links |-> {},
         todo |-> {}, desired |-> Empty, undisturbed |-> FALSE]
At(h, phase) == run[h].phase = phase

TypeOK ==
    /\ Intact(db)
    /\ \A h \in Handlers :
        /\ run[h].phase \in {"idle", "hosts", "subnets", "links", "ips", "manual", "apply"}
        /\ run[h].links \subseteq Link
        /\ DOMAIN run[h].desired \subseteq Key
    /\ edits \in 0..MaxEdits
    /\ settled \in BOOLEAN

Init ==
    /\ db = Seed
    /\ run = [h \in Handlers |-> Idle]
    /\ edits = 0
    /\ settled = FALSE

-----------------------------------------------------------------------------
\* Rows go with the rows they refer to (ON DELETE CASCADE).

\* Mutant: bindings do not go with their addresses.
IPsLeaveBindings(d, I) == [d EXCEPT !.ips = Without(@, I)]

WithoutIPs(d, I) ==
    [d EXCEPT !.ips = Without(@, I),
              !.auto = [k \in DOMAIN d.auto |-> [d.auto[k] EXCEPT !.ids = @ \ I]]]

WithoutHost(d, id) ==
    [WithoutIPs(d, {i \in DOMAIN d.ips : d.ips[i].host = id})
        EXCEPT !.hosts = Without(@, {id})]

WithoutZone(d, z) ==
    [d EXCEPT !.zones = @ \ {z},
              !.links = {l \in @ : l.zone # z},
              !.manual = Without(@, {k \in DOMAIN @ : @[k] = z}),
              !.auto = Without(@, {k \in DOMAIN @ : @[k].zone = z})]

WithoutSubnet(d, s) ==
    [d EXCEPT !.subnets = @ \ {s}, !.links = {l \in @ : l.subnet # s}]

\* The row keeps its id when its CIDR is changed, and so its links.
MovedSubnet(d, old, s) ==
    [d EXCEPT !.subnets = (@ \ {old}) \union {s},
              !.links = {IF l.subnet = old THEN [l EXCEPT !.subnet = s] ELSE l : l \in @}]

-----------------------------------------------------------------------------
\* Mutations

Disturbed(r) == [r EXCEPT !.undisturbed = FALSE]
Starting == [Idle EXCEPT !.phase = "hosts", !.undisturbed = TRUE]

Spent ==
    /\ edits < MaxEdits
    /\ edits' = edits + 1

Commit(d) ==
    /\ Spent
    /\ db' = d
    /\ settled' = FALSE

\* A handler commits and goes on to resync.
Resyncs(h) ==
    /\ At(h, "idle")
    /\ run' = [g \in Handlers |-> IF g = h THEN Starting ELSE Disturbed(run[g])]

\* An MCP tool, the lease poller, or a handler that fails between its commit
\* and its resync.
Silent ==
    /\ Tools
    /\ run' = [g \in Handlers |-> Disturbed(run[g])]

CreateHost(label) ==
    Commit([db EXCEPT !.hosts = Insert(@, [label |-> label, dns |-> TRUE])])

UpdateHost(id, host) ==
    /\ id \in DOMAIN db.hosts
    /\ Commit([db EXCEPT !.hosts[id] = host])

DeleteHost(id) ==
    /\ id \in DOMAIN db.hosts
    /\ Commit(WithoutHost(db, id))

CreateIPAssignment(row) ==
    /\ row \in IpRow(db)
    /\ \A i \in DOMAIN db.ips : db.ips[i].host = row.host => db.ips[i].addr # row.addr
    /\ Commit([db EXCEPT !.ips = Insert(@, row)])

DeleteIPAssignment(id) ==
    /\ id \in DOMAIN db.ips
    /\ Commit(WithoutIPs(db, {id}))

CreateSubnet(s) ==
    /\ s \notin db.subnets
    /\ Commit([db EXCEPT !.subnets = @ \union {s}])

\* Other columns than the CIDR are nothing to synth.  A run between two of its
\* reads finds no links under the old CIDR (the code: under the row's id).
UpdateSubnet(old, s) ==
    /\ old \in db.subnets /\ s \notin db.subnets
    /\ Commit(MovedSubnet(db, old, s))

DeleteSubnet(s) ==
    /\ s \in db.subnets
    /\ Commit(WithoutSubnet(db, s))

CreateZone(z) ==
    /\ z \notin db.zones
    /\ Commit([db EXCEPT !.zones = @ \union {z}])

DeleteZone(z) ==
    /\ z \in db.zones
    /\ Commit(WithoutZone(db, z))

LinkSubnetZone(l) ==
    /\ l.subnet \in db.subnets /\ l.zone \in db.zones
    /\ Commit([db EXCEPT !.links = @ \union {l}])

UnlinkSubnetZone(l) == Commit([db EXCEPT !.links = @ \ {l}])

CreateManualDNSRecord(k, z) ==
    /\ z \in db.zones
    /\ k \notin DOMAIN db.manual \union DOMAIN db.auto
    /\ Commit([db EXCEPT !.manual = With(@, k, z)])

\* Of either source: synth puts an automatic record back.
DeleteDNSRecord(k) ==
    /\ k \in DOMAIN db.manual \union DOMAIN db.auto
    /\ Commit([db EXCEPT !.manual = Without(@, {k}), !.auto = Without(@, {k})])

Mutate ==
    \/ \E label \in Labels : CreateHost(label)
    \/ \E id \in DOMAIN db.hosts :
        DeleteHost(id) \/ \E host \in Host : UpdateHost(id, host)
    \/ \E row \in IpRow(db) : CreateIPAssignment(row)
    \/ \E id \in DOMAIN db.ips : DeleteIPAssignment(id)
    \/ \E s \in Subnets : CreateSubnet(s) \/ DeleteSubnet(s)
    \/ \E old \in Subnets, s \in Subnets : UpdateSubnet(old, s)
    \/ \E z \in Zones : CreateZone(z) \/ DeleteZone(z)
    \/ \E l \in Link : LinkSubnetZone(l) \/ UnlinkSubnetZone(l)
    \/ \E k \in ManualKeys, z \in Zones : CreateManualDNSRecord(k, z)
    \/ \E k \in DOMAIN db.manual \union DOMAIN db.auto : DeleteDNSRecord(k)

-----------------------------------------------------------------------------
\* synth.Run

SyncNow(h) ==
    /\ At(h, "idle")
    /\ run' = [run EXCEPT ![h] = Starting]
    /\ UNCHANGED <<db, edits, settled>>

Goes(h, r) ==
    /\ run' = [run EXCEPT ![h] = r]
    /\ UNCHANGED <<db, edits, settled>>

\* Hosts that have opted out of DNS are skipped.
ListHosts(h) ==
    /\ At(h, "hosts")
    /\ LET on == {id \in DOMAIN db.hosts : db.hosts[id].dns} IN
        Goes(h, [run[h] EXCEPT !.phase = "subnets", !.hosts = Restrict(db.hosts, on)])

\* After the links of the last subnet come the addresses of the hosts, and after
\* the addresses of the last host the manual records.
BuildDone(r) == IF r.todo = {} THEN [r EXCEPT !.phase = "manual"] ELSE r
LinksRead(r) ==
    IF r.todo = {} THEN BuildDone([r EXCEPT !.phase = "ips", !.todo = DOMAIN r.hosts])
    ELSE r

ListSubnets(h) ==
    /\ At(h, "subnets")
    /\ Goes(h, LinksRead([run[h] EXCEPT !.phase = "links", !.subnets = db.subnets,
                                        !.todo = db.subnets]))

ListZonesForSubnet(h, s) ==
    /\ At(h, "links")
    /\ s \in run[h].todo
    /\ Goes(h, LinksRead([run[h] EXCEPT !.links = @ \union {l \in db.links : l.subnet = s},
                                        !.todo = @ \ {s}]))

\* The zones a subnet is linked to.
Linked(links, s, role) == {l.zone : l \in {m \in links : m.subnet = s /\ m.role = role}}

ForwardKey(label, addr, z) == [name |-> <<label, z>>, type |-> Family[addr], target |-> NoTarget]
ReverseKey(label, addr, z) == [name |-> <<addr>>, type |-> "PTR", target |-> <<label, z>>]

\* Dynamic addresses, and those outside every subnet, are skipped.
Eligible(r, row) ==
    /\ row.kind \in Published
    /\ \E s \in r.subnets : row.addr \in Contains[s]

\* Mutant: the last subnet counts.
LastMatch(r, addr) == Max({s \in r.subnets : addr \in Contains[s]})

FirstMatch(r, addr) == Min({s \in r.subnets : addr \in Contains[s]})

\* Records and their zones that one address of a host labelled `label' gives.
Wanted(r, label, row) ==
    LET s == FirstMatch(r, row.addr)
        forward == Linked(r.links, s, "forward")
        reverse == Linked(r.links, s, "reverse") \intersect Covers[row.addr]
    IN  [k \in {ForwardKey(label, row.addr, z) : z \in forward} \union
               {ReverseKey(label, row.addr, Min(forward)) :
                    z \in IF forward = {} THEN {} ELSE reverse}
         |-> IF k.type = "PTR" THEN Min(reverse) ELSE k.name[2]]

\* One address after the other.  Bindings of an A or AAAA record accrete; a PTR
\* keeps its first one.
Accrete(desired, wanted, ids) ==
    LET Of(k) == {i \in ids : k \in DOMAIN wanted[i]}
        Had(k) == IF k \in DOMAIN desired THEN desired[k].ids ELSE {}
    IN  [k \in DOMAIN desired \union UNION {DOMAIN wanted[i] : i \in ids} |->
            IF Of(k) = {} \/ (k.type = "PTR" /\ k \in DOMAIN desired)
            THEN desired[k]
            ELSE [zone |-> wanted[CHOOSE i \in Of(k) : TRUE][k],
                  ids |-> Of(k) \union Had(k)]]

\* The addresses that the host's id has by now, each once; hosts in any order
\* (the code: by name).
ListIPs(h, id) ==
    /\ At(h, "ips")
    /\ id \in run[h].todo
    /\ LET r == run[h]
           rows == {i \in DOMAIN db.ips : db.ips[i].host = id /\ Eligible(r, db.ips[i])}
           wanted == [i \in rows |-> Wanted(r, r.hosts[id].label, db.ips[i])]
       IN  Goes(h, BuildDone([r EXCEPT !.desired = Accrete(@, wanted, rows),
                                       !.todo = @ \ {id}]))

\* Manual records win on (fqdn, type).
Overridden(keys, k) == \E m \in keys : m.name = k.name /\ m.type = k.type

SuppressManual(h) ==
    /\ At(h, "manual")
    /\ LET lost == {k \in DOMAIN run[h].desired : Overridden(DOMAIN db.manual, k)} IN
        Goes(h, [run[h] EXCEPT !.phase = "apply", !.desired = Without(@, lost)])

\* Every row and zone the run refers to is still there, and no record that it
\* adds has been entered by hand.
Applicable(desired) ==
    \A k \in DOMAIN desired :
        /\ k \notin DOMAIN db.manual
        /\ desired[k].zone \in db.zones
        /\ desired[k].ids \subseteq DOMAIN db.ips

\* Mutant: only records that are there already are written.
AppliedToOld(auto, desired) ==
    [k \in DOMAIN desired \intersect DOMAIN auto |-> desired[k]]

\* Rows are updated, added and deleted by key, their bindings by difference.
Applied(auto, desired) ==
    [k \in DOMAIN desired |->
        IF k \notin DOMAIN auto THEN desired[k]
        ELSE LET gone == auto[k].ids \ desired[k].ids
             IN  [zone |-> desired[k].zone,
                  ids |-> (auto[k].ids \union desired[k].ids) \ gone]]

Apply(h) ==
    /\ At(h, "apply")
    /\ Applicable(run[h].desired)
    /\ db' = [db EXCEPT !.auto = Applied(@, run[h].desired)]
    /\ settled' = run[h].undisturbed
    /\ run' = [run EXCEPT ![h] = Idle]
    /\ UNCHANGED edits

\* The transaction is rolled back, the error is logged.
ApplyRejected(h) ==
    /\ At(h, "apply")
    /\ ~Applicable(run[h].desired)
    /\ Goes(h, Idle)

\* Any query fails, or the client has gone and with it the request's context.
RunFails(h) ==
    /\ ~At(h, "idle")
    /\ Spent
    /\ run' = [run EXCEPT ![h] = Idle]
    /\ UNCHANGED <<db, settled>>

Advance(h) ==
    \/ ListHosts(h) \/ ListSubnets(h)
    \/ \E s \in run[h].todo : ListZonesForSubnet(h, s)
    \/ \E id \in run[h].todo : ListIPs(h, id)
    \/ SuppressManual(h) \/ Apply(h) \/ ApplyRejected(h)

Next ==
    \/ Mutate /\ (Silent \/ \E h \in Handlers : Resyncs(h))
    \/ \E h \in Handlers : SyncNow(h) \/ Advance(h) \/ RunFails(h)

\* A handler that has started a run carries it through.
Spec == Init /\ [][Next]_vars /\ \A h \in Handlers : WF_vars(Advance(h))

-----------------------------------------------------------------------------
\* What the inventory calls for, in one look at it.

\* The addresses that count: published, of a host that is in DNS, in a subnet.
Live ==
    {i \in DOMAIN db.ips :
        /\ db.ips[i].kind \in Published
        /\ db.hosts[db.ips[i].host].dns
        /\ \E s \in db.subnets : db.ips[i].addr \in Contains[s]}

LabelOf(i) == db.hosts[db.ips[i].host].label

ZonesOf(i, role) ==
    {z \in db.zones : \E s \in db.subnets :
        /\ [subnet |-> s, zone |-> z, role |-> role] \in db.links
        /\ db.ips[i].addr \in Contains[s]
        /\ \A t \in db.subnets : t < s => db.ips[i].addr \notin Contains[t]}

\* The keys an address calls for; its PTR names the host in the first zone.
Called(i) ==
    LET addr == db.ips[i].addr
        forward == ZonesOf(i, "forward")
        reverse == ZonesOf(i, "reverse") \intersect Covers[addr]
    IN  {ForwardKey(LabelOf(i), addr, z) : z \in forward} \union
        {ReverseKey(LabelOf(i), addr, z) : z \in
            {y \in forward : reverse # {} /\ \A x \in forward : y <= x}}

Expected ==
    {k \in UNION {Called(i) : i \in Live} : ~Overridden(DOMAIN db.manual, k)}

Exact ==
    /\ DOMAIN db.auto = Expected
    /\ \A k \in Expected :
        LET ids == {i \in Live : k \in Called(i)} IN
        IF k.type = "PTR"
        THEN \E i \in ids : /\ db.auto[k].ids = {i}
                            /\ db.auto[k].zone \in ZonesOf(i, "reverse")
        ELSE db.auto[k] = [zone |-> k.name[2], ids |-> ids]

\* A run that no mutation has disturbed leaves exactly the records that hosts,
\* addresses, subnets and links call for and no manual record overrides, and
\* other such runs at the same time do not spoil them.
RunsAreExact == settled => Exact

-----------------------------------------------------------------------------
\* What the repository says and the code does not do.

\* What ListDesiredRecordsByZone gives the reconciler: the bound addresses, or
\* the target of a record without any.
PushedValues(k) ==
    LET ids == IF k \in DOMAIN db.auto THEN db.auto[k].ids ELSE {} IN
    IF ids # {} THEN {<<db.ips[i].addr>> : i \in ids} ELSE {k.target} \ {NoTarget}

\* store/dns.go:85-86: types other than A and AAAA take their value from target.
PTRsNameHosts ==
    \A k \in DOMAIN db.auto : k.type = "PTR" => PushedValues(k) \subseteq {k.target}

=============================================================================
