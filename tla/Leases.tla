------------------------------- MODULE Leases -------------------------------
(***************************************************************************)
(* Lease ingestion: the LeasePoller copies Kea's active leases into hosts, *)
(* nics and ip_assignments while users edit the same tables.  A poll reads *)
(* the leases once, upserts them one transaction at a time, selects the    *)
(* dynamic rows that no lease accounts for, and deletes those one          *)
(* statement at a time, by row id.  SQLite gives a new row the largest id  *)
(* plus one, so the id of a deleted last row is used again.                *)
(*                                                                         *)
(* Kea's addresses are text.  A row holds their normal form, if they have  *)
(* one, but the prune compares the rows with the text as it came: a lease  *)
(* spelled otherwise is stored and pruned again by each poll, and one that *)
(* cannot be parsed is never stored.                                       *)
(*                                                                         *)
(* A host is known by its name and a NIC by its MAC address, both UNIQUE.  *)
(* A name is a tuple: the hostname a device sent, or "dhcp" and its MAC    *)
(* when it sent none, and the vendor prefix appended on a collision.       *)
(***************************************************************************)
EXTENDS RowIds, Sequences

CONSTANTS
    MACs,        \* normal forms, as the rows hold them
    Addrs,
    HWTexts,     \* what Kea may write for a device, and for an address
    IPTexts,
    MACOf,       \* NormalizeMAC and NormalizeIP: text -> normal form, or Unparsable
    IPOf,
    Unparsable,
    Hostnames,   \* what devices call themselves, sanitised; NoName for nothing
    NoName,
    Leasable,    \* the leases Kea may grant
    Known,       \* names of hosts entered before the first poll
    Vendor,      \* MAC -> its first six hex digits
    MaxEdits     \* bound: changes of leases and edits by users together

ASSUME BoundIsNatural == MaxEdits \in Nat

ASSUME LeasesAreTexts ==
    Leasable \subseteq [hw : HWTexts, ip : IPTexts, hostname : Hostnames]

\* A normal form is a text like any other, and its own normal form.
ASSUME Normalisation ==
    /\ MACs \subseteq HWTexts /\ Addrs \subseteq IPTexts
    /\ MACOf \in [HWTexts -> MACs \union {Unparsable}]
    /\ IPOf \in [IPTexts -> Addrs \union {Unparsable}]
    /\ \A m \in MACs : MACOf[m] = m /\ m # Unparsable
    /\ \A a \in Addrs : IPOf[a] = a /\ a # Unparsable

VARIABLES
    leases,   \* Kea's active leases that name a device and an address
    hosts,    \* names of the rows of hosts
    nics,     \* rows of nics: MAC -> the host's name
    ips,      \* rows of ip_assignments: id -> [mac, addr, kind]
    run,      \* the poll under way
    status,   \* the outcome of the latest poll
    edits,    \* changes by Kea's clients and by users so far
    calm      \* no change and no fault since the latest poll read the leases;
              \* a select that was cut short is a fault too

tables == <<hosts, nics, ips>>
vars == <<leases, tables, run, status, edits, calm>>

Kinds == {"static", "reserved", "dynamic"}
Rows == [mac : MACs, addr : Addrs, kind : Kinds]
Device(l) == MACOf[l.hw]
Address(l) == IPOf[l.ip]
Parses(l) == Device(l) # Unparsable /\ Address(l) # Unparsable

\* What the poll remembers of a lease, and what the lease is stored as.
Texts(l) == <<l.hw, l.ip>>
StoredAs(l) == <<Device(l), Address(l)>>
Normal(l) == Texts(l) \in MACs \X Addrs
Seen(L) == {Texts(l) : l \in L}

Plain(name) == <<name>>
Fallback(mac) == <<"dhcp", mac>>
Suffixed(name, mac) == name \o <<Vendor[mac]>>
BaseName(l) ==
    IF l.hostname = NoName THEN Fallback(Device(l)) ELSE Plain(l.hostname)
UserNames == {Plain(n) : n \in Hostnames \ {NoName}}
Names ==
    LET bases == UserNames \union {Fallback(m) : m \in MACs}
    IN  bases \union {Suffixed(b, m) : b \in bases, m \in MACs}

ASSUME KnownNames == Known \subseteq Names

Pair(x) == <<x.mac, x.addr>>
Pairs(S) == {Pair(x) : x \in S}
IpRows == {ips[i] : i \in DOMAIN ips}
Dynamic == {r \in IpRows : r.kind = "dynamic"}

Idle == [phase |-> "idle", todo |-> {}, seen |-> {}, stale |-> {}, reborn |-> {}]
At(phase) == run.phase = phase

\* The rows of ip_assignments: typed, each on a NIC there is, UNIQUE.
RowsOK(table, owners) ==
    /\ DOMAIN table \subseteq Ids
    /\ \A i \in DOMAIN table : table[i] \in Rows /\ table[i].mac \in owners
    /\ \A i, j \in DOMAIN table : Pair(table[i]) = Pair(table[j]) => i = j

NICsOK ==
    /\ hosts \subseteq Names
    /\ DOMAIN nics \subseteq MACs
    /\ \A m \in DOMAIN nics : nics[m] \in hosts

RunOK ==
    /\ run.phase \in {"idle", "upsert", "prune"}
    /\ run.todo \subseteq Leasable
    /\ run.seen \subseteq HWTexts \X IPTexts
    /\ run.stale \subseteq Ids /\ run.reborn \subseteq Ids

RestOK ==
    /\ leases \subseteq Leasable
    /\ status \in {"never", "ok", "failed"}
    /\ edits \in 0..MaxEdits
    /\ calm \in BOOLEAN

TypeOK == NICsOK /\ RowsOK(ips, DOMAIN nics) /\ RunOK /\ RestOK

Empty == [x \in {} |-> x]

Init ==
    /\ leases = {}
    /\ hosts = Known
    /\ nics = Empty
    /\ ips = Empty
    /\ run = Idle
    /\ status = "never"
    /\ edits = 0
    /\ calm = FALSE

-----------------------------------------------------------------------------
\* Tables

IdsOf(M) == {i \in DOMAIN ips : ips[i].mac \in M}

\* A row inserted while a prune is under way may carry an id it has selected.
Reborn(r, id) == IF r.phase = "prune" THEN [r EXCEPT !.reborn = @ \union {id}] ELSE r

-----------------------------------------------------------------------------
\* Kea's clients and netdb's users

Changed ==
    /\ edits < MaxEdits
    /\ edits' = edits + 1
    /\ calm' = FALSE
    /\ UNCHANGED status

\* One lease per address; a device may hold several, by different client-ids.
LeaseGranted(l) ==
    /\ \A k \in leases : k.ip # l.ip
    /\ leases' = leases \union {l}
    /\ Changed
    /\ UNCHANGED <<tables, run>>

LeaseEnds(l) ==
    /\ l \in leases
    /\ leases' = leases \ {l}
    /\ Changed
    /\ UNCHANGED <<tables, run>>

CreateHost(name) ==
    /\ name \notin hosts
    /\ hosts' = hosts \union {name}
    /\ Changed
    /\ UNCHANGED <<leases, nics, ips, run>>

\* The host's NICs and their addresses go with it.
DeleteHost(name) ==
    /\ name \in hosts
    /\ LET gone == {m \in DOMAIN nics : nics[m] = name} IN
        /\ nics' = Without(nics, gone)
        /\ ips' = Without(ips, IdsOf(gone))
    /\ hosts' = hosts \ {name}
    /\ Changed
    /\ UNCHANGED <<leases, run>>

CreateNIC(name, mac) ==
    /\ name \in hosts
    /\ mac \notin DOMAIN nics
    /\ nics' = With(nics, mac, name)
    /\ Changed
    /\ UNCHANGED <<leases, hosts, ips, run>>

DeleteNIC(mac) ==
    /\ mac \in DOMAIN nics
    /\ nics' = Without(nics, {mac})
    /\ ips' = Without(ips, IdsOf({mac}))
    /\ Changed
    /\ UNCHANGED <<leases, hosts, run>>

\* UNIQUE(nic_id, ip): the request fails while the poller's row is there.
CreateIPAssignment(row) ==
    /\ row.mac \in DOMAIN nics
    /\ Pair(row) \notin Pairs(IpRows)
    /\ ips' = Insert(ips, row)
    /\ run' = Reborn(run, NextId(ips))
    /\ Changed
    /\ UNCHANGED <<leases, hosts, nics>>

DeleteIPAssignment(id) ==
    /\ id \in DOMAIN ips
    /\ ips' = Without(ips, {id})
    /\ Changed
    /\ UNCHANGED <<leases, hosts, nics, run>>

-----------------------------------------------------------------------------
\* The poll

ListLeases4 ==
    /\ At("idle")
    /\ run' = [Idle EXCEPT !.phase = "upsert", !.todo = leases,
                           !.seen = Seen(leases)]
    /\ calm' = TRUE
    /\ UNCHANGED <<leases, tables, status, edits>>

ListFails ==
    /\ At("idle")
    /\ status' = "failed"
    /\ calm' = FALSE
    /\ UNCHANGED <<leases, tables, run, edits>>

\* createDiscoveredHost tries one other name, which differs by vendor only.
NameFor(l) ==
    IF BaseName(l) \in hosts THEN Suffixed(BaseName(l), Device(l)) ELSE BaseName(l)

\* A device whose two possible names both belong to hosts, none of them its own.
NameTaken(l) == Device(l) \notin DOMAIN nics /\ NameFor(l) \in hosts
Refused(l) == Parses(l) => NameTaken(l)

\* Mutants: the row is inserted twice; the lease replaces the user's row.
InsertAlways(row) == Insert(ips, row)
InsertReplacing(row) ==
    IF Pair(row) \in Pairs(IpRows)
    THEN [i \in DOMAIN ips |-> IF Pair(ips[i]) = Pair(row) THEN row ELSE ips[i]]
    ELSE Insert(ips, row)

InsertOrIgnore(row) == IF Pair(row) \in Pairs(IpRows) THEN ips ELSE Insert(ips, row)

DynamicRow(l) == [mac |-> Device(l), addr |-> Address(l), kind |-> "dynamic"]

\* One transaction: find or create the NIC, then add the address to it.
UpsertDynamicLease(l) ==
    /\ At("upsert")
    /\ l \in run.todo
    /\ ~Refused(l)
    /\ IF Device(l) \in DOMAIN nics
       THEN UNCHANGED <<hosts, nics>>
       ELSE /\ hosts' = hosts \union {NameFor(l)}
            /\ nics' = With(nics, Device(l), NameFor(l))
    /\ ips' = InsertOrIgnore(DynamicRow(l))
    /\ run' = [run EXCEPT !.todo = @ \ {l}]
    /\ UNCHANGED <<leases, status, edits, calm>>

\* The lease does not parse, or both names are taken: hosts.name is UNIQUE, the
\* transaction is rolled back.  The poll goes on and says nothing of it.
UpsertRejected(l) ==
    /\ At("upsert")
    /\ l \in run.todo
    /\ Refused(l)
    /\ run' = [run EXCEPT !.todo = @ \ {l}]
    /\ UNCHANGED <<leases, tables, status, edits, calm>>

\* The database is busy or the context is done; the poll goes on.
UpsertFails(l) ==
    /\ At("upsert")
    /\ l \in run.todo
    /\ run' = [run EXCEPT !.todo = @ \ {l}]
    /\ calm' = FALSE
    /\ UNCHANGED <<leases, tables, status, edits>>

\* Mutants: expired leases are not looked for; the key's halves are swapped.
SelectNone == {}
SelectSwapped ==
    {i \in DOMAIN ips : /\ ips[i].kind = "dynamic"
                        /\ <<ips[i].addr, ips[i].mac>> \notin run.seen}

\* The rows' normal forms against Kea's text.
StaleIds ==
    {i \in DOMAIN ips : ips[i].kind = "dynamic" /\ Pair(ips[i]) \notin run.seen}

SelectStale ==
    /\ At("upsert")
    /\ run.todo = {}
    /\ run' = [run EXCEPT !.phase = "prune", !.stale = StaleIds]
    /\ UNCHANGED <<leases, tables, status, edits, calm>>

\* rows.Next() ends on an error too, and nobody asks which it was.
SelectCutShort ==
    /\ At("upsert")
    /\ run.todo = {}
    /\ \E part \in SUBSET StaleIds :
        /\ part # StaleIds
        /\ run' = [run EXCEPT !.phase = "prune", !.stale = part]
    /\ calm' = FALSE
    /\ UNCHANGED <<leases, tables, status, edits>>

\* DELETE ... WHERE id = ?, whatever the row is by now, if there is one.
DeleteStale(id) ==
    /\ At("prune")
    /\ id \in run.stale
    /\ ips' = Without(ips, {id})
    /\ run' = [run EXCEPT !.stale = @ \ {id}]
    /\ UNCHANGED <<leases, hosts, nics, status, edits, calm>>

\* The select, or one of the deletes, fails: the rest stays for the next poll.
PruneFails ==
    /\ At("prune") \/ (At("upsert") /\ run.todo = {})
    /\ status' = "failed"
    /\ run' = Idle
    /\ calm' = FALSE
    /\ UNCHANGED <<leases, tables, edits>>

\* Upserts that failed were logged and do not show in the status.
PollDone ==
    /\ At("prune")
    /\ run.stale = {}
    /\ status' = "ok"
    /\ run' = Idle
    /\ UNCHANGED <<leases, tables, edits, calm>>

Poll ==
    \/ ListLeases4 \/ ListFails
    \/ \E l \in Leasable : UpsertDynamicLease(l) \/ UpsertRejected(l) \/ UpsertFails(l)
    \/ SelectStale \/ SelectCutShort
    \/ \E id \in run.stale : DeleteStale(id)
    \/ PruneFails \/ PollDone

User ==
    \/ \E name \in hosts \union UserNames : CreateHost(name) \/ DeleteHost(name)
    \/ \E name \in hosts, mac \in MACs : CreateNIC(name, mac)
    \/ \E mac \in MACs : DeleteNIC(mac)
    \/ \E row \in Rows : CreateIPAssignment(row)
    \/ \E id \in DOMAIN ips : DeleteIPAssignment(id)

Kea == \E l \in Leasable : LeaseGranted(l) \/ LeaseEnds(l)

Next == Poll \/ User \/ Kea

\* The transaction goes through, whether or not it stores the lease.
StoresLeaseAt(ip) ==
    \E l \in run.todo : l.ip = ip /\ (UpsertDynamicLease(l) \/ UpsertRejected(l))

PrunesRowOf(pair) ==
    \E id \in run.stale \intersect DOMAIN ips : Pair(ips[id]) = pair /\ DeleteStale(id)

(***************************************************************************)
(* Polls start for ever and proceed.  Kea answers, and the database takes  *)
(* a statement, whenever they are asked the same again and again: for each *)
(* lease and for each row, since a lease spelled otherwise gives every     *)
(* poll something to store and to delete.                                  *)
(***************************************************************************)
Fairness ==
    /\ WF_vars(Poll)
    /\ SF_vars(ListLeases4)
    /\ \A ip \in IPTexts : SF_vars(StoresLeaseAt(ip))
    /\ SF_vars(SelectStale)
    /\ \A pair \in MACs \X Addrs : SF_vars(PrunesRowOf(pair))

Spec == Init /\ [][Next]_vars /\ Fairness

-----------------------------------------------------------------------------
PollStep == edits' = edits

\* Polling leaves the rows users entered alone, the kind they gave a leased
\* address included, but for a row entered during the prune itself, whose id may
\* be one the prune has selected.
UserRowsKept ==
    [][PollStep => \A i \in DOMAIN ips \ run.reborn :
        ips[i].kind # "dynamic" => i \in DOMAIN ips' /\ ips'[i] = ips[i]]_vars

\* The prune never takes away the row of a lease that the poll has seen, even
\* when storing that lease failed: a row that is spelled as Kea spells it.
LeasedRowsKept ==
    [][PollStep => \A i \in DOMAIN ips \ run.reborn :
        Pair(ips[i]) \in run.seen => i \in DOMAIN ips']_vars

Stored(l) == StoredAs(l) \in Pairs(IpRows)

\* No name is left for the device, or none was when this lease was tried and
\* another lease, by another name, has brought the device in since.
LeftOut(l) ==
    /\ NameFor(l) \in hosts
    /\ \/ Device(l) \notin DOMAIN nics
       \/ \E k \in leases : Device(k) = Device(l) /\ BaseName(k) # BaseName(l)

\* A poll that reports success leaves no dynamic row that Kea does not spell just
\* so, and the row of every lease in normal form but for devices that no name was
\* left for, as long as nothing has changed since it read the leases.  A lease in
\* another spelling has no row then, though it was stored in between.
PollReflects ==
    At("idle") /\ status = "ok" /\ calm =>
        /\ Pairs(Dynamic) \subseteq Seen(leases)
        /\ \A l \in leases : Normal(l) => Stored(l) \/ LeftOut(l)

\* Once leases and users are quiet, the rows of leases in normal form are there
\* for good, but for devices without a name, and every dynamic row is that of a
\* lease, whatever its spelling.
Settles ==
    <>[](/\ Pairs(Dynamic) \subseteq {StoredAs(l) : l \in leases}
         /\ \A l \in leases : Normal(l) => Stored(l) \/ NameTaken(l))

-----------------------------------------------------------------------------
\* What the repository says and the code does not do.

\* dhcp_leases_test.go:136: a static address survives the stale-dynamic prune.
UserRowsSurvivePrune ==
    [][PollStep => \A i \in DOMAIN ips :
        ips[i].kind # "dynamic" => i \in DOMAIN ips']_vars

=============================================================================
