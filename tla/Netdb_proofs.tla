----------------------------- MODULE Netdb_proofs -----------------------------
(***************************************************************************)
(* What holds of synth and of the way from the tables to the provider, for *)
(* any number of handlers, any inventory and any zones and subnets.        *)
(*                                                                         *)
(* Synth is exact.  Say that a run has read the tables (HasRead) when what *)
(* it has copied is what the tables have, and the records it has built are *)
(* those of the addresses whose hosts it has gone through.  A mutation     *)
(* takes the mark `undisturbed' from every run; a run that bears it has    *)
(* read the tables, so what it writes is what they call for, and a second  *)
(* such run writes the same.  The constraints of the schema are needed on  *)
(* the way: a host has an address only once, or one PTR would bind two     *)
(* rows, and a link's zone and subnet are there.                           *)
(*                                                                         *)
(* No change is forgotten.  Call the system loud while something still has *)
(* to trigger the reconciler, or has triggered it and the run has not      *)
(* begun, or has changed the tables without triggering it.  A step that    *)
(* changes the tables leaves the system loud.  While it is not, each zone  *)
(* is either still ahead of the run, or on its way with the records the    *)
(* tables have, or holds them already, unless a write has failed.  A run   *)
(* begins with every zone ahead of it, so it may take the loudness away.   *)
(***************************************************************************)
EXTENDS Netdb, RowIds_proofs

-----------------------------------------------------------------------------
\* Synth: what a run has read and built so far.

Phases == {"idle", "hosts", "subnets", "links", "ips", "manual", "apply"}

\* Shape of what has been built: entries with a zone and ids.
Entries(desired) ==
    desired = [k \in DOMAIN desired |-> [zone |-> desired[k].zone, ids |-> desired[k].ids]]

Fields == {"phase", "hosts", "subnets", "links", "todo", "desired", "undisturbed"}

\* What holds of a run whatever mixture of tables it has read.
RunOK(r) ==
    /\ r = [f \in Fields |-> r[f]]
    /\ r.phase \in Phases
    /\ r.hosts \in [DOMAIN r.hosts -> Host]
    /\ r.subnets \subseteq Subnets
    /\ r.links \subseteq Link
    /\ DOMAIN r.desired \subseteq Key
    /\ Entries(r.desired)
    /\ r.phase = "ips" => r.todo \subseteq DOMAIN r.hosts
    /\ r.undisturbed \in BOOLEAN

\* The hosts that are in DNS, and the keys that addresses call for.
InDNS == {id \in DOMAIN db.hosts : db.hosts[id].dns}
CalledBy(I) == UNION {Called(i) : i \in I}

\* For the keys, `desired' has what the addresses I call for.
Describes(desired, I, keys) ==
    /\ DOMAIN desired = keys
    /\ \A k \in keys :
        IF k.type = "PTR"
        THEN \E i \in I : /\ k \in Called(i)
                          /\ desired[k].ids = {i}
                          /\ desired[k].zone \in ZonesOf(i, "reverse")
        ELSE desired[k] = [zone |-> k.name[2], ids |-> {i \in I : k \in Called(i)}]

\* The addresses whose hosts the run has gone through.
Built(r) == {i \in Live : db.ips[i].host \notin r.todo}

\* What the run has is what the tables have.
HasRead(r) ==
    /\ r.phase # "idle"
    /\ r.phase # "hosts" => r.hosts = Restrict(db.hosts, InDNS)
    /\ r.phase \notin {"hosts", "subnets"} => r.subnets = db.subnets
    /\ r.phase \in {"hosts", "subnets"} => r.links = {}
    /\ r.phase = "links" => r.links = {l \in db.links : l.subnet \notin r.todo}
    /\ r.phase \in {"hosts", "subnets", "links"} => r.desired = Empty
    /\ r.phase \in {"ips", "manual", "apply"} => r.links = db.links
    /\ r.phase = "ips" => Describes(r.desired, Built(r), CalledBy(Built(r)))
    /\ r.phase = "manual" => Describes(r.desired, Live, CalledBy(Live))
    /\ r.phase = "apply" => Describes(r.desired, Live, Expected)

\* The constraints of the schema, table by table; no table is infinite.

HostsOK(hosts) ==
    /\ DOMAIN hosts \subseteq Ids /\ Bounded(DOMAIN hosts)
    /\ hosts \in [DOMAIN hosts -> Host]
IpsOK(ips, hosts) ==
    /\ DOMAIN ips \subseteq Ids /\ Bounded(DOMAIN ips)
    /\ ips \in [DOMAIN ips -> [host : DOMAIN hosts, addr : Addrs, kind : Kinds]]
    /\ \A i, j \in DOMAIN ips :
        ips[i].host = ips[j].host /\ ips[i].addr = ips[j].addr => i = j
LinksOK(links, zones, subnets) ==
    /\ zones \subseteq Zones /\ subnets \subseteq Subnets
    /\ links \subseteq [subnet : subnets, zone : zones, role : Roles]
ManualOK(manual, zones) ==
    /\ DOMAIN manual \subseteq Key
    /\ \A k \in DOMAIN manual : manual[k] \in zones
AutoOK(auto, manual, zones, ips) ==
    /\ DOMAIN auto \subseteq Key \ DOMAIN manual
    /\ auto \in [DOMAIN auto -> [zone : zones, ids : SUBSET DOMAIN ips]]

Constrained(d) ==
    /\ d = [t \in Tables |-> d[t]]
    /\ HostsOK(d.hosts) /\ IpsOK(d.ips, d.hosts)
    /\ LinksOK(d.links, d.zones, d.subnets)
    /\ ManualOK(d.manual, d.zones)
    /\ AutoOK(d.auto, d.manual, d.zones, d.ips)

\* The inductive invariant of synth.
SynthInv ==
    /\ Constrained(db)
    /\ run = [h \in Handlers |-> run[h]]
    /\ \A h \in Handlers : RunOK(run[h])
    /\ edits \in 0..MaxEdits
    /\ settled \in BOOLEAN
    /\ \A h \in Handlers : run[h].undisturbed => HasRead(run[h])
    /\ settled => Describes(db.auto, Live, Expected)

-----------------------------------------------------------------------------
\* What one address gives.

LEMMA FirstIsLeast ==
    ASSUME NEW T, T \subseteq Nat, T # {}
    PROVE  Min(T) \in T /\ \A k \in T : Min(T) <= k
BY LeastNumber DEF Min

LEMMA FirstIsOnly ==
    ASSUME NEW T, T \subseteq Nat, T # {}
    PROVE  {y \in T : \A x \in T : y <= x} = {Min(T)}
<1>1. Min(T) \in T /\ \A k \in T : Min(T) <= k
  BY FirstIsLeast
<1>2. ASSUME NEW y \in T, \A x \in T : y <= x PROVE y = Min(T)
  <2>1. y <= Min(T) /\ Min(T) <= y /\ y \in Nat /\ Min(T) \in Nat
    BY <1>1, <1>2
  <2> QED
    BY <2>1
<1> QED
  BY <1>1, <1>2

LEMMA LinkedZones ==
    ASSUME NEW links, NEW s, NEW role, links \subseteq Link
    PROVE  Linked(links, s, role) \subseteq Zones
BY DEF Linked, Link

\* Whatever mixture of tables a run has read, it wants proper records.
LEMMA WantedAreKeys ==
    ASSUME NEW r, RunOK(r), NEW label \in Labels, NEW row, row.addr \in Addrs
    PROVE  DOMAIN Wanted(r, label, row) \subseteq Key
<1> DEFINE s == FirstMatch(r, row.addr)
           forward == Linked(r.links, s, "forward")
           reverse == Linked(r.links, s, "reverse") \intersect Covers[row.addr]
           asked == IF forward = {} THEN {} ELSE reverse
           A == {ForwardKey(label, row.addr, z) : z \in forward}
           P == {ReverseKey(label, row.addr, Min(forward)) : z \in asked}
<1>1. forward \subseteq Zones /\ forward \subseteq Nat
  BY LinkedZones, NumberedByOrder DEF RunOK
<1>2. DOMAIN Wanted(r, label, row) = A \union P
  BY DEF Wanted
<1>3. ASSUME NEW z \in forward PROVE ForwardKey(label, row.addr, z) \in Key
  BY <1>1, TwoFamilies DEF ForwardKey, Key, Names
<1>4. ASSUME forward # {} PROVE ReverseKey(label, row.addr, Min(forward)) \in Key
  <2>1. Min(forward) \in Zones
    BY <1>1, <1>4, FirstIsLeast
  <2> QED
    BY <2>1 DEF ReverseKey, Key, Names
<1> HIDE DEF forward, reverse
<1> QED
  BY <1>2, <1>3, <1>4

\* A run that has read the subnets and the links of the tables wants for an
\* address that counts exactly what the tables call for.
LEMMA WantedIsCalled ==
    ASSUME NEW r, r.subnets = db.subnets, r.links = db.links, Intact(db), NEW i \in Live
    PROVE  LET w == Wanted(r, LabelOf(i), db.ips[i]) IN
           /\ DOMAIN w = Called(i)
           /\ \A k \in Called(i) : IF k.type = "PTR" THEN w[k] \in ZonesOf(i, "reverse")
                                                     ELSE w[k] = k.name[2]
<1> DEFINE addr == db.ips[i].addr
           label == LabelOf(i)
           T == {s \in r.subnets : addr \in Contains[s]}
           first == FirstMatch(r, addr)
           forward == Linked(r.links, first, "forward")
           reverse == Linked(r.links, first, "reverse") \intersect Covers[addr]
           f == ZonesOf(i, "forward")
           b == ZonesOf(i, "reverse") \intersect Covers[addr]
           w == Wanted(r, label, db.ips[i])
<1>1. addr \in Addrs /\ Family[addr] # "PTR"
  BY TwoFamilies DEF Live, Intact, IpRow
<1>2. first \in T /\ \A s \in T : first <= s
  <2>1. T \subseteq Nat /\ T # {}
    BY NumberedByOrder DEF Live, Intact
  <2> QED
    BY <2>1, FirstIsLeast DEF FirstMatch
<1>3. ASSUME NEW role PROVE Linked(r.links, first, role) = ZonesOf(i, role)
  <2>1. \A l \in db.links : /\ l = [subnet |-> l.subnet, zone |-> l.zone, role |-> l.role]
                            /\ l.zone \in db.zones /\ l.subnet \in db.subnets
    BY DEF Intact
  <2>2. ASSUME NEW s \in db.subnets
        PROVE  s = first <=> /\ addr \in Contains[s]
                             /\ \A t \in db.subnets : t < s => addr \notin Contains[t]
    <3>1. db.subnets \subseteq Nat /\ T = {t \in db.subnets : addr \in Contains[t]}
      BY NumberedByOrder DEF Intact
    <3> HIDE DEF first, addr, T
    <3>2. first \in T /\ \A t \in T : first <= t
      BY <1>2
    <3>3. ASSUME s \in T, \A t \in db.subnets : t < s => t \notin T
          PROVE  s = first
      <4>1. ~ (first < s) /\ first <= s /\ first \in Nat /\ s \in Nat
        BY <3>1, <3>2, <3>3
      <4> QED
        BY <4>1
    <3>4. ASSUME s = first, NEW t \in db.subnets, t < s PROVE t \notin T
      <4>1. ~ (first <= t)
        BY <3>1, <3>4
      <4> QED
        BY <3>2, <4>1
    <3> QED
      BY <3>1, <3>2, <3>3, <3>4
  <2>3. ASSUME NEW z \in Linked(r.links, first, role) PROVE z \in ZonesOf(i, role)
    <3>1. PICK l \in db.links : l.subnet = first /\ l.role = role /\ l.zone = z
      BY DEF Linked
    <3>2. [subnet |-> first, zone |-> z, role |-> role] \in db.links /\ z \in db.zones
      BY <2>1, <3>1
    <3> HIDE DEF first
    <3> QED
      BY <1>2, <2>2, <3>2 DEF ZonesOf
  <2>4. ASSUME NEW z \in ZonesOf(i, role) PROVE z \in Linked(r.links, first, role)
    <3>1. PICK s \in db.subnets :
            /\ [subnet |-> s, zone |-> z, role |-> role] \in db.links
            /\ addr \in Contains[s]
            /\ \A t \in db.subnets : t < s => addr \notin Contains[t]
      BY DEF ZonesOf
    <3>2. s = first
      BY <2>2, <3>1
    <3> QED
      BY <3>1, <3>2 DEF Linked
  <2> QED
    BY <2>3, <2>4
<1>4. forward = f /\ reverse = b
  BY <1>3
<1>5. f \subseteq Nat
  BY NumberedByOrder DEF ZonesOf, Intact
<1> DEFINE A == {ForwardKey(label, addr, z) : z \in f}
           P == {ReverseKey(label, addr, Min(f)) : z \in IF f = {} THEN {} ELSE b}
           Q == {ReverseKey(label, addr, z) :
                    z \in {y \in f : b # {} /\ \A x \in f : y <= x}}
<1>6. w = [k \in A \union P |-> IF k.type = "PTR" THEN Min(b) ELSE k.name[2]]
  BY <1>4 DEF Wanted
<1>7. Called(i) = A \union Q
  BY DEF Called
<1> HIDE DEF f, b, w, first, addr, label
<1>8. P = Q
  <2>1. CASE f = {}
    BY <2>1
  <2>2. CASE f # {}
    <3>1. {y \in f : \A x \in f : y <= x} = {Min(f)}
      BY <1>5, <2>2, FirstIsOnly
    <3> QED
      BY <2>2, <3>1
  <2> QED
    BY <2>1, <2>2
<1>9. \A k \in A : k.type # "PTR"
  BY <1>1 DEF ForwardKey
<1>10. ASSUME NEW k \in P PROVE Min(b) \in b
  <2>1. b # {} /\ b \subseteq Nat
    BY NumberedByOrder DEF b, ZonesOf, Intact
  <2> QED
    BY <2>1, FirstIsLeast
<1>11. DOMAIN w = Called(i)
  BY <1>6, <1>7, <1>8
<1>12. ASSUME NEW k \in Called(i)
       PROVE  IF k.type = "PTR" THEN w[k] \in ZonesOf(i, "reverse") ELSE w[k] = k.name[2]
  <2>1. CASE k.type = "PTR"
    <3>1. w[k] = Min(b) /\ Min(b) \in b
      BY <1>6, <1>7, <1>8, <1>9, <1>10, <2>1
    <3> QED
      BY <2>1, <3>1 DEF b
  <2>2. CASE k.type # "PTR"
    BY <1>6, <1>7, <1>8, <2>2
  <2> QED
    BY <2>1, <2>2
<1> QED
  BY <1>11, <1>12 DEF w, label

LEMMA PTRNamesAddress ==
    ASSUME Intact(db), NEW i \in DOMAIN db.ips, NEW k \in Called(i), k.type = "PTR"
    PROVE  k.name = <<db.ips[i].addr>>
<1>1. Family[db.ips[i].addr] # "PTR"
  BY TwoFamilies DEF Intact, IpRow
<1> QED
  BY <1>1 DEF Called, ForwardKey, ReverseKey

\* Folding the addresses of a host into what has been built so far.
LEMMA Accretes ==
    ASSUME NEW desired, NEW wanted, NEW I, NEW J,
           Describes(desired, I, CalledBy(I)),
           \A i \in J :
            /\ DOMAIN wanted[i] = Called(i)
            /\ \A k \in Called(i) : IF k.type = "PTR" THEN wanted[i][k] \in ZonesOf(i, "reverse")
                                                      ELSE wanted[i][k] = k.name[2],
           \A i, j \in J : \A k \in Called(i) \intersect Called(j) : k.type = "PTR" => i = j
    PROVE  Describes(Accrete(desired, wanted, J), I \union J, CalledBy(I \union J))
<1> DEFINE Of(k) == {i \in J : k \in DOMAIN wanted[i]}
           Had(k) == IF k \in DOMAIN desired THEN desired[k].ids ELSE {}
           new == Accrete(desired, wanted, J)
<1>1. DOMAIN desired = CalledBy(I)
  BY DEF Describes
<1>2. DOMAIN new = CalledBy(I \union J)
  BY <1>1 DEF Accrete, CalledBy
<1>3. ASSUME NEW k \in CalledBy(I \union J)
      PROVE  /\ Of(k) = {i \in J : k \in Called(i)}
             /\ new[k] = IF Of(k) = {} \/ (k.type = "PTR" /\ k \in DOMAIN desired)
                         THEN desired[k]
                         ELSE [zone |-> wanted[CHOOSE i \in Of(k) : TRUE][k],
                               ids |-> Of(k) \union Had(k)]
  BY <1>2 DEF Accrete
<1> HIDE DEF new
<1> SUFFICES ASSUME NEW k \in CalledBy(I \union J)
             PROVE  IF k.type = "PTR"
                    THEN \E i \in I \union J : /\ k \in Called(i)
                                               /\ new[k].ids = {i}
                                               /\ new[k].zone \in ZonesOf(i, "reverse")
                    ELSE new[k] = [zone |-> k.name[2],
                                   ids |-> {i \in I \union J : k \in Called(i)}]
  BY <1>2 DEF Describes, new
<1>4. k \in DOMAIN desired =>
        IF k.type = "PTR"
        THEN \E i \in I : /\ k \in Called(i)
                          /\ desired[k].ids = {i}
                          /\ desired[k].zone \in ZonesOf(i, "reverse")
        ELSE desired[k] = [zone |-> k.name[2], ids |-> {i \in I : k \in Called(i)}]
  BY DEF Describes
<1>5. k \notin DOMAIN desired => {i \in I : k \in Called(i)} = {}
  BY <1>1 DEF CalledBy
<1>6. CASE Of(k) = {}
  <2>1. \A i \in J : k \notin Called(i)
    BY <1>3, <1>6
  <2>2. k \in DOMAIN desired
    BY <1>1, <2>1 DEF CalledBy
  <2>3. {i \in I \union J : k \in Called(i)} = {i \in I : k \in Called(i)}
    BY <2>1
  <2>4. new[k] = desired[k]
    BY <1>3, <1>6
  <2> QED
    BY <1>4, <2>2, <2>3, <2>4
<1>7. CASE Of(k) # {} /\ k.type = "PTR" /\ k \in DOMAIN desired
  BY <1>3, <1>4, <1>7
<1>8. CASE Of(k) # {} /\ ~(k.type = "PTR" /\ k \in DOMAIN desired)
  <2> DEFINE c == CHOOSE i \in Of(k) : TRUE
  <2>1. c \in Of(k)
    BY <1>8
  <2>2. c \in J /\ k \in Called(c)
    BY <1>3, <2>1
  <2>3. new[k] = [zone |-> wanted[c][k], ids |-> Of(k) \union Had(k)]
    BY <1>3, <1>8
  <2> HIDE DEF c
  <2>4. CASE k.type = "PTR"
    <3>1. Had(k) = {}
      BY <1>8, <2>4
    <3>2. Of(k) = {c}
      <4>1. \A i \in Of(k) : i \in J /\ k \in Called(i)
        BY <1>3
      <4>2. \A i \in Of(k) : i = c
        BY <2>2, <2>4, <4>1
      <4> QED
        BY <2>1, <4>2
    <3>3. wanted[c][k] \in ZonesOf(c, "reverse")
      BY <2>2, <2>4
    <3> QED
      BY <2>2, <2>3, <2>4, <3>1, <3>2, <3>3
  <2>5. CASE k.type # "PTR"
    <3>1. wanted[c][k] = k.name[2]
      BY <2>2, <2>5
    <3>2. Had(k) = {i \in I : k \in Called(i)}
      BY <1>4, <1>5, <2>5
    <3>3. Of(k) \union Had(k) = {i \in I \union J : k \in Called(i)}
      BY <1>3, <3>2
    <3> QED
      BY <2>3, <2>5, <3>1, <3>3
  <2> QED
    BY <2>4, <2>5
<1> QED
  BY <1>6, <1>7, <1>8

LEMMA AccretesEntries ==
    ASSUME NEW desired, NEW wanted, NEW J, Entries(desired)
    PROVE  /\ DOMAIN Accrete(desired, wanted, J) =
                DOMAIN desired \union UNION {DOMAIN wanted[i] : i \in J}
           /\ Entries(Accrete(desired, wanted, J))
<1> DEFINE new == Accrete(desired, wanted, J)
           D == DOMAIN desired \union UNION {DOMAIN wanted[i] : i \in J}
<1>1. DOMAIN new = D /\ new = [k \in D |-> new[k]]
  BY DEF Accrete
<1>2. ASSUME NEW k \in D PROVE new[k] = [zone |-> new[k].zone, ids |-> new[k].ids]
  <2>1. \/ new[k] = desired[k] /\ k \in DOMAIN desired
        \/ \E z, ids : new[k] = [zone |-> z, ids |-> ids]
    BY DEF Accrete
  <2> QED
    BY <2>1 DEF Entries
<1> QED
  BY <1>1, <1>2 DEF Entries

\* Rows updated, added and deleted by key, and bindings by difference, are the
\* rows that were built.
LEMMA AppliedIsDesired ==
    ASSUME NEW auto, NEW desired, Entries(desired)
    PROVE  Applied(auto, desired) = desired
<1>1. ASSUME NEW k \in DOMAIN desired
      PROVE  Applied(auto, desired)[k] = desired[k]
  <2>1. (auto[k].ids \union desired[k].ids) \ (auto[k].ids \ desired[k].ids) = desired[k].ids
    OBVIOUS
  <2> QED
    BY <2>1 DEF Applied, Entries
<1> QED
  BY <1>1 DEF Applied, Entries

\* What the tables call for does not depend on the automatic records.
LEMMA CalledForTheSame ==
    ASSUME db'.hosts = db.hosts, db'.ips = db.ips, db'.zones = db.zones,
           db'.subnets = db.subnets, db'.links = db.links, db'.manual = db.manual
    PROVE  /\ Live' = Live /\ Expected' = Expected /\ InDNS' = InDNS
           /\ \A i, role : ZonesOf(i, role)' = ZonesOf(i, role)
           /\ \A i : Called(i)' = Called(i)
           /\ \A desired, I, keys : Describes(desired, I, keys)' = Describes(desired, I, keys)
<1>1. Live' = Live /\ InDNS' = InDNS
  BY DEF Live, InDNS
<1>2. ASSUME NEW i, NEW role PROVE ZonesOf(i, role)' = ZonesOf(i, role)
  BY DEF ZonesOf
<1>3. ASSUME NEW i PROVE Called(i)' = Called(i)
  BY <1>2 DEF Called, LabelOf
<1>4. Expected' = Expected
  BY <1>1, <1>3 DEF Expected
<1>5. ASSUME NEW desired, NEW I, NEW keys
      PROVE  Describes(desired, I, keys)' = Describes(desired, I, keys)
  BY <1>2, <1>3 DEF Describes
<1> QED
  BY <1>1, <1>2, <1>3, <1>4, <1>5

-----------------------------------------------------------------------------
LEMMA ConstrainedIsIntact ==
    ASSUME NEW d
    PROVE  Constrained(d) <=> Intact(d) /\ Bounded(DOMAIN d.hosts) /\ Bounded(DOMAIN d.ips)
<1>1. Range(d.manual) \subseteq d.zones <=> \A k \in DOMAIN d.manual : d.manual[k] \in d.zones
  BY DEF Range
<1> QED
  BY <1>1 DEF Constrained, Intact, HostsOK, IpsOK, LinksOK, ManualOK, AutoOK, IpRow

LEMMA SeedIsConstrained == Constrained(Seed)
<1>1. ASSUME NEW table, DOMAIN table \subseteq Ids, HasLast(table)
      PROVE  Bounded(DOMAIN table)
  <2>1. CASE DOMAIN table = {}
    BY <2>1 DEF Bounded
  <2>2. CASE DOMAIN table # {}
    BY <1>1, <2>2 DEF HasLast, Bounded, Ids
  <2> QED
    BY <2>1, <2>2
<1>2. DOMAIN Seed.hosts \subseteq Ids /\ DOMAIN Seed.ips \subseteq Ids
  BY SeedIntact DEF Intact
<1> QED
  BY <1>1, <1>2, SeedIntact, ConstrainedIsIntact

\* Bindings and addresses that are deleted go together.
LEMMA WithoutIPsOK ==
    ASSUME NEW d, Constrained(d), NEW I
    PROVE  Constrained(WithoutIPs(d, I))
<1> DEFINE e == WithoutIPs(d, I)
<1>1. /\ e = [t \in Tables |-> e[t]]
      /\ e.hosts = d.hosts /\ e.zones = d.zones /\ e.subnets = d.subnets
      /\ e.links = d.links /\ e.manual = d.manual
      /\ e.ips = Without(d.ips, I)
  BY DEF WithoutIPs, Constrained, Tables
<1>5. e.auto = [k \in DOMAIN d.auto |-> [d.auto[k] EXCEPT !.ids = d.auto[k].ids \ I]]
  <2>1. "auto" \in DOMAIN d
    BY DEF Constrained, Tables
  <2> QED
    BY <2>1 DEF WithoutIPs
<1> HIDE DEF e
<1>2. /\ e.ips = [i \in DOMAIN d.ips \ I |-> d.ips[i]]
      /\ DOMAIN e.ips = DOMAIN d.ips \ I
      /\ \A i \in DOMAIN e.ips : e.ips[i] = d.ips[i]
      /\ Bounded(DOMAIN e.ips)
  <2>1. Bounded(DOMAIN d.ips)
    BY DEF Constrained, IpsOK
  <2>2. e.ips = [i \in DOMAIN d.ips \ I |-> d.ips[i]]
    BY <1>1 DEF Without, Restrict
  <2> QED
    BY <2>1, <2>2 DEF Bounded
<1>3. IpsOK(e.ips, e.hosts)
  <2>1. IpsOK(d.ips, d.hosts)
    BY DEF Constrained
  <2> QED
    BY <1>1, <1>2, <2>1 DEF IpsOK
<1>4. AutoOK(e.auto, e.manual, e.zones, e.ips)
  <2>1. AutoOK(d.auto, d.manual, d.zones, d.ips)
    BY DEF Constrained
  <2>2. ASSUME NEW k \in DOMAIN e.auto
        PROVE  e.auto[k] \in [zone : e.zones, ids : SUBSET DOMAIN e.ips]
    <3>1. d.auto[k] \in [zone : d.zones, ids : SUBSET DOMAIN d.ips]
      BY <1>5, <2>1 DEF AutoOK
    <3>2. e.auto[k] = [zone |-> d.auto[k].zone, ids |-> d.auto[k].ids \ I]
      BY <1>5, <3>1
    <3>3. d.auto[k].zone \in d.zones /\ d.auto[k].ids \ I \subseteq DOMAIN d.ips \ I
      BY <3>1
    <3> QED
      BY <1>1, <1>2, <3>2, <3>3
  <2> QED
    BY <1>1, <1>5, <2>1, <2>2 DEF AutoOK
<1> QED
  BY <1>1, <1>3, <1>4 DEF Constrained, e

\* A host goes with its addresses, and those with their bindings.
LEMMA WithoutHostOK ==
    ASSUME NEW d, Constrained(d), NEW id
    PROVE  Constrained(WithoutHost(d, id))
<1> DEFINE I == {i \in DOMAIN d.ips : d.ips[i].host = id}
           c == WithoutIPs(d, I)
           e == WithoutHost(d, id)
<1>1. Constrained(c)
  BY WithoutIPsOK
<1>2. c.ips = Without(d.ips, I) /\ c.hosts = d.hosts
  BY DEF WithoutIPs, Constrained, Tables
<1>3. \A i \in DOMAIN c.ips : c.ips[i].host # id
  <2>1. DOMAIN c.ips = DOMAIN d.ips \ I /\ \A i \in DOMAIN c.ips : c.ips[i] = d.ips[i]
    BY <1>2 DEF Without, Restrict
  <2> QED
    BY <2>1
<1>4. e = [c EXCEPT !.hosts = Without(c.hosts, {id})]
  BY DEF WithoutHost
<1> HIDE DEF c, e
<1>5. /\ e = [t \in Tables |-> e[t]]
      /\ e.ips = c.ips /\ e.zones = c.zones /\ e.subnets = c.subnets
      /\ e.links = c.links /\ e.manual = c.manual /\ e.auto = c.auto
      /\ e.hosts = Without(c.hosts, {id})
  BY <1>1, <1>4 DEF Constrained, Tables
<1>6. HostsOK(e.hosts) /\ DOMAIN e.hosts = DOMAIN c.hosts \ {id}
  <2>1. HostsOK(c.hosts)
    BY <1>1 DEF Constrained
  <2>2. /\ e.hosts = [i \in DOMAIN c.hosts \ {id} |-> c.hosts[i]]
        /\ DOMAIN e.hosts = DOMAIN c.hosts \ {id}
        /\ Bounded(DOMAIN e.hosts)
    <3>1. e.hosts = [i \in DOMAIN c.hosts \ {id} |-> c.hosts[i]]
      BY <1>5 DEF Without, Restrict
    <3> QED
      BY <2>1, <3>1 DEF HostsOK, Bounded
  <2> QED
    BY <2>1, <2>2 DEF HostsOK
<1>7. IpsOK(e.ips, e.hosts)
  <2>1. IpsOK(c.ips, c.hosts)
    BY <1>1 DEF Constrained
  <2>2. e.ips = c.ips
    BY <1>5
  <2>3. c.ips \in [DOMAIN c.ips -> [host : DOMAIN e.hosts, addr : Addrs, kind : Kinds]]
    <3>1. ASSUME NEW i \in DOMAIN c.ips
          PROVE  c.ips[i] \in [host : DOMAIN e.hosts, addr : Addrs, kind : Kinds]
      <4>1. c.ips[i] \in [host : DOMAIN c.hosts, addr : Addrs, kind : Kinds]
        BY <2>1 DEF IpsOK
      <4>2. c.ips[i].host \in DOMAIN e.hosts
        BY <1>3, <1>6, <4>1
      <4> QED
        BY <4>1, <4>2
    <3> QED
      BY <2>1, <3>1 DEF IpsOK
  <2> QED
    BY <2>1, <2>2, <2>3 DEF IpsOK
<1> QED
  BY <1>1, <1>5, <1>6, <1>7 DEF Constrained, e

\* A zone goes with its links and its records.
LEMMA WithoutZoneOK ==
    ASSUME NEW d, Constrained(d), NEW z
    PROVE  Constrained(WithoutZone(d, z))
<1> DEFINE e == WithoutZone(d, z)
<1>1. /\ e = [t \in Tables |-> e[t]]
      /\ e.hosts = d.hosts /\ e.ips = d.ips /\ e.subnets = d.subnets
      /\ e.zones = d.zones \ {z}
      /\ e.links = {l \in d.links : l.zone # z}
      /\ e.manual = Without(d.manual, {k \in DOMAIN d.manual : d.manual[k] = z})
      /\ e.auto = Without(d.auto, {k \in DOMAIN d.auto : d.auto[k].zone = z})
  BY DEF WithoutZone, Constrained, Tables
<1> HIDE DEF e
<1>2. LinksOK(e.links, e.zones, e.subnets)
  <2>1. LinksOK(d.links, d.zones, d.subnets)
    BY DEF Constrained
  <2> QED
    BY <1>1, <2>1 DEF LinksOK
<1>3. ManualOK(e.manual, e.zones) /\ DOMAIN e.manual \subseteq DOMAIN d.manual
  <2>1. ManualOK(d.manual, d.zones)
    BY DEF Constrained
  <2> QED
    BY <1>1, <2>1 DEF ManualOK, Without, Restrict
<1>4. AutoOK(e.auto, e.manual, e.zones, e.ips)
  <2>1. AutoOK(d.auto, d.manual, d.zones, d.ips)
    BY DEF Constrained
  <2>2. e.auto = [k \in {x \in DOMAIN d.auto : d.auto[x].zone # z} |-> d.auto[k]]
    BY <1>1 DEF Without, Restrict
  <2>3. ASSUME NEW k \in DOMAIN e.auto
        PROVE  e.auto[k] \in [zone : e.zones, ids : SUBSET DOMAIN e.ips]
    <3>1. /\ k \in DOMAIN d.auto /\ e.auto[k] = d.auto[k] /\ d.auto[k].zone # z
          /\ d.auto[k] \in [zone : d.zones, ids : SUBSET DOMAIN d.ips]
      BY <2>1, <2>2 DEF AutoOK
    <3> QED
      BY <1>1, <3>1
  <2> QED
    BY <1>3, <2>1, <2>2, <2>3 DEF AutoOK
<1> QED
  BY <1>1, <1>2, <1>3, <1>4 DEF Constrained, e

LEMMA WithoutSubnetOK ==
    ASSUME NEW d, Constrained(d), NEW s
    PROVE  Constrained(WithoutSubnet(d, s))
<1> DEFINE e == WithoutSubnet(d, s)
<1>1. /\ e = [t \in Tables |-> e[t]]
      /\ e.hosts = d.hosts /\ e.ips = d.ips /\ e.zones = d.zones
      /\ e.manual = d.manual /\ e.auto = d.auto
      /\ e.subnets = d.subnets \ {s}
      /\ e.links = {l \in d.links : l.subnet # s}
  BY DEF WithoutSubnet, Constrained, Tables
<1> HIDE DEF e
<1>2. LinksOK(e.links, e.zones, e.subnets)
  <2>1. LinksOK(d.links, d.zones, d.subnets)
    BY DEF Constrained
  <2> QED
    BY <1>1, <2>1 DEF LinksOK
<1> QED
  BY <1>1, <1>2 DEF Constrained, e

LEMMA MovedSubnetOK ==
    ASSUME NEW d, Constrained(d), NEW old, NEW s \in Subnets
    PROVE  Constrained(MovedSubnet(d, old, s))
<1> DEFINE e == MovedSubnet(d, old, s)
           Moved(l) == IF l.subnet = old THEN [l EXCEPT !.subnet = s] ELSE l
<1>1. /\ e = [t \in Tables |-> e[t]]
      /\ e.hosts = d.hosts /\ e.ips = d.ips /\ e.zones = d.zones
      /\ e.manual = d.manual /\ e.auto = d.auto
      /\ e.subnets = (d.subnets \ {old}) \union {s}
      /\ e.links = {Moved(l) : l \in d.links}
  BY DEF MovedSubnet, Constrained, Tables
<1> HIDE DEF e
<1>2. LinksOK(e.links, e.zones, e.subnets)
  <2>1. LinksOK(d.links, d.zones, d.subnets)
    BY DEF Constrained
  <2>2. ASSUME NEW l \in d.links
        PROVE  Moved(l) \in [subnet : e.subnets, zone : e.zones, role : Roles]
    <3>1. l \in [subnet : d.subnets, zone : d.zones, role : Roles]
      BY <2>1 DEF LinksOK
    <3> QED
      BY <1>1, <3>1
  <2> QED
    BY <1>1, <2>1, <2>2 DEF LinksOK
<1>3. /\ HostsOK(e.hosts) /\ IpsOK(e.ips, e.hosts) /\ ManualOK(e.manual, e.zones)
      /\ AutoOK(e.auto, e.manual, e.zones, e.ips)
  BY <1>1 DEF Constrained
<1>4. e = [t \in Tables |-> e[t]]
  BY <1>1
<1>5. Constrained(e)
  BY <1>2, <1>3, <1>4 DEF Constrained
<1> QED
  BY <1>5 DEF e

\* A new row has an id of its own.
LEMMA NewHostOK ==
    ASSUME NEW hosts, HostsOK(hosts), NEW host \in Host
    PROVE  HostsOK(Insert(hosts, host)) /\ DOMAIN hosts \subseteq DOMAIN Insert(hosts, host)
<1>1. /\ DOMAIN Insert(hosts, host) = DOMAIN hosts \union {NextId(hosts)}
      /\ Insert(hosts, host)[NextId(hosts)] = host
      /\ \A i \in DOMAIN hosts : Insert(hosts, host)[i] = hosts[i]
      /\ DOMAIN Insert(hosts, host) \subseteq Ids
      /\ Bounded(DOMAIN Insert(hosts, host))
  BY InsertRow DEF HostsOK
<1>2. Insert(hosts, host) = [i \in DOMAIN Insert(hosts, host) |-> Insert(hosts, host)[i]]
  BY DEF Insert, With
<1> QED
  BY <1>1, <1>2 DEF HostsOK

LEMMA NewIPOK ==
    ASSUME NEW ips, NEW hosts, IpsOK(ips, hosts),
           NEW row \in [host : DOMAIN hosts, addr : Addrs, kind : Kinds],
           \A i \in DOMAIN ips : ips[i].host = row.host => ips[i].addr # row.addr
    PROVE  IpsOK(Insert(ips, row), hosts) /\ DOMAIN ips \subseteq DOMAIN Insert(ips, row)
<1> DEFINE new == Insert(ips, row)
<1>1. /\ DOMAIN new = DOMAIN ips \union {NextId(ips)}
      /\ new[NextId(ips)] = row
      /\ \A i \in DOMAIN ips : new[i] = ips[i]
      /\ DOMAIN new \subseteq Ids
      /\ Bounded(DOMAIN new)
  BY InsertRow DEF IpsOK
<1>2. new = [i \in DOMAIN new |-> new[i]]
  BY DEF Insert, With
<1> HIDE DEF new
<1>3. new \in [DOMAIN new -> [host : DOMAIN hosts, addr : Addrs, kind : Kinds]]
  BY <1>1, <1>2 DEF IpsOK
<1>4. ASSUME NEW i \in DOMAIN new, NEW j \in DOMAIN new,
             new[i].host = new[j].host, new[i].addr = new[j].addr
      PROVE  i = j
  BY <1>1, <1>4 DEF IpsOK
<1> QED
  BY <1>1, <1>3, <1>4 DEF IpsOK, new

\* Records stay proper when addresses are added.
LEMMA AutoStays ==
    ASSUME NEW auto, NEW manual, NEW zones, NEW ips, NEW more, AutoOK(auto, manual, zones, ips),
           DOMAIN ips \subseteq DOMAIN more
    PROVE  AutoOK(auto, manual, zones, more)
<1>1. ASSUME NEW k \in DOMAIN auto
      PROVE  auto[k] \in [zone : zones, ids : SUBSET DOMAIN more]
  <2>1. auto[k] \in [zone : zones, ids : SUBSET DOMAIN ips]
    BY DEF AutoOK
  <2> QED
    BY <2>1
<1> QED
  BY <1>1 DEF AutoOK

\* Foreign keys and UNIQUE constraints outlast every mutation.
LEMMA MutationsConstrain ==
    ASSUME Constrained(db), Mutate
    PROVE  Constrained(db')
<1>1. ASSUME NEW label \in Labels, CreateHost(label) PROVE Constrained(db')
  <2> DEFINE host == [label |-> label, dns |-> TRUE]
  <2>1. /\ db' = [t \in Tables |-> db'[t]]
        /\ db'.ips = db.ips /\ db'.zones = db.zones /\ db'.subnets = db.subnets
        /\ db'.links = db.links /\ db'.manual = db.manual /\ db'.auto = db.auto
        /\ db'.hosts = Insert(db.hosts, host)
    BY <1>1 DEF CreateHost, Commit, Constrained, Tables
  <2>2. host \in Host /\ HostsOK(db.hosts) /\ IpsOK(db.ips, db.hosts)
    BY DEF Host, Constrained
  <2> HIDE DEF host
  <2>3. HostsOK(db'.hosts) /\ DOMAIN db.hosts \subseteq DOMAIN db'.hosts
    BY <2>1, <2>2, NewHostOK
  <2>4. IpsOK(db'.ips, db'.hosts)
    <3>1. ASSUME NEW i \in DOMAIN db.ips
          PROVE  db.ips[i] \in [host : DOMAIN db'.hosts, addr : Addrs, kind : Kinds]
      <4>1. db.ips[i] \in [host : DOMAIN db.hosts, addr : Addrs, kind : Kinds]
        BY <2>2 DEF IpsOK
      <4> QED
        BY <2>3, <4>1
    <3> QED
      BY <2>1, <2>2, <3>1 DEF IpsOK
  <2> QED
    BY <2>1, <2>3, <2>4 DEF Constrained
<1>2. ASSUME NEW id \in DOMAIN db.hosts, DeleteHost(id) PROVE Constrained(db')
  BY <1>2, WithoutHostOK DEF DeleteHost, Commit
<1>3. ASSUME NEW id \in DOMAIN db.hosts, NEW host \in Host, UpdateHost(id, host)
      PROVE  Constrained(db')
  <2>1. /\ db' = [t \in Tables |-> db'[t]]
        /\ db'.ips = db.ips /\ db'.zones = db.zones /\ db'.subnets = db.subnets
        /\ db'.links = db.links /\ db'.manual = db.manual /\ db'.auto = db.auto
        /\ db'.hosts = [db.hosts EXCEPT ![id] = host]
    BY <1>3 DEF UpdateHost, Commit, Constrained, Tables
  <2>2. HostsOK(db.hosts)
    BY DEF Constrained
  <2>3. HostsOK(db'.hosts) /\ DOMAIN db'.hosts = DOMAIN db.hosts
    BY <2>1, <2>2 DEF HostsOK
  <2> QED
    BY <2>1, <2>3 DEF Constrained, IpsOK
<1>4. ASSUME NEW row \in IpRow(db), CreateIPAssignment(row) PROVE Constrained(db')
  <2>1. /\ db' = [t \in Tables |-> db'[t]]
        /\ db'.hosts = db.hosts /\ db'.zones = db.zones /\ db'.subnets = db.subnets
        /\ db'.links = db.links /\ db'.manual = db.manual /\ db'.auto = db.auto
        /\ db'.ips = Insert(db.ips, row)
    BY <1>4 DEF CreateIPAssignment, Commit, Constrained, Tables
  <2>2. /\ IpsOK(db.ips, db.hosts)
        /\ row \in [host : DOMAIN db.hosts, addr : Addrs, kind : Kinds]
        /\ \A i \in DOMAIN db.ips : db.ips[i].host = row.host => db.ips[i].addr # row.addr
    BY <1>4 DEF Constrained, IpRow, CreateIPAssignment
  <2>3. IpsOK(db'.ips, db'.hosts) /\ DOMAIN db.ips \subseteq DOMAIN db'.ips
    BY <2>1, <2>2, NewIPOK
  <2>4. AutoOK(db'.auto, db'.manual, db'.zones, db'.ips)
    <3>1. AutoOK(db.auto, db.manual, db.zones, db.ips)
      BY DEF Constrained
    <3> QED
      BY <2>1, <2>3, <3>1, AutoStays
  <2> QED
    BY <2>1, <2>3, <2>4 DEF Constrained
<1>5. ASSUME NEW id \in DOMAIN db.ips, DeleteIPAssignment(id) PROVE Constrained(db')
  BY <1>5, WithoutIPsOK DEF DeleteIPAssignment, Commit
<1>6. ASSUME NEW s \in Subnets, CreateSubnet(s) \/ DeleteSubnet(s) PROVE Constrained(db')
  <2>1. CASE CreateSubnet(s)
    <3>1. /\ db' = [t \in Tables |-> db'[t]]
          /\ db'.hosts = db.hosts /\ db'.ips = db.ips /\ db'.zones = db.zones
          /\ db'.links = db.links /\ db'.manual = db.manual /\ db'.auto = db.auto
          /\ db'.subnets = db.subnets \union {s}
      BY <2>1 DEF CreateSubnet, Commit, Constrained, Tables
    <3>2. LinksOK(db'.links, db'.zones, db'.subnets)
      <4>1. LinksOK(db.links, db.zones, db.subnets)
        BY DEF Constrained
      <4> QED
        BY <3>1, <4>1 DEF LinksOK
    <3> QED
      BY <3>1, <3>2 DEF Constrained
  <2> QED
    BY <1>6, <2>1, WithoutSubnetOK DEF DeleteSubnet, Commit
<1>7. ASSUME NEW z \in Zones, CreateZone(z) \/ DeleteZone(z) PROVE Constrained(db')
  <2>1. CASE CreateZone(z)
    <3>1. /\ db' = [t \in Tables |-> db'[t]]
          /\ db'.hosts = db.hosts /\ db'.ips = db.ips /\ db'.subnets = db.subnets
          /\ db'.links = db.links /\ db'.manual = db.manual /\ db'.auto = db.auto
          /\ db'.zones = db.zones \union {z}
      BY <2>1 DEF CreateZone, Commit, Constrained, Tables
    <3>2. LinksOK(db'.links, db'.zones, db'.subnets)
      <4>1. LinksOK(db.links, db.zones, db.subnets)
        BY DEF Constrained
      <4> QED
        BY <3>1, <4>1 DEF LinksOK
    <3>3. ManualOK(db'.manual, db'.zones)
      BY <3>1 DEF Constrained, ManualOK
    <3>4. AutoOK(db'.auto, db'.manual, db'.zones, db'.ips)
      <4>1. AutoOK(db.auto, db.manual, db.zones, db.ips)
        BY DEF Constrained
      <4>2. ASSUME NEW k \in DOMAIN db.auto
            PROVE  db.auto[k] \in [zone : db'.zones, ids : SUBSET DOMAIN db'.ips]
        <5>1. db.auto[k] \in [zone : db.zones, ids : SUBSET DOMAIN db.ips]
          BY <4>1 DEF AutoOK
        <5> QED
          BY <3>1, <5>1
      <4> QED
        BY <3>1, <4>1, <4>2 DEF AutoOK
    <3> QED
      BY <3>1, <3>2, <3>3, <3>4 DEF Constrained
  <2> QED
    BY <1>7, <2>1, WithoutZoneOK DEF DeleteZone, Commit
<1>8. ASSUME NEW l \in Link, LinkSubnetZone(l) \/ UnlinkSubnetZone(l) PROVE Constrained(db')
  <2>1. /\ db' = [t \in Tables |-> db'[t]]
        /\ db'.hosts = db.hosts /\ db'.ips = db.ips /\ db'.subnets = db.subnets
        /\ db'.zones = db.zones /\ db'.manual = db.manual /\ db'.auto = db.auto
        /\ \/ l.subnet \in db.subnets /\ l.zone \in db.zones /\ db'.links = db.links \union {l}
           \/ db'.links = db.links \ {l}
    BY <1>8 DEF LinkSubnetZone, UnlinkSubnetZone, Commit, Constrained, Tables
  <2>2. LinksOK(db'.links, db'.zones, db'.subnets)
    <3>1. LinksOK(db.links, db.zones, db.subnets)
      BY DEF Constrained
    <3> QED
      BY <2>1, <3>1 DEF LinksOK, Link
  <2> QED
    BY <2>1, <2>2 DEF Constrained
<1>9. ASSUME NEW k \in ManualKeys, NEW z \in Zones, CreateManualDNSRecord(k, z)
      PROVE  Constrained(db')
  <2>1. /\ db' = [t \in Tables |-> db'[t]]
        /\ db'.hosts = db.hosts /\ db'.ips = db.ips /\ db'.subnets = db.subnets
        /\ db'.zones = db.zones /\ db'.links = db.links /\ db'.auto = db.auto
        /\ db'.manual = With(db.manual, k, z)
    BY <1>9 DEF CreateManualDNSRecord, Commit, Constrained, Tables
  <2>2. z \in db.zones /\ k \notin DOMAIN db.auto /\ k \in Key
    BY <1>9, ManualKeysAreKeys DEF CreateManualDNSRecord
  <2>3. ManualOK(db'.manual, db'.zones) /\ DOMAIN db'.manual = DOMAIN db.manual \union {k}
    <3>1. ManualOK(db.manual, db.zones)
      BY DEF Constrained
    <3>2. db'.manual = [x \in DOMAIN db.manual \union {k} |-> IF x = k THEN z ELSE db.manual[x]]
      BY <2>1 DEF With
    <3> QED
      BY <2>1, <2>2, <3>1, <3>2 DEF ManualOK
  <2>4. AutoOK(db'.auto, db'.manual, db'.zones, db'.ips)
    BY <2>1, <2>2, <2>3 DEF Constrained, AutoOK
  <2> QED
    BY <2>1, <2>3, <2>4 DEF Constrained
<1>10. ASSUME NEW k \in DOMAIN db.manual \union DOMAIN db.auto, DeleteDNSRecord(k)
       PROVE  Constrained(db')
  <2>1. /\ db' = [t \in Tables |-> db'[t]]
        /\ db'.hosts = db.hosts /\ db'.ips = db.ips /\ db'.subnets = db.subnets
        /\ db'.zones = db.zones /\ db'.links = db.links
        /\ db'.auto = Without(db.auto, {k}) /\ db'.manual = Without(db.manual, {k})
    BY <1>10 DEF DeleteDNSRecord, Commit, Constrained, Tables
  <2>2. /\ db'.auto = [x \in DOMAIN db.auto \ {k} |-> db.auto[x]]
        /\ db'.manual = [x \in DOMAIN db.manual \ {k} |-> db.manual[x]]
    BY <2>1 DEF Without, Restrict
  <2>3. ManualOK(db'.manual, db'.zones)
    BY <2>1, <2>2 DEF Constrained, ManualOK
  <2>4. AutoOK(db'.auto, db'.manual, db'.zones, db'.ips)
    <3>1. AutoOK(db.auto, db.manual, db.zones, db.ips)
      BY DEF Constrained
    <3>2. DOMAIN db'.auto \subseteq Key \ DOMAIN db'.manual
      BY <2>2, <3>1 DEF AutoOK
    <3>3. ASSUME NEW x \in DOMAIN db.auto
          PROVE  db.auto[x] \in [zone : db.zones, ids : SUBSET DOMAIN db.ips]
      BY <3>1 DEF AutoOK
    <3> QED
      BY <2>1, <2>2, <3>2, <3>3 DEF AutoOK
  <2> QED
    BY <2>1, <2>3, <2>4 DEF Constrained
<1>11. ASSUME NEW old \in Subnets, NEW s \in Subnets, UpdateSubnet(old, s)
       PROVE  Constrained(db')
  BY <1>11, MovedSubnetOK DEF UpdateSubnet, Commit
<1> QED
  BY <1>1, <1>2, <1>3, <1>4, <1>5, <1>6, <1>7, <1>8, <1>9, <1>10, <1>11 DEF Mutate

-----------------------------------------------------------------------------
\* A run reads one table after the other.

LEMMA ReadTheSame ==
    ASSUME UNCHANGED db, NEW r
    PROVE  HasRead(r)' = HasRead(r)
<1>1. /\ Live' = Live /\ Expected' = Expected /\ InDNS' = InDNS
      /\ \A i : Called(i)' = Called(i)
      /\ \A desired, I, keys : Describes(desired, I, keys)' = Describes(desired, I, keys)
  BY CalledForTheSame
<1>2. Built(r)' = Built(r) /\ CalledBy(Built(r))' = CalledBy(Built(r))
      /\ CalledBy(Live)' = CalledBy(Live)
  BY <1>1 DEF Built, CalledBy
<1> QED
  BY <1>1, <1>2 DEF HasRead

\* A run that is proper, and true to the tables unless it has been disturbed.
Sane(r) == RunOK(r) /\ (r.undisturbed => HasRead(r))

LEMMA StartIsSane == Sane(Starting) /\ Starting.phase = "hosts"
<1>1. /\ Starting = [f \in Fields |-> Starting[f]]
      /\ Starting.phase = "hosts" /\ Starting.hosts = Empty /\ Starting.subnets = {}
      /\ Starting.links = {} /\ Starting.desired = Empty
  BY DEF Starting, Idle, Fields
<1>4. Starting.undisturbed = TRUE
  BY DEF Starting, Idle, Fields
<1>2. Entries(Empty) /\ DOMAIN Empty = {} /\ Empty \in [DOMAIN Empty -> Host]
  BY DEF Entries, Empty
<1>3. RunOK(Starting)
  BY <1>1, <1>2, <1>4 DEF RunOK, Phases
<1> QED
  BY <1>1, <1>3 DEF Sane, HasRead

LEMMA IdleIsSane == Sane(Idle) /\ ~Idle.undisturbed
<1>1. Entries(Empty) /\ DOMAIN Empty = {} /\ Empty \in [DOMAIN Empty -> Host]
  BY DEF Entries, Empty
<1> QED
  BY <1>1 DEF Sane, RunOK, Phases, Idle, Fields

LEMMA ReadsKeep ==
    ASSUME SynthInv, NEW h \in Handlers, NEW r, Sane(r), Goes(h, r)
    PROVE  SynthInv'
<1>1. /\ run' = [run EXCEPT ![h] = r]
      /\ UNCHANGED <<db, edits, settled>>
  BY DEF Goes
<1>2. \A g \in Handlers : run'[g] = IF g = h THEN r ELSE run[g]
  BY <1>1 DEF SynthInv
<1>3. ASSUME NEW g \in Handlers
      PROVE  RunOK(run[g])' /\ (run'[g].undisturbed => HasRead(run[g])')
  <2>1. PICK x : x = run'[g]
    OBVIOUS
  <2>2. RunOK(x) /\ (x.undisturbed => HasRead(x))
    BY <1>2, <2>1 DEF Sane, SynthInv
  <2>3. HasRead(x)' = HasRead(x)
    BY <1>1, ReadTheSame
  <2>4. HasRead(run[g])' = HasRead(x)' /\ RunOK(run[g])' = RunOK(x)
    BY <2>1 DEF HasRead, Built, RunOK
  <2> QED
    BY <2>1, <2>2, <2>3, <2>4
<1>4. Describes(db.auto, Live, Expected)' = Describes(db.auto, Live, Expected)
  BY <1>1, CalledForTheSame
<1>5. run' = [g \in Handlers |-> run'[g]]
  BY <1>1 DEF SynthInv
<1> QED
  BY <1>1, <1>3, <1>4, <1>5 DEF SynthInv

LEMMA BuildDoneIsSane ==
    ASSUME NEW x, Sane(x), x.phase = "ips"
    PROVE  Sane(BuildDone(x))
<1>1. CASE x.todo # {}
  BY <1>1 DEF BuildDone
<1>2. CASE x.todo = {}
  <2> DEFINE y == [x EXCEPT !.phase = "manual"]
  <2>1. /\ y = [f \in Fields |-> y[f]]
        /\ y.phase = "manual" /\ y.hosts = x.hosts /\ y.subnets = x.subnets
        /\ y.links = x.links /\ y.desired = x.desired /\ y.undisturbed = x.undisturbed
    BY DEF Sane, RunOK, Fields
  <2> HIDE DEF y
  <2>2. RunOK(y)
    BY <2>1 DEF Sane, RunOK, Phases
  <2>3. ASSUME HasRead(x) PROVE HasRead(y)
    <3>1. Built(x) = Live
      BY <1>2 DEF Built
    <3> QED
      BY <2>1, <2>3, <3>1 DEF HasRead
  <2>4. Sane(y)
    BY <2>1, <2>2, <2>3 DEF Sane
  <2> QED
    BY <1>2, <2>4 DEF BuildDone, y
<1> QED
  BY <1>1, <1>2

LEMMA LinksReadIsSane ==
    ASSUME Constrained(db), NEW x, Sane(x), x.phase = "links"
    PROVE  Sane(LinksRead(x))
<1>1. CASE x.todo # {}
  BY <1>1 DEF LinksRead
<1>2. CASE x.todo = {}
  <2> DEFINE y == [x EXCEPT !.phase = "ips", !.todo = DOMAIN x.hosts]
  <2>1. /\ y = [f \in Fields |-> y[f]]
        /\ y.phase = "ips" /\ y.todo = DOMAIN x.hosts
        /\ y.hosts = x.hosts /\ y.subnets = x.subnets /\ y.links = x.links
        /\ y.desired = x.desired /\ y.undisturbed = x.undisturbed
    BY DEF Sane, RunOK, Fields
  <2>2. LinksRead(x) = BuildDone(y)
    BY <1>2 DEF LinksRead
  <2> HIDE DEF y
  <2>3. RunOK(y)
    BY <2>1 DEF Sane, RunOK, Phases
  <2>4. ASSUME HasRead(x) PROVE HasRead(y)
    <3>1. /\ x.hosts = Restrict(db.hosts, InDNS) /\ x.subnets = db.subnets
          /\ x.links = {l \in db.links : l.subnet \notin x.todo}
          /\ x.desired = Empty
      BY <2>4 DEF HasRead
    <3>2. x.links = db.links
      BY <1>2, <3>1
    <3>3. Built(y) = {}
      <4>1. DOMAIN x.hosts = InDNS
        BY <3>1 DEF Restrict
      <4>2. \A i \in Live : db.ips[i].host \in InDNS
        BY DEF Live, InDNS, Constrained, IpsOK
      <4> QED
        BY <2>1, <4>1, <4>2 DEF Built
    <3>4. Describes(y.desired, Built(y), CalledBy(Built(y)))
      BY <2>1, <3>1, <3>3 DEF Describes, CalledBy, Empty
    <3> QED
      BY <2>1, <3>1, <3>2, <3>4 DEF HasRead
  <2>5. Sane(y) /\ y.phase = "ips"
    BY <2>1, <2>3, <2>4 DEF Sane
  <2> QED
    BY <2>2, <2>5, BuildDoneIsSane
<1> QED
  BY <1>1, <1>2

LEMMA FirstReadsKeep ==
    ASSUME SynthInv, NEW h \in Handlers,
           ListHosts(h) \/ ListSubnets(h) \/ \E s \in run[h].todo : ListZonesForSubnet(h, s)
    PROVE  SynthInv'
<1> DEFINE r == run[h]
<1>1. /\ RunOK(r) /\ (r.undisturbed => HasRead(r)) /\ r = [f \in Fields |-> r[f]]
      /\ Constrained(db)
  BY DEF SynthInv, RunOK
<1>2. CASE ListHosts(h)
  <2> DEFINE x == [r EXCEPT !.phase = "subnets", !.hosts = Restrict(db.hosts, InDNS)]
  <2>1. /\ r.phase = "hosts" /\ Goes(h, x)
    BY <1>2 DEF ListHosts, At, InDNS
  <2> HIDE DEF r
  <2>2. /\ x = [f \in Fields |-> x[f]]
        /\ x.phase = "subnets" /\ x.hosts = Restrict(db.hosts, InDNS)
        /\ x.subnets = r.subnets /\ x.links = r.links
        /\ x.desired = r.desired /\ x.undisturbed = r.undisturbed
    BY <1>1 DEF Fields
  <2> HIDE DEF x
  <2>3. x.hosts \in [DOMAIN x.hosts -> Host]
    <3>1. \A i \in InDNS : db.hosts[i] \in Host
      BY <1>1 DEF InDNS, Constrained, HostsOK
    <3>2. x.hosts = [i \in InDNS |-> db.hosts[i]]
      BY <2>2 DEF Restrict
    <3> QED
      BY <3>1, <3>2
  <2>4. RunOK(x)
    BY <1>1, <2>2, <2>3 DEF RunOK, Phases
  <2>5. r.undisturbed => HasRead(x)
    BY <1>1, <2>1, <2>2 DEF HasRead
  <2> QED
    BY <2>1, <2>2, <2>4, <2>5, ReadsKeep DEF Sane
<1>3. CASE ListSubnets(h)
  <2> DEFINE x == [r EXCEPT !.phase = "links", !.subnets = db.subnets, !.todo = db.subnets]
  <2>1. /\ r.phase = "subnets" /\ Goes(h, LinksRead(x))
    BY <1>3 DEF ListSubnets, At
  <2> HIDE DEF r
  <2>2. /\ x = [f \in Fields |-> x[f]]
        /\ x.phase = "links" /\ x.subnets = db.subnets /\ x.todo = db.subnets
        /\ x.hosts = r.hosts /\ x.links = r.links
        /\ x.desired = r.desired /\ x.undisturbed = r.undisturbed
    BY <1>1 DEF Fields
  <2> HIDE DEF x
  <2>3. db.subnets \subseteq Subnets /\ \A l \in db.links : l.subnet \in db.subnets
    BY <1>1 DEF Constrained, LinksOK
  <2>4. RunOK(x)
    BY <1>1, <2>2, <2>3 DEF RunOK, Phases
  <2>5. r.undisturbed => HasRead(x)
    BY <1>1, <2>1, <2>2, <2>3 DEF HasRead
  <2>6. Sane(LinksRead(x))
    BY <1>1, <2>2, <2>4, <2>5, LinksReadIsSane DEF Sane
  <2> QED
    BY <2>1, <2>6, ReadsKeep
<1>4. ASSUME NEW s \in r.todo, ListZonesForSubnet(h, s) PROVE SynthInv'
  <2> DEFINE more == r.links \union {l \in db.links : l.subnet = s}
             x == [r EXCEPT !.links = more, !.todo = r.todo \ {s}]
  <2>1. /\ r.phase = "links" /\ Goes(h, LinksRead(x))
    BY <1>4 DEF ListZonesForSubnet, At
  <2> HIDE DEF r
  <2>2. /\ x = [f \in Fields |-> x[f]]
        /\ x.phase = "links" /\ x.links = more /\ x.todo = r.todo \ {s}
        /\ x.hosts = r.hosts /\ x.subnets = r.subnets
        /\ x.desired = r.desired /\ x.undisturbed = r.undisturbed
    BY <1>1, <2>1 DEF Fields
  <2> HIDE DEF x
  <2>3. db.links \subseteq Link
    BY <1>1 DEF Constrained, LinksOK, Link
  <2>4. RunOK(x)
    BY <1>1, <2>1, <2>2, <2>3 DEF RunOK, Phases
  <2>5. ASSUME HasRead(r) PROVE HasRead(x)
    <3>1. r.links = {l \in db.links : l.subnet \notin r.todo}
      BY <2>1, <2>5 DEF HasRead
    <3>2. more = {l \in db.links : l.subnet \notin r.todo \ {s}}
      BY <1>4, <3>1
    <3> QED
      BY <2>1, <2>2, <2>5, <3>2 DEF HasRead
  <2>6. Sane(LinksRead(x))
    BY <1>1, <2>2, <2>4, <2>5, LinksReadIsSane DEF Sane
  <2> QED
    BY <2>1, <2>6, ReadsKeep
<1> QED
  BY <1>2, <1>3, <1>4

LEMMA ListIPsKeeps ==
    ASSUME SynthInv, NEW h \in Handlers, NEW id \in run[h].todo, ListIPs(h, id)
    PROVE  SynthInv'
<1> DEFINE r == run[h]
           rows == {i \in DOMAIN db.ips : db.ips[i].host = id /\ Eligible(r, db.ips[i])}
           wanted == [i \in rows |-> Wanted(r, r.hosts[id].label, db.ips[i])]
           more == Accrete(r.desired, wanted, rows)
           x == [r EXCEPT !.desired = more, !.todo = r.todo \ {id}]
<1>1. /\ RunOK(r) /\ (r.undisturbed => HasRead(r)) /\ r = [f \in Fields |-> r[f]]
      /\ Constrained(db)
  BY DEF SynthInv, RunOK
<1>2. r.phase = "ips" /\ Goes(h, BuildDone(x))
  BY DEF ListIPs, At
<1>3. id \in r.todo
  OBVIOUS
<1> HIDE DEF r
<1>4. /\ x = [f \in Fields |-> x[f]]
      /\ x.phase = "ips" /\ x.desired = more /\ x.todo = r.todo \ {id}
      /\ x.hosts = r.hosts /\ x.subnets = r.subnets /\ x.links = r.links
      /\ x.undisturbed = r.undisturbed
  BY <1>1, <1>2 DEF Fields
<1> HIDE DEF x
<1>5. Entries(r.desired) /\ DOMAIN r.desired \subseteq Key /\ r.todo \subseteq DOMAIN r.hosts
      /\ r.hosts[id].label \in Labels
  BY <1>1, <1>2, <1>3 DEF RunOK, Host
<1>6. DOMAIN wanted = rows /\ \A i \in rows : wanted[i] = Wanted(r, r.hosts[id].label, db.ips[i])
  OBVIOUS
<1>7. \A i \in DOMAIN db.ips : db.ips[i].addr \in Addrs
  BY <1>1 DEF Constrained, IpsOK
<1> HIDE DEF wanted
<1>8. RunOK(x)
  <2>1. \A i \in rows : DOMAIN wanted[i] \subseteq Key
    BY <1>1, <1>5, <1>6, <1>7, WantedAreKeys
  <2>2. /\ DOMAIN more = DOMAIN r.desired \union UNION {DOMAIN wanted[i] : i \in rows}
        /\ Entries(more)
    BY <1>5, AccretesEntries
  <2>3. DOMAIN more \subseteq Key
    BY <1>5, <2>1, <2>2
  <2> QED
    BY <1>1, <1>4, <1>5, <2>2, <2>3 DEF RunOK, Phases
<1>9. ASSUME HasRead(r) PROVE HasRead(x)
  <2>1. /\ r.hosts = Restrict(db.hosts, InDNS) /\ r.subnets = db.subnets /\ r.links = db.links
        /\ Describes(r.desired, Built(r), CalledBy(Built(r)))
    BY <1>2, <1>9 DEF HasRead
  <2>2. /\ id \in DOMAIN db.hosts /\ db.hosts[id].dns
        /\ r.hosts[id] = db.hosts[id]
    BY <1>3, <1>5, <2>1 DEF Restrict, InDNS
  <2>3. rows = {i \in Live : db.ips[i].host = id}
    BY <2>1, <2>2 DEF Live, Eligible
  <2>4. Built(r) \union rows = Built(x)
    BY <1>3, <1>4, <2>3 DEF Built
  <2> HIDE DEF rows
  <2>5. ASSUME NEW i \in rows
        PROVE  /\ DOMAIN wanted[i] = Called(i)
               /\ \A k \in Called(i) : IF k.type = "PTR" THEN wanted[i][k] \in ZonesOf(i, "reverse")
                                                         ELSE wanted[i][k] = k.name[2]
    <3>1. i \in Live /\ LabelOf(i) = r.hosts[id].label
      BY <2>2, <2>3 DEF LabelOf
    <3>2. Intact(db)
      BY <1>1, ConstrainedIsIntact
    <3>3. wanted[i] = Wanted(r, LabelOf(i), db.ips[i])
      BY <1>6, <3>1
    <3> QED
      BY <2>1, <3>1, <3>2, <3>3, WantedIsCalled
  <2>6. ASSUME NEW i \in rows, NEW j \in rows, NEW k \in Called(i) \intersect Called(j),
               k.type = "PTR"
        PROVE  i = j
    <3>1. i \in DOMAIN db.ips /\ j \in DOMAIN db.ips /\ db.ips[i].host = db.ips[j].host
      BY <2>3 DEF Live
    <3>2. <<db.ips[i].addr>> = <<db.ips[j].addr>>
      <4>1. Intact(db)
        BY <1>1, ConstrainedIsIntact
      <4>2. k.name = <<db.ips[i].addr>> /\ k.name = <<db.ips[j].addr>>
        BY <2>6, <3>1, <4>1, PTRNamesAddress
      <4> QED
        BY <4>2
    <3>3. db.ips[i].addr = db.ips[j].addr
      BY <3>2
    <3> QED
      BY <1>1, <3>1, <3>3 DEF Constrained, IpsOK
  <2>7. Describes(more, Built(x), CalledBy(Built(x)))
    <3>1. Describes(more, Built(r) \union rows, CalledBy(Built(r) \union rows))
      BY <2>1, <2>5, <2>6, Accretes
    <3> QED
      BY <2>4, <3>1
  <2> HIDE DEF more
  <2> QED
    BY <1>2, <1>4, <1>9, <2>7 DEF HasRead
<1>10. Sane(BuildDone(x))
  BY <1>1, <1>4, <1>8, <1>9, BuildDoneIsSane DEF Sane
<1> QED
  BY <1>2, <1>10, ReadsKeep

LEMMA SuppressKeeps ==
    ASSUME SynthInv, NEW h \in Handlers, SuppressManual(h)
    PROVE  SynthInv'
<1> DEFINE r == run[h]
           lost == {k \in DOMAIN r.desired : Overridden(DOMAIN db.manual, k)}
           rest == Without(r.desired, lost)
           x == [r EXCEPT !.phase = "apply", !.desired = rest]
<1>1. /\ RunOK(r) /\ (r.undisturbed => HasRead(r)) /\ r = [f \in Fields |-> r[f]]
  BY DEF SynthInv, RunOK
<1>2. r.phase = "manual" /\ Goes(h, x)
  BY DEF SuppressManual, At
<1> HIDE DEF r
<1>3. /\ x = [f \in Fields |-> x[f]]
      /\ x.phase = "apply" /\ x.desired = rest
      /\ x.hosts = r.hosts /\ x.subnets = r.subnets /\ x.links = r.links
      /\ x.undisturbed = r.undisturbed
  BY <1>1, <1>2 DEF Fields
<1> HIDE DEF x
<1>4. rest = [k \in DOMAIN r.desired \ lost |-> r.desired[k]]
  BY DEF Without, Restrict
<1>5. Entries(r.desired) /\ DOMAIN r.desired \subseteq Key
  BY <1>1 DEF RunOK
<1>6. RunOK(x)
  <2>1. Entries(rest) /\ DOMAIN rest \subseteq Key
    <3> HIDE DEF lost, rest
    <3>1. DOMAIN rest = DOMAIN r.desired \ lost
      BY <1>4
    <3>2. ASSUME NEW k \in DOMAIN rest
          PROVE  rest[k] = [zone |-> rest[k].zone, ids |-> rest[k].ids]
      BY <1>4, <1>5, <3>1 DEF Entries
    <3> QED
      BY <1>4, <1>5, <3>1, <3>2 DEF Entries
  <2> HIDE DEF rest
  <2> QED
    BY <1>1, <1>3, <2>1 DEF RunOK, Phases
<1>7. ASSUME HasRead(r) PROVE HasRead(x)
  <2>1. Describes(r.desired, Live, CalledBy(Live))
    BY <1>2, <1>7 DEF HasRead
  <2>2. DOMAIN rest = Expected /\ \A k \in DOMAIN rest : rest[k] = r.desired[k] /\ k \in CalledBy(Live)
    BY <1>4, <2>1 DEF Describes, Expected, CalledBy
  <2> HIDE DEF rest, lost
  <2>3. Describes(rest, Live, Expected)
    BY <2>1, <2>2 DEF Describes
  <2> QED
    BY <1>2, <1>3, <1>7, <2>3 DEF HasRead
<1> QED
  BY <1>1, <1>2, <1>3, <1>6, <1>7, ReadsKeep DEF Sane

\* The transaction: the automatic records are those that the run has built.
LEMMA ApplyKeeps ==
    ASSUME SynthInv, NEW h \in Handlers, Apply(h)
    PROVE  SynthInv'
<1> DEFINE r == run[h]
<1>1. /\ RunOK(r) /\ (r.undisturbed => HasRead(r)) /\ Constrained(db)
  BY DEF SynthInv
<1>2. /\ r.phase = "apply" /\ Applicable(r.desired)
      /\ db' = [db EXCEPT !.auto = Applied(db.auto, r.desired)]
      /\ settled' = r.undisturbed
      /\ run' = [run EXCEPT ![h] = Idle] /\ edits' = edits
  BY DEF Apply, At
<1> HIDE DEF r
<1>3. Entries(r.desired) /\ DOMAIN r.desired \subseteq Key
  BY <1>1 DEF RunOK
<1>4. /\ db' = [t \in Tables |-> db'[t]]
      /\ db'.hosts = db.hosts /\ db'.ips = db.ips /\ db'.zones = db.zones
      /\ db'.subnets = db.subnets /\ db'.links = db.links /\ db'.manual = db.manual
  BY <1>1, <1>2 DEF Constrained, Tables
<1>5. db'.auto = r.desired
  <2>1. db'.auto = Applied(db.auto, r.desired)
    BY <1>1, <1>2 DEF Constrained, Tables
  <2> QED
    BY <1>3, <2>1, AppliedIsDesired
<1>6. AutoOK(db'.auto, db'.manual, db'.zones, db'.ips)
  <2>1. ASSUME NEW k \in DOMAIN r.desired
        PROVE  r.desired[k] \in [zone : db.zones, ids : SUBSET DOMAIN db.ips]
    <3>1. r.desired[k] = [zone |-> r.desired[k].zone, ids |-> r.desired[k].ids]
      BY <1>3 DEF Entries
    <3>2. r.desired[k].zone \in db.zones /\ r.desired[k].ids \subseteq DOMAIN db.ips
      BY <1>2 DEF Applicable
    <3> QED
      BY <3>1, <3>2
  <2>2. DOMAIN r.desired \subseteq Key \ DOMAIN db.manual
    BY <1>2, <1>3 DEF Applicable
  <2>3. r.desired = [k \in DOMAIN r.desired |-> r.desired[k]]
    BY <1>3 DEF Entries
  <2> QED
    BY <1>4, <1>5, <2>1, <2>2, <2>3 DEF AutoOK
<1>7. Constrained(db')
  BY <1>1, <1>4, <1>6 DEF Constrained
<1>8. /\ Live' = Live /\ Expected' = Expected /\ InDNS' = InDNS
      /\ \A i : Called(i)' = Called(i)
      /\ \A desired, I, keys : Describes(desired, I, keys)' = Describes(desired, I, keys)
  BY <1>4, CalledForTheSame
<1>9. ASSUME NEW g \in Handlers
      PROVE  RunOK(run[g])' /\ (run'[g].undisturbed => HasRead(run[g])')
  <2>1. PICK x : x = run'[g]
    OBVIOUS
  <2>2. Sane(x)
    <3>1. x = Idle \/ x = run[g]
      BY <1>2, <2>1 DEF SynthInv
    <3> QED
      BY <3>1, IdleIsSane DEF SynthInv, Sane
  <2>3. HasRead(x)' = HasRead(x)
    <3>1. Built(x)' = Built(x) /\ CalledBy(Built(x))' = CalledBy(Built(x))
          /\ CalledBy(Live)' = CalledBy(Live)
      BY <1>4, <1>8 DEF Built, CalledBy
    <3> QED
      BY <1>4, <1>8, <3>1 DEF HasRead
  <2>4. HasRead(run[g])' = HasRead(x)' /\ RunOK(run[g])' = RunOK(x)
    BY <2>1 DEF HasRead, Built, RunOK
  <2> QED
    BY <2>1, <2>2, <2>3, <2>4 DEF Sane
<1>10. settled' \in BOOLEAN
  BY <1>1, <1>2 DEF RunOK
<1>11. ASSUME settled' PROVE Describes(db.auto, Live, Expected)'
  <2>1. HasRead(r)
    BY <1>1, <1>2, <1>11
  <2>2. Describes(r.desired, Live, Expected)
    BY <1>2, <2>1 DEF HasRead
  <2>3. PICK a : a = db'.auto
    OBVIOUS
  <2>4. Describes(a, Live, Expected)'
    BY <1>5, <1>8, <2>2, <2>3
  <2> QED
    BY <2>3, <2>4 DEF Describes
<1>12. run' = [g \in Handlers |-> run'[g]] /\ edits' \in 0..MaxEdits
  BY <1>2 DEF SynthInv
<1> QED
  BY <1>7, <1>9, <1>10, <1>11, <1>12 DEF SynthInv

-----------------------------------------------------------------------------
\* Mutations disturb every run but the one they start.

LEMMA DisturbedIsSane ==
    ASSUME NEW r, RunOK(r)
    PROVE  RunOK(Disturbed(r)) /\ ~Disturbed(r).undisturbed /\ Disturbed(r).phase = r.phase
<1> DEFINE x == Disturbed(r)
<1>1. /\ x = [f \in Fields |-> x[f]]
      /\ x.phase = r.phase /\ x.todo = r.todo
      /\ x.hosts = r.hosts /\ x.subnets = r.subnets /\ x.links = r.links
      /\ x.desired = r.desired
  BY DEF RunOK, Disturbed, Fields
<1>2. x.undisturbed = FALSE
  BY DEF RunOK, Disturbed, Fields
<1> HIDE DEF x
<1>3. RunOK(x)
  BY <1>1, <1>2 DEF RunOK
<1> QED
  BY <1>1, <1>2, <1>3 DEF x

LEMMA MutationsCount ==
    ASSUME Mutate
    PROVE  edits < MaxEdits /\ edits' = edits + 1 /\ settled' = FALSE
BY DEF Mutate, CreateHost, UpdateHost, DeleteHost, CreateIPAssignment, DeleteIPAssignment,
       CreateSubnet, UpdateSubnet, DeleteSubnet, CreateZone, DeleteZone, LinkSubnetZone,
       UnlinkSubnetZone, CreateManualDNSRecord, DeleteDNSRecord, Commit, Spent

LEMMA MutationsKeep ==
    ASSUME SynthInv, Mutate, Silent \/ \E h \in Handlers : Resyncs(h)
    PROVE  SynthInv'
<1>1. Constrained(db')
  BY MutationsConstrain DEF SynthInv
<1>2. edits < MaxEdits /\ edits' = edits + 1 /\ settled' = FALSE
  BY MutationsCount
<1>3. edits' \in 0..MaxEdits
  BY <1>2, BoundIsNatural DEF SynthInv
<1>4. run' = [g \in Handlers |-> run'[g]]
  BY DEF Silent, Resyncs
<1>5. ASSUME NEW g \in Handlers
      PROVE  RunOK(run[g])' /\ (run'[g].undisturbed => HasRead(run[g])')
  <2>1. run'[g] = Starting \/ run'[g] = Disturbed(run[g])
    BY DEF Silent, Resyncs
  <2>2. PICK x : x = run'[g]
    OBVIOUS
  <2>3. CASE x = Starting
    <3>1. x.phase = "hosts" /\ x.links = {} /\ x.desired = Empty
      BY <2>3 DEF Starting, Idle
    <3>2. HasRead(run[g])'
      BY <2>2, <3>1 DEF HasRead
    <3>3. RunOK(run[g])' = RunOK(x)
      BY <2>2 DEF RunOK
    <3> QED
      BY <2>3, <3>2, <3>3, StartIsSane DEF Sane
  <2>4. CASE x = Disturbed(run[g])
    <3>1. RunOK(x) /\ ~x.undisturbed
      BY <2>4, DisturbedIsSane DEF SynthInv
    <3>2. RunOK(run[g])' = RunOK(x)
      BY <2>2 DEF RunOK
    <3> QED
      BY <2>2, <3>1, <3>2
  <2> QED
    BY <2>1, <2>2, <2>3, <2>4
<1> QED
  BY <1>1, <1>2, <1>3, <1>4, <1>5 DEF SynthInv

\* A run may begin or be given up at any time, as long as nothing is written.
LEMMA RunsComeAndGo ==
    ASSUME SynthInv, UNCHANGED <<db, settled>>, edits' \in 0..MaxEdits,
           run' = [g \in Handlers |-> run'[g]],
           \A g \in Handlers : run'[g] \in {run[g], Starting, Idle}
    PROVE  SynthInv'
<1>1. ASSUME NEW g \in Handlers
      PROVE  RunOK(run[g])' /\ (run'[g].undisturbed => HasRead(run[g])')
  <2>1. PICK x : x = run'[g]
    OBVIOUS
  <2>2. Sane(x)
    BY <2>1, StartIsSane, IdleIsSane DEF SynthInv, Sane
  <2>3. HasRead(x)' = HasRead(x)
    BY ReadTheSame
  <2>4. HasRead(run[g])' = HasRead(x)' /\ RunOK(run[g])' = RunOK(x)
    BY <2>1 DEF HasRead, Built, RunOK
  <2> QED
    BY <2>1, <2>2, <2>3, <2>4 DEF Sane
<1>2. Describes(db.auto, Live, Expected)' = Describes(db.auto, Live, Expected)
  BY CalledForTheSame
<1> QED
  BY <1>1, <1>2 DEF SynthInv

LEMMA AdvanceKeeps ==
    ASSUME SynthInv, NEW h \in Handlers, Advance(h)
    PROVE  SynthInv'
<1>1. CASE ApplyRejected(h)
  BY <1>1, IdleIsSane, ReadsKeep DEF ApplyRejected
<1> QED
  BY <1>1, FirstReadsKeep, ListIPsKeeps, SuppressKeeps, ApplyKeeps DEF Advance

LEMMA SyncKeeps ==
    ASSUME SynthInv, NEW h \in Handlers, SyncNow(h)
    PROVE  SynthInv'
BY RunsComeAndGo DEF SynthInv, SyncNow

LEMMA FailuresKeep ==
    ASSUME SynthInv, NEW h \in Handlers, RunFails(h)
    PROVE  SynthInv'
<1>1. edits' \in 0..MaxEdits
  BY BoundIsNatural DEF SynthInv, RunFails, Spent
<1> QED
  BY <1>1, RunsComeAndGo DEF SynthInv, RunFails

LEMMA SynthBegins == ASSUME Init PROVE SynthInv
<1>1. /\ Constrained(db) /\ run = [h \in Handlers |-> Idle] /\ edits = 0 /\ settled = FALSE
  BY SeedIsConstrained DEF Init
<1>2. RunOK(Idle) /\ ~Idle.undisturbed
  BY IdleIsSane DEF Sane
<1>3. \A h \in Handlers : RunOK(run[h]) /\ ~run[h].undisturbed
  BY <1>1, <1>2
<1>4. edits \in 0..MaxEdits
  BY <1>1, BoundIsNatural
<1>5. settled \in BOOLEAN /\ ~settled
  BY <1>1, Zenon
<1> QED
  BY <1>1, <1>3, <1>4, <1>5 DEF SynthInv

LEMMA SynthSteps ==
    ASSUME SynthInv, [Next]_vars
    PROVE  SynthInv'
<1>1. CASE UNCHANGED vars
  BY <1>1, RunsComeAndGo DEF vars, SynthInv
<1> QED
  BY <1>1, MutationsKeep, SyncKeeps, AdvanceKeeps, FailuresKeep DEF Next

LEMMA SynthInvariance == Spec => []SynthInv
BY SynthBegins, SynthSteps, PTL DEF Spec

LEMMA InvIsTyped == ASSUME SynthInv PROVE TypeOK
<1>1. Intact(db)
  BY ConstrainedIsIntact DEF SynthInv
<1> QED
  BY <1>1 DEF SynthInv, TypeOK, RunOK, Phases

LEMMA InvIsExact == ASSUME SynthInv PROVE RunsAreExact
<1> SUFFICES ASSUME settled PROVE Exact
  BY DEF RunsAreExact
<1>1. Describes(db.auto, Live, Expected)
  BY DEF SynthInv
<1>2. DOMAIN db.auto = Expected
  BY <1>1 DEF Describes
<1>3. ASSUME NEW k \in Expected, k.type = "PTR"
      PROVE  \E i \in {j \in Live : k \in Called(j)} :
                db.auto[k].ids = {i} /\ db.auto[k].zone \in ZonesOf(i, "reverse")
  BY <1>1, <1>3 DEF Describes
<1>4. ASSUME NEW k \in Expected, k.type # "PTR"
      PROVE  db.auto[k] = [zone |-> k.name[2], ids |-> {i \in Live : k \in Called(i)}]
  BY <1>1, <1>4 DEF Describes
<1> QED
  BY <1>2, <1>3, <1>4 DEF Exact

\* The tables' keys and the constraints between them hold for ever, and a run
\* works on proper rows whatever mixture of states it has read, for any inventory
\* and number of handlers and mutations.
THEOREM SynthTypeCorrect == Spec => []TypeOK
BY SynthInvariance, InvIsTyped, PTL

\* A run of synth that no mutation disturbed leaves exactly the records that the
\* tables call for, for any inventory, subnets that overlap in any way, any number
\* of handlers, runs at once and mutations (synth.go:78-200).
THEOREM SynthIsExact == Spec => []RunsAreExact
BY SynthInvariance, InvIsExact, PTL

-----------------------------------------------------------------------------
\* The system: what is loud, and what each zone has in store.

\* A request that has changed the tables, or may have.
Changed(h) == request[h] = "resync" \/ (request[h] = "sync" /\ At(h, "idle"))

Loud == (\E h \in Handlers : Changed(h)) \/ calls # 0 \/ trigger \/ untold

Carried(z) ==
    /\ loop.phase = "select" => loop.failed \/ provider[z] = DesiredOf(z)
    /\ loop.phase = "zones" =>
        /\ loop.failed \/ z \in loop.todo \/ provider[z] = DesiredOf(z)
        /\ loop.zone = z => loop.want = DesiredOf(z)

LoopShape ==
    /\ loop = [phase |-> loop.phase, todo |-> loop.todo, zone |-> loop.zone,
               want |-> loop.want, failed |-> loop.failed]
    /\ loop.phase \in {"initial", "select", "zones"}
    /\ loop.failed \in BOOLEAN
    /\ loop.phase # "zones" => loop.todo = {} /\ loop.zone = 0

HasPhase(r) == "phase" \in DOMAIN r

Shapes ==
    /\ db = [t \in Tables |-> db[t]]
    /\ db.zones \subseteq Zones
    /\ request = [h \in Handlers |-> request[h]]
    /\ \A h \in Handlers : request[h] \in {"none", "resync", "sync"}
    /\ run = [h \in Handlers |-> run[h]]
    /\ \A h \in Handlers : HasPhase(run[h])
    /\ \A h \in Handlers : request[h] = "none" => At(h, "idle")
    /\ calls \in Nat /\ trigger \in BOOLEAN /\ untold \in BOOLEAN
    /\ provider = [z \in Zones |-> provider[z]]
    /\ LoopShape

IInv == Shapes /\ (~Loud => \A z \in db.zones : Carried(z))

-----------------------------------------------------------------------------
\* What mutations leave of the tables.

TablesOK(d) == d = [t \in Tables |-> d[t]] /\ d.zones \subseteq Zones

LEMMA MutateTables ==
    ASSUME TablesOK(db), Mutate
    PROVE  TablesOK(db')
<1>1. ASSUME NEW label \in Labels, CreateHost(label) PROVE TablesOK(db')
  BY <1>1 DEF TablesOK, Tables, CreateHost, Commit
<1>2. ASSUME NEW id \in DOMAIN db.hosts, DeleteHost(id) PROVE TablesOK(db')
  BY <1>2 DEF TablesOK, Tables, DeleteHost, Commit, WithoutHost, WithoutIPs
<1>3. ASSUME NEW id \in DOMAIN db.hosts, NEW host \in Host, UpdateHost(id, host)
      PROVE  TablesOK(db')
  BY <1>3 DEF TablesOK, Tables, UpdateHost, Commit
<1>4. ASSUME NEW row \in IpRow(db), CreateIPAssignment(row) PROVE TablesOK(db')
  BY <1>4 DEF TablesOK, Tables, CreateIPAssignment, Commit
<1>5. ASSUME NEW id \in DOMAIN db.ips, DeleteIPAssignment(id) PROVE TablesOK(db')
  BY <1>5 DEF TablesOK, Tables, DeleteIPAssignment, Commit, WithoutIPs
<1>6. ASSUME NEW s \in Subnets, CreateSubnet(s) \/ DeleteSubnet(s) PROVE TablesOK(db')
  BY <1>6 DEF TablesOK, Tables, CreateSubnet, DeleteSubnet, Commit, WithoutSubnet
<1>7. ASSUME NEW z \in Zones, CreateZone(z) \/ DeleteZone(z) PROVE TablesOK(db')
  BY <1>7 DEF TablesOK, Tables, CreateZone, DeleteZone, Commit, WithoutZone
<1>8. ASSUME NEW l \in Link, LinkSubnetZone(l) \/ UnlinkSubnetZone(l) PROVE TablesOK(db')
  BY <1>8 DEF TablesOK, Tables, LinkSubnetZone, UnlinkSubnetZone, Commit
<1>9. ASSUME NEW k \in ManualKeys, NEW z \in Zones, CreateManualDNSRecord(k, z)
      PROVE  TablesOK(db')
  BY <1>9 DEF TablesOK, Tables, CreateManualDNSRecord, Commit
<1>10. ASSUME NEW k \in DOMAIN db.manual \union DOMAIN db.auto, DeleteDNSRecord(k)
       PROVE  TablesOK(db')
  BY <1>10 DEF TablesOK, Tables, DeleteDNSRecord, Commit
<1>11. ASSUME NEW old \in Subnets, NEW s \in Subnets, UpdateSubnet(old, s)
       PROVE  TablesOK(db')
  BY <1>11 DEF TablesOK, Tables, UpdateSubnet, Commit, MovedSubnet
<1> QED
  BY <1>1, <1>2, <1>3, <1>4, <1>5, <1>6, <1>7, <1>8, <1>9, <1>10, <1>11 DEF Mutate

\* A step of a run of synth leaves the other runs alone, and the tables too
\* unless it is the last.
LEMMA AdvanceRuns ==
    ASSUME NEW h \in Handlers, TablesOK(db), run = [g \in Handlers |-> run[g]],
           HasPhase(run[h]), Advance(h)
    PROVE  /\ ~At(h, "idle")
           /\ HasPhase(run'[h])
           /\ run' = [g \in Handlers |-> run'[g]]
           /\ \A g \in Handlers \ {h} : run'[g] = run[g]
           /\ TablesOK(db')
           /\ \/ db' = db
              \/ Applicable(run[h].desired) /\ run'[h].phase = "idle" /\ At(h, "apply")
           /\ At(h, "apply") /\ ~Applicable(run[h].desired) => run'[h].phase = "idle"
           /\ edits' = edits
<1> USE DEF HasPhase
<1> DEFINE Read(phase) == At(h, phase) /\ \E r : HasPhase(r) /\ Goes(h, r)
<1>1. ASSUME ListHosts(h) PROVE Read("hosts")
  BY <1>1 DEF ListHosts
<1>2. ASSUME ListSubnets(h) PROVE Read("subnets")
  BY <1>2 DEF ListSubnets, LinksRead, BuildDone
<1>3. ASSUME NEW s \in run[h].todo, ListZonesForSubnet(h, s) PROVE Read("links")
  BY <1>3 DEF ListZonesForSubnet, LinksRead, BuildDone
<1>4. ASSUME NEW id \in run[h].todo, ListIPs(h, id) PROVE Read("ips")
  BY <1>4 DEF ListIPs, BuildDone
<1>5. ASSUME SuppressManual(h) PROVE Read("manual")
  BY <1>5 DEF SuppressManual
<1>6. CASE Apply(h)
  BY <1>6 DEF Apply, Goes, At, TablesOK, Tables, Idle
<1>7. CASE ApplyRejected(h)
  BY <1>7 DEF ApplyRejected, Goes, At, TablesOK, Idle
<1> QED
  BY <1>1, <1>2, <1>3, <1>4, <1>5, <1>6, <1>7 DEF Advance, Goes, At, TablesOK

-----------------------------------------------------------------------------

LEMMA Begins == ASSUME SystemInit PROVE IInv
<1>1. TablesOK(Seed)
  BY SeedIntact DEF Intact, TablesOK
<1>2. Shapes
  BY <1>1 DEF SystemInit, Init, Shapes, TablesOK, LoopShape, Loop, Idle, At, HasPhase
<1> QED
  BY <1>2 DEF IInv, Carried, SystemInit, Loop

\* A step that leaves the tables, the loop and the provider alone takes nothing
\* out of place.
LEMMA Quietly ==
    ASSUME IInv, Shapes', UNCHANGED <<db, loop, provider>>, Loud => Loud'
    PROVE  IInv'
<1>1. ASSUME NEW z \in db.zones PROVE DesiredOf(z)' = DesiredOf(z)
  BY DEF DesiredOf, KeysOfZone, PushedValues
<1> QED
  BY <1>1 DEF IInv, Carried

LEMMA HandlersKeep ==
    ASSUME IInv, NEW h \in Handlers,
           Serve(h) \/ Synthesizes(h) \/ SynthFails(h) \/ Trigger(h)
    PROVE  IInv'
<1> USE DEF IInv
<1>1. CASE Serve(h)
  <2>1. CASE Mutate /\ Resyncs(h) /\ Asks(h, "resync")
    <3>1. TablesOK(db')
      BY <2>1, MutateTables DEF TablesOK, Shapes
    <3>2. Shapes'
      <4>1. /\ run' = [g \in Handlers |-> IF g = h THEN Starting ELSE Disturbed(run[g])]
            /\ request' = [request EXCEPT ![h] = "resync"]
            /\ UNCHANGED <<trigger, calls, loop, untold, provider>>
        BY <1>1, <2>1 DEF Serve, Asks, Resyncs
      <4>2. /\ \A g \in Handlers \ {h} : run'[g].phase = run[g].phase
            /\ \A g \in Handlers : HasPhase(run'[g])
        BY <4>1 DEF Disturbed, HasPhase, Shapes, Starting, Idle
      <4>3. /\ request' = [g \in Handlers |-> request'[g]]
            /\ \A g \in Handlers : request'[g] \in {"none", "resync", "sync"}
            /\ run' = [g \in Handlers |-> run'[g]]
            /\ \A g \in Handlers : request'[g] = "none" => At(g, "idle")'
        BY <4>1, <4>2 DEF Shapes, At
      <4>4. LoopShape'
        BY <4>1 DEF Shapes, LoopShape
      <4> QED
        BY <3>1, <4>1, <4>2, <4>3, <4>4 DEF Shapes, TablesOK
    <3>3. Loud'
      BY <1>1, <2>1 DEF Serve, Asks, Loud, Changed, Shapes
    <3> QED
      BY <3>2, <3>3
  <2>2. CASE SyncNow(h) /\ Asks(h, "sync")
    <3>1. Shapes'
      BY <1>1, <2>2
      DEF Serve, Asks, SyncNow, Shapes, LoopShape, At, Starting, Idle, HasPhase
    <3>2. Loud => Loud'
      BY <1>1, <2>2 DEF Serve, Asks, SyncNow, Loud, Changed, Shapes, At
    <3> QED
      BY <1>1, <2>2, <3>1, <3>2, Quietly DEF Serve, SyncNow
  <2> QED
    BY <1>1, <2>1, <2>2 DEF Serve
<1>2. CASE Synthesizes(h)
  <2> DEFINE ok == At(h, "apply") => Applicable(run[h].desired)
  <2>1. /\ ~At(h, "idle")
        /\ run' = [g \in Handlers |-> run'[g]]
        /\ \A g \in Handlers \ {h} : run'[g] = run[g]
        /\ HasPhase(run'[h])
        /\ TablesOK(db')
        /\ \/ db' = db
           \/ Applicable(run[h].desired) /\ run'[h].phase = "idle" /\ At(h, "apply")
        /\ ~ok => run'[h].phase = "idle"
    BY <1>2, AdvanceRuns DEF Synthesizes, Shapes, TablesOK, HasPhase
  <2>2. /\ request[h] # "none"
        /\ request' = [request EXCEPT ![h] = IF ok \/ @ = "resync" THEN @ ELSE "none"]
        /\ UNCHANGED <<calls, trigger, loop, untold, provider>>
    BY <1>2, <2>1 DEF Synthesizes, After, Shapes
  <2> HIDE DEF ok
  <2>3. Shapes'
    BY <2>1, <2>2 DEF Shapes, TablesOK, LoopShape, At
  <2>4. CASE db' = db
    <3>1. Loud => Loud'
      BY <2>1, <2>2 DEF Loud, Changed, Shapes, At
    <3> QED
      BY <2>2, <2>3, <2>4, <3>1, Quietly
  <2>5. CASE Applicable(run[h].desired) /\ run'[h].phase = "idle" /\ At(h, "apply")
    <3>1. ok
      BY <2>5 DEF ok
    <3>2. Loud'
      BY <2>2, <2>5, <3>1 DEF Loud, Changed, Shapes, At
    <3> QED
      BY <2>3, <3>2
  <2> QED
    BY <2>1, <2>4, <2>5
<1>3. CASE SynthFails(h)
  <2>1. Shapes'
    BY <1>3 DEF SynthFails, RunFails, After, Shapes, LoopShape, At, Idle, HasPhase
  <2>2. Loud => Loud'
    BY <1>3 DEF SynthFails, RunFails, After, Loud, Changed, Shapes, At, Idle
  <2> QED
    BY <1>3, <2>1, <2>2, Quietly DEF SynthFails, RunFails
<1>4. CASE Trigger(h)
  <2>1. Shapes' /\ Loud'
    BY <1>4 DEF Trigger, Shapes, LoopShape, Loud, At, vars
  <2> QED
    BY <2>1
<1> QED
  BY <1>1, <1>2, <1>3, <1>4

LEMMA ToolsKeep ==
    ASSUME IInv, CallTool \/ ToolTriggers
    PROVE  IInv'
<1> USE DEF IInv
<1>1. CASE CallTool
  <2>1. TablesOK(db')
    BY <1>1, MutateTables DEF CallTool, TablesOK, Shapes
  <2>2. Shapes'
    <3>1. run' = [g \in Handlers |-> Disturbed(run[g])]
      BY <1>1 DEF CallTool, Silent
    <3>2. ASSUME NEW g \in Handlers
          PROVE  run'[g].phase = run[g].phase /\ HasPhase(run'[g])
      <4>1. HasPhase(run[g])
        BY DEF Shapes
      <4> QED
        BY <3>1, <4>1 DEF Disturbed, HasPhase
    <3>3. UNCHANGED <<request, trigger, loop, provider>>
      BY <1>1 DEF CallTool
    <3>4. calls \in Nat /\ untold \in BOOLEAN
      BY DEF Shapes
    <3>5. calls' \in Nat /\ untold' \in BOOLEAN
      <4>1. calls' = calls + 1 \/ calls' = calls
        BY <1>1 DEF CallTool
      <4>2. calls' \in Nat
        BY <3>4, <4>1
      <4>3. untold' \in BOOLEAN
        BY <1>1, <3>4, Zenon DEF CallTool
      <4> QED
        BY <4>2, <4>3
    <3> QED
      <4>1. /\ run' = [h \in Handlers |-> run'[h]]
            /\ \A h \in Handlers : request'[h] = "none" => At(h, "idle")'
        BY <3>1, <3>2, <3>3 DEF Shapes, At
      <4>2. LoopShape'
        BY <3>3 DEF Shapes, LoopShape
      <4> QED
        BY <2>1, <3>2, <3>3, <3>5, <4>1, <4>2 DEF Shapes, TablesOK
  <2>3. Loud'
    BY <1>1 DEF CallTool, Loud, Shapes
  <2> QED
    BY <2>2, <2>3
<1>2. CASE ToolTriggers
  BY <1>2 DEF ToolTriggers, Shapes, LoopShape, Loud, At, vars
<1> QED
  BY <1>1, <1>2

\* A run that begins has every zone ahead of it.
LEMMA RunsCarry ==
    ASSUME Shapes, Runs
    PROVE  \A z \in db'.zones : Carried(z)'
BY NumberedByOrder DEF Runs, LoopGoes, Loop, Carried, Shapes, vars

LEMMA LoopKeeps ==
    ASSUME IInv, LoopStep \/ WriteFails
    PROVE  IInv'
<1> USE DEF IInv
<1>1. ASSUME UNCHANGED db, NEW z PROVE DesiredOf(z)' = DesiredOf(z)
  BY <1>1 DEF DesiredOf, KeysOfZone, PushedValues
<1>2. CASE Start \/ WakeOnTick \/ WakeOnTrigger
  <2>1. Runs /\ trigger' \in BOOLEAN
    BY <1>2 DEF Start, WakeOnTick, WakeOnTrigger, Shapes
  <2>2. Shapes'
    BY <2>1 DEF Runs, LoopGoes, Loop, Shapes, LoopShape, At, vars
  <2> QED
    BY <2>1, <2>2, RunsCarry
<1>3. CASE LoadZone
  <2>1. Shapes'
    BY <1>3 DEF LoadZone, LoopGoes, Shapes, LoopShape, At, vars
  <2>2. Loud' = Loud
    BY <1>3 DEF LoadZone, LoopGoes, Loud, Changed, At, vars
  <2>3. ASSUME NEW z \in db.zones, Carried(z) PROVE Carried(z)'
    <3>1. DesiredOf(z)' = DesiredOf(z)
      BY <1>1, <1>3 DEF LoadZone, vars
    <3> QED
      BY <1>3, <2>3, <3>1 DEF LoadZone, LoopGoes, Carried, Shapes, LoopShape
  <2> QED
    BY <1>3, <2>1, <2>2, <2>3 DEF LoadZone, vars
<1>4. CASE WriteZone
  <2>1. Shapes'
    BY <1>4 DEF WriteZone, LoopGoes, Leave, Shapes, LoopShape, At, vars
  <2>2. Loud' = Loud
    BY <1>4 DEF WriteZone, LoopGoes, Loud, Changed, At, vars
  <2>3. ASSUME NEW z \in db.zones, Carried(z) PROVE Carried(z)'
    <3>1. DesiredOf(z)' = DesiredOf(z)
      BY <1>1, <1>4 DEF WriteZone, vars
    <3>2. /\ loop.zone # 0
          /\ provider' = [provider EXCEPT ![loop.zone] = loop.want]
          /\ loop'.phase = loop.phase
          /\ loop'.todo = loop.todo \ {loop.zone}
          /\ loop'.zone = 0 /\ loop'.failed = loop.failed
      BY <1>4 DEF WriteZone, LoopGoes, Leave, Shapes, LoopShape
    <3>3. z \in Zones /\ z # 0
      BY NumberedByOrder DEF Shapes
    <3>4. CASE z = loop.zone
      <4>1. provider'[z] = loop.want
        BY <3>2, <3>3, <3>4 DEF Shapes
      <4> QED
        BY <2>3, <3>1, <3>2, <3>3, <3>4, <4>1 DEF Carried, Shapes, LoopShape
    <3>5. CASE z # loop.zone
      <4>1. provider'[z] = provider[z]
        BY <3>2, <3>3, <3>5 DEF Shapes
      <4> QED
        BY <2>3, <3>1, <3>2, <3>3, <3>5, <4>1 DEF Carried
    <3> QED
      BY <3>4, <3>5
  <2> QED
    BY <1>4, <2>1, <2>2, <2>3 DEF WriteZone, vars
<1>5. CASE RunEnds
  <2>1. Shapes'
    BY <1>5 DEF RunEnds, LoopGoes, Loop, Shapes, LoopShape, At, vars
  <2>2. Loud' = Loud
    BY <1>5 DEF RunEnds, LoopGoes, Loud, Changed, At, vars
  <2>3. ASSUME NEW z \in db.zones, Carried(z) PROVE Carried(z)'
    <3>1. DesiredOf(z)' = DesiredOf(z)
      BY <1>1, <1>5 DEF RunEnds, vars
    <3> QED
      BY <1>5, <2>3, <3>1, NumberedByOrder DEF RunEnds, LoopGoes, Loop, Carried, Shapes, LoopShape
  <2> QED
    BY <1>5, <2>1, <2>2, <2>3 DEF RunEnds, vars
<1>6. CASE WriteFails
  <2>1. Shapes'
    BY <1>6 DEF WriteFails, LoopGoes, Leave, Shapes, LoopShape, At
  <2>2. Loud' = Loud
    BY <1>6 DEF WriteFails, LoopGoes, Loud, Changed, At
  <2>3. ASSUME NEW z \in db.zones, Carried(z) PROVE Carried(z)'
    BY <1>6, <2>3, NumberedByOrder DEF WriteFails, LoopGoes, Leave, Carried, Shapes, LoopShape
  <2> QED
    BY <1>6, <2>1, <2>2, <2>3 DEF WriteFails
<1> QED
  BY <1>2, <1>3, <1>4, <1>5, <1>6 DEF LoopStep

LEMMA RestartKeeps ==
    ASSUME IInv, Restart
    PROVE  IInv'
BY DEF IInv, Restart, Shapes, LoopShape, Loop, Carried, Idle, At, HasPhase

LEMMA StepsKeep ==
    ASSUME IInv, [SystemNext]_allVars
    PROVE  IInv'
<1>1. CASE UNCHANGED allVars
  BY <1>1, Quietly DEF IInv, allVars, vars, systemVars, Shapes, LoopShape, At, Loud, Changed
<1> QED
  BY <1>1, HandlersKeep, ToolsKeep, LoopKeeps, RestartKeeps DEF SystemNext

LEMMA Invariance == System => []IInv
BY Begins, StepsKeep, PTL DEF System

\* When the system has settled, the provider holds the records of the tables:
\* whatever handlers, tools, runs of synth and of the reconciler, failures and
\* restarts there were, and in whatever order.
THEOREM NoChangeForgotten == System => []NothingForgotten
<1>1. IInv => NothingForgotten
  BY DEF IInv, NothingForgotten, Settled, InSync, Resting, Loud, Changed, Carried, Shapes
<1> QED
  BY <1>1, Invariance, PTL

-----------------------------------------------------------------------------
\* The whole system keeps what synth keeps, and its own bounds.

Within ==
    /\ SynthInv
    /\ calls <= edits
    /\ loop.todo \subseteq Zones
    /\ loop.zone \in loop.todo \union {0}

LEMMA SystemBegins == ASSUME SystemInit PROVE Within
<1>1. SynthInv
  BY SynthBegins DEF SystemInit
<1>2. edits = 0 /\ calls = 0 /\ loop = Loop("initial")
  BY DEF SystemInit, Init
<1> QED
  BY <1>1, <1>2 DEF Within, Loop

LEMMA HandlersStayWithin ==
    ASSUME IInv, Within, NEW h \in Handlers,
           Serve(h) \/ Synthesizes(h) \/ SynthFails(h) \/ Trigger(h)
    PROVE  Within'
<1>1. edits \in Nat /\ calls \in Nat
  BY BoundIsNatural DEF IInv, Shapes, Within, SynthInv
<1>2. UNCHANGED <<calls, loop>>
  BY DEF Serve, Synthesizes, SynthFails, Trigger
<1>3. SynthInv' /\ edits' \in {edits, edits + 1}
  <2>1. CASE Serve(h)
    <3>1. CASE Mutate /\ Resyncs(h)
      <4>1. SynthInv'
        BY <3>1, MutationsKeep DEF Within
      <4>2. edits' = edits + 1
        BY <3>1, MutationsCount
      <4> QED
        BY <4>1, <4>2
    <3>2. CASE SyncNow(h)
      BY <3>2, SyncKeeps DEF Within, SyncNow
    <3> QED
      BY <2>1, <3>1, <3>2 DEF Serve
  <2>2. CASE Synthesizes(h)
    <3>1. SynthInv'
      BY <2>2, AdvanceKeeps DEF Within, Synthesizes
    <3>2. edits' = edits
      BY <2>2, AdvanceRuns DEF Synthesizes, IInv, Shapes, TablesOK
    <3> QED
      BY <3>1, <3>2
  <2>3. CASE SynthFails(h)
    BY <2>3, FailuresKeep DEF Within, SynthFails, RunFails, Spent
  <2>4. CASE Trigger(h)
    BY <2>4, SynthSteps DEF Within, Trigger, vars
  <2> QED
    BY <2>1, <2>2, <2>3, <2>4
<1> QED
  BY <1>1, <1>2, <1>3 DEF Within

LEMMA OthersStayWithin ==
    ASSUME IInv, Within, CallTool \/ ToolTriggers \/ LoopStep \/ WriteFails \/ Restart
    PROVE  Within'
<1>1. edits \in Nat /\ calls \in Nat /\ db.zones \subseteq Zones /\ LoopShape
  BY BoundIsNatural DEF IInv, Shapes, Within, SynthInv
<1>2. UNCHANGED vars => SynthInv' /\ edits' = edits
  BY SynthSteps DEF Within, vars
<1>3. CASE CallTool
  <2>1. SynthInv' /\ edits' = edits + 1
    BY <1>3, MutationsKeep, MutationsCount DEF Within, CallTool
  <2> QED
    BY <1>1, <1>3, <2>1 DEF Within, CallTool
<1>4. CASE ToolTriggers
  BY <1>1, <1>2, <1>4 DEF Within, ToolTriggers
<1>5. CASE Start \/ WakeOnTick \/ WakeOnTrigger
  <2>1. Runs
    BY <1>5 DEF Start, WakeOnTick, WakeOnTrigger
  <2> QED
    BY <1>1, <1>2, <2>1 DEF Within, Runs, LoopGoes, Loop
<1>6. CASE LoadZone
  <2>1. Min(loop.todo) \in loop.todo
    BY <1>6, NumberedByOrder, FirstIsLeast DEF LoadZone, Within
  <2>2. UNCHANGED vars /\ calls' = calls
        /\ loop' = [loop EXCEPT !.zone = Min(loop.todo), !.want = DesiredOf(Min(loop.todo))]
    BY <1>6 DEF LoadZone, LoopGoes
  <2>3. loop'.todo = loop.todo /\ loop'.zone = Min(loop.todo)
    BY <1>1, <2>2 DEF LoopShape
  <2> QED
    BY <1>2, <2>1, <2>2, <2>3 DEF Within
<1>7. CASE WriteZone
  BY <1>1, <1>2, <1>7 DEF Within, WriteZone, LoopGoes, Leave, LoopShape
<1>8. CASE RunEnds
  BY <1>1, <1>2, <1>8 DEF Within, RunEnds, LoopGoes, Loop
<1>9. CASE WriteFails
  <2>1. edits' = edits + 1 /\ edits' \in 0..MaxEdits /\ UNCHANGED <<db, run, settled, calls>>
    BY <1>9, BoundIsNatural DEF WriteFails, Spent, Within, SynthInv, LoopGoes
  <2>2. SynthInv'
    BY <2>1, RunsComeAndGo DEF Within, SynthInv
  <2>3. loop'.todo \subseteq Zones /\ loop'.zone = 0
    BY <1>1, <1>9 DEF Within, WriteFails, LoopGoes, Leave, LoopShape
  <2> QED
    BY <1>1, <2>1, <2>2, <2>3 DEF Within
<1>10. CASE Restart
  <2>1. /\ edits' = edits + 1 /\ edits' \in 0..MaxEdits /\ UNCHANGED <<db, settled>>
        /\ calls' = 0 /\ loop' = Loop("initial") /\ run' = [h \in Handlers |-> Idle]
    BY <1>10, BoundIsNatural DEF Restart, Spent, Within, SynthInv
  <2>2. SynthInv'
    BY <2>1, RunsComeAndGo DEF Within
  <2> QED
    BY <1>1, <2>1, <2>2 DEF Within, Loop
<1> QED
  BY <1>3, <1>4, <1>5, <1>6, <1>7, <1>8, <1>9, <1>10 DEF LoopStep

LEMMA SystemStaysWithin ==
    ASSUME IInv, Within, [SystemNext]_allVars
    PROVE  Within'
<1>1. CASE UNCHANGED allVars
  <2>1. SynthInv'
    BY <1>1, SynthSteps DEF Within, allVars
  <2> QED
    BY <1>1, <2>1 DEF Within, allVars, vars, systemVars
<1> QED
  BY <1>1, HandlersStayWithin, OthersStayWithin DEF SystemNext

LEMMA SystemInvariance == System => [](IInv /\ Within)
<1>1. SystemInit => IInv /\ Within
  BY Begins, SystemBegins
<1>2. IInv /\ Within /\ [SystemNext]_allVars => (IInv /\ Within)'
  BY StepsKeep, SystemStaysWithin
<1> QED
  BY <1>1, <1>2, PTL DEF System

\* Tables, runs of synth, requests, trigger and the reconciler's run keep their
\* form through restarts, and a run of synth is always some request's, for any
\* number of handlers and any inventory.
THEOREM SystemTypeCorrect == System => []SystemTypeOK
<1>1. ASSUME IInv, Within PROVE SystemTypeOK
  <2>1. calls \in 0..MaxEdits
    BY <1>1, BoundIsNatural DEF IInv, Shapes, Within, SynthInv
  <2>2. request \in [Handlers -> {"none", "resync", "sync"}]
    BY <1>1 DEF IInv, Shapes
  <2>3. TypeOK
    BY <1>1, InvIsTyped DEF Within
  <2>4. /\ \A h \in Handlers : ~At(h, "idle") => request[h] # "none"
        /\ trigger \in BOOLEAN /\ untold \in BOOLEAN
        /\ loop.phase \in {"initial", "select", "zones"}
        /\ loop.zone \in loop.todo \union {0} /\ loop.todo \subseteq Zones
        /\ DOMAIN provider = Zones
    BY <1>1 DEF IInv, Shapes, LoopShape, Within
  <2> QED
    BY <2>1, <2>2, <2>3, <2>4 DEF SystemTypeOK
<1> QED
  BY <1>1, SystemInvariance, PTL

\* In the whole system too, with its requests that give up, its tools and its
\* restarts, an undisturbed run of synth leaves exactly what the tables call for.
THEOREM SystemIsExact == System => []RunsAreExact
<1>1. Within => RunsAreExact
  BY InvIsExact DEF Within
<1> QED
  BY <1>1, SystemInvariance, PTL

=============================================================================
