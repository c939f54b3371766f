---------------------------- MODULE Leases_proofs ----------------------------
(***************************************************************************)
(* Proofs about Leases, for any devices, addresses, names and number of    *)
(* edits, and however Kea spells them.  The constraints of the schema hold *)
(* for ever, a poll leaves the rows users entered alone, it takes no row   *)
(* away that Kea spells so, and one that nobody disturbs leaves as dynamic *)
(* rows just the leases it has read and that are in normal form.           *)
(***************************************************************************)
EXTENDS Leases, RowIds_proofs

-----------------------------------------------------------------------------
\* Names and rows

\* A lease that parses has names and a row.
LEMMA NamesOfLeases ==
    ASSUME NEW l \in Leasable, Parses(l)
    PROVE  /\ NameFor(l) \in Names
           /\ DynamicRow(l) \in Rows /\ DynamicRow(l).mac = Device(l)
           /\ Pair(DynamicRow(l)) = StoredAs(l)
<1>1. l.hw \in HWTexts /\ l.ip \in IPTexts /\ l.hostname \in Hostnames
  BY LeasesAreTexts
<1>2. Device(l) \in MACs /\ Address(l) \in Addrs
  BY <1>1, Normalisation DEF Parses, Device, Address
<1> DEFINE bases == UserNames \union {Fallback(m) : m \in MACs}
<1>3. BaseName(l) \in bases
  BY <1>1, <1>2 DEF BaseName, UserNames
<1>4. /\ bases \subseteq Names
      /\ \A b \in bases, m \in MACs : Suffixed(b, m) \in Names
  BY DEF Names
<1>5. NameFor(l) \in Names
  BY <1>2, <1>3, <1>4 DEF NameFor
<1>6. /\ DynamicRow(l) \in Rows /\ DynamicRow(l).mac = Device(l)
      /\ Pair(DynamicRow(l)) = StoredAs(l)
  BY <1>2 DEF DynamicRow, Rows, Kinds, Pair, StoredAs
<1>7. QED
  BY <1>5, <1>6

\* A lease in normal form parses, and is stored as it is spelled.
LEMMA NormalForms ==
    ASSUME NEW l, Normal(l)
    PROVE  Parses(l) /\ StoredAs(l) = Texts(l)
<1>1. l.hw \in MACs /\ l.ip \in Addrs
  BY DEF Normal, Texts
<1>2. QED
  BY <1>1, Normalisation DEF Parses, StoredAs, Texts, Device, Address

\* A table of addresses that is in order, and no larger than a number says.
Sound(table, owners) == RowsOK(table, owners) /\ Bounded(DOMAIN table)

LEMMA RowsInserted ==
    ASSUME NEW table, NEW owners, Sound(table, owners),
           NEW row \in Rows, row.mac \in owners,
           \A i \in DOMAIN table : Pair(table[i]) # Pair(row)
    PROVE  Sound(Insert(table, row), owners)
<1> DEFINE new == Insert(table, row)
<1>1. /\ DOMAIN new = DOMAIN table \union {NextId(table)}
      /\ new[NextId(table)] = row
      /\ \A i \in DOMAIN table : new[i] = table[i]
      /\ DOMAIN new \subseteq Ids
      /\ Bounded(DOMAIN new)
  BY InsertRow DEF Sound, RowsOK
<1> HIDE DEF new
<1>2. \A i \in DOMAIN new : new[i] \in Rows /\ new[i].mac \in owners
  BY <1>1 DEF Sound, RowsOK
<1>3. ASSUME NEW i \in DOMAIN new, NEW j \in DOMAIN new, Pair(new[i]) = Pair(new[j])
      PROVE  i = j
  <2>1. CASE i \in DOMAIN table /\ j \in DOMAIN table
    BY <1>1, <1>3, <2>1 DEF Sound, RowsOK
  <2>2. CASE i = NextId(table) \/ j = NextId(table)
    BY <1>1, <1>3, <2>2
  <2>3. QED
    BY <1>1, <2>1, <2>2
<1>4. QED
  BY <1>1, <1>2, <1>3 DEF Sound, RowsOK, new

LEMMA RowsDeleted ==
    ASSUME NEW table, NEW owners, Sound(table, owners),
           NEW I, NEW kept,
           \A i \in DOMAIN table \ I : table[i].mac \in kept
    PROVE  Sound(Without(table, I), kept)
<1> DEFINE new == Without(table, I)
<1>1. /\ DOMAIN new = DOMAIN table \ I
      /\ \A i \in DOMAIN table \ I : new[i] = table[i]
      /\ Bounded(DOMAIN new)
  BY WithoutRows DEF Sound, RowsOK
<1> HIDE DEF new
<1>2. Sound(new, kept)
  BY <1>1 DEF Sound, RowsOK
<1>3. QED
  BY <1>2 DEF new

-----------------------------------------------------------------------------
\* What the prune has selected is still what it looked for, or was born since.
Marked ==
    At("prune") => \A i \in (run.stale \intersect DOMAIN ips) \ run.reborn :
        ips[i].kind = "dynamic" /\ Pair(ips[i]) \notin run.seen

IInv == NICsOK /\ Sound(ips, DOMAIN nics) /\ RunOK /\ RestOK /\ Marked

LEMMA InitIInv == Init => IInv
<1> SUFFICES ASSUME Init
             PROVE  IInv
  OBVIOUS
<1>1. DOMAIN ips = {} /\ DOMAIN nics = {}
  BY DEF Init, Empty
<1>2. calm \in BOOLEAN
  BY Zenon DEF Init
<1>3. NICsOK
  BY <1>1, KnownNames DEF Init, NICsOK
<1>4. Sound(ips, DOMAIN nics) /\ Marked
  BY <1>1 DEF Init, Sound, RowsOK, Marked, Bounded
<1>5. RunOK
  BY DEF Init, Idle, RunOK
<1>6. leases \subseteq Leasable /\ status = "never" /\ edits \in 0..MaxEdits
  BY BoundIsNatural DEF Init
<1>7. QED
  BY <1>2, <1>3, <1>4, <1>5, <1>6 DEF IInv, RestOK

LEMMA ChangedRest ==
    ASSUME RestOK, Changed, leases' \subseteq Leasable
    PROVE  RestOK'
<1>1. calm' \in BOOLEAN
  BY Zenon DEF Changed
<1>2. edits' \in 0..MaxEdits /\ status' = status
  BY BoundIsNatural DEF RestOK, Changed
<1>3. QED
  BY <1>1, <1>2 DEF RestOK

\* Rows that go leave the marks on the others.
LEMMA MarkedAfterDelete ==
    ASSUME Marked, NEW I, ips' = Without(ips, I),
           run'.phase = run.phase, run'.seen = run.seen,
           run'.reborn = run.reborn, run'.stale \subseteq run.stale
    PROVE  Marked'
<1>1. DOMAIN ips' = DOMAIN ips \ I /\ \A i \in DOMAIN ips' : ips'[i] = ips[i]
  BY DEF Without, Restrict
<1>2. QED
  BY <1>1 DEF Marked, At

LEMMA ChangeKeepsIInv ==
    ASSUME IInv, Changed, UNCHANGED <<tables, run>>, leases' \subseteq Leasable
    PROVE  IInv'
<1>1. RestOK'
  BY ChangedRest DEF IInv
<1>2. NICsOK' /\ Sound(ips, DOMAIN nics)' /\ RunOK' /\ Marked'
  BY DEF IInv, tables, NICsOK, Sound, RowsOK, RunOK, Marked, At
<1>3. QED
  BY <1>1, <1>2 DEF IInv

LEMMA DeleteNICsKeepsIInv ==
    ASSUME IInv, Changed, UNCHANGED <<leases, run>>,
           NEW M, nics' = Without(nics, M), ips' = Without(ips, IdsOf(M)),
           hosts' \subseteq hosts, \A m \in DOMAIN nics \ M : nics[m] \in hosts'
    PROVE  IInv'
<1>1. RestOK'
  BY ChangedRest DEF IInv, RestOK
<1>2. DOMAIN nics' = DOMAIN nics \ M /\ \A m \in DOMAIN nics' : nics'[m] = nics[m]
  BY DEF Without, Restrict
<1>3. NICsOK'
  BY <1>2 DEF IInv, NICsOK
<1>4. \A i \in DOMAIN ips \ IdsOf(M) : ips[i].mac \in DOMAIN nics'
  BY <1>2 DEF IInv, Sound, RowsOK, IdsOf
<1>5. Sound(Without(ips, IdsOf(M)), DOMAIN nics')
  BY <1>4, RowsDeleted DEF IInv
<1>6. Marked'
  BY MarkedAfterDelete DEF IInv
<1>7. RunOK'
  BY DEF IInv, RunOK
<1>8. QED
  BY <1>1, <1>3, <1>5, <1>6, <1>7 DEF IInv

LEMMA UserKeepsIInv ==
    ASSUME IInv, User
    PROVE  IInv'
<1>1. ASSUME NEW name \in hosts \union UserNames, CreateHost(name)
      PROVE  IInv'
  <2>1. RestOK'
    BY <1>1, ChangedRest DEF IInv, RestOK, CreateHost
  <2>2. NICsOK'
    BY <1>1 DEF IInv, NICsOK, CreateHost, Names
  <2>3. Sound(ips, DOMAIN nics)' /\ RunOK' /\ Marked'
    BY <1>1 DEF IInv, CreateHost, Sound, RowsOK, RunOK, Marked, At
  <2>4. QED
    BY <2>1, <2>2, <2>3 DEF IInv
<1>2. ASSUME NEW name \in hosts \union UserNames, DeleteHost(name)
      PROVE  IInv'
  <2> DEFINE gone == {m \in DOMAIN nics : nics[m] = name}
  <2>1. /\ Changed /\ UNCHANGED <<leases, run>>
        /\ nics' = Without(nics, gone) /\ ips' = Without(ips, IdsOf(gone))
        /\ hosts' \subseteq hosts
    BY <1>2 DEF DeleteHost
  <2>2. \A m \in DOMAIN nics \ gone : nics[m] \in hosts'
    BY <1>2 DEF DeleteHost, IInv, NICsOK
  <2> HIDE DEF gone
  <2>3. QED
    BY <2>1, <2>2, DeleteNICsKeepsIInv
<1>3. ASSUME NEW name \in hosts, NEW mac \in MACs, CreateNIC(name, mac)
      PROVE  IInv'
  <2>1. RestOK'
    BY <1>3, ChangedRest DEF IInv, RestOK, CreateNIC
  <2>2. /\ DOMAIN nics' = DOMAIN nics \union {mac}
        /\ nics'[mac] = name
        /\ \A m \in DOMAIN nics : nics'[m] = nics[m]
    BY <1>3 DEF CreateNIC, With
  <2>3. NICsOK'
    BY <1>3, <2>2 DEF IInv, NICsOK, CreateNIC
  <2>4. Sound(ips, DOMAIN nics)' /\ RunOK' /\ Marked'
    BY <1>3, <2>2 DEF IInv, CreateNIC, Sound, RowsOK, RunOK, Marked, At
  <2>5. QED
    BY <2>1, <2>3, <2>4 DEF IInv
<1>4. ASSUME NEW mac \in MACs, DeleteNIC(mac)
      PROVE  IInv'
  <2>1. \A m \in DOMAIN nics \ {mac} : nics[m] \in hosts'
    BY <1>4 DEF DeleteNIC, IInv, NICsOK
  <2>2. QED
    BY <1>4, <2>1, DeleteNICsKeepsIInv DEF DeleteNIC
<1>5. ASSUME NEW row \in Rows, CreateIPAssignment(row)
      PROVE  IInv'
  <2>1. RestOK'
    BY <1>5, ChangedRest DEF IInv, RestOK, CreateIPAssignment
  <2>2. NICsOK'
    BY <1>5 DEF IInv, NICsOK, CreateIPAssignment
  <2>3. Sound(Insert(ips, row), DOMAIN nics)
    BY <1>5, RowsInserted DEF IInv, CreateIPAssignment, Pairs, IpRows
  <2>4. /\ NextId(ips) \in Ids
        /\ DOMAIN ips' = DOMAIN ips \union {NextId(ips)}
        /\ \A i \in DOMAIN ips : ips'[i] = ips[i]
    <3>1. NextId(ips) \in Ids /\ NextId(ips) \notin DOMAIN ips
      BY NextIdIsFree DEF IInv, Sound, RowsOK
    <3>2. ips' = Insert(ips, row)
      BY <1>5 DEF CreateIPAssignment
    <3>3. QED
      BY <3>1, <3>2 DEF Insert, With
  <2>5. CASE At("prune")
    <3>1. run' = [run EXCEPT !.reborn = @ \union {NextId(ips)}]
      BY <1>5, <2>5 DEF CreateIPAssignment, Reborn, At
    <3>2. RunOK'
      BY <3>1, <2>4 DEF IInv, RunOK
    <3>3. Marked'
      BY <3>1, <2>4, <2>5 DEF IInv, RunOK, Marked, At
    <3>4. QED
      BY <1>5, <2>1, <2>2, <2>3, <3>2, <3>3 DEF IInv, CreateIPAssignment
  <2>6. CASE ~At("prune")
    <3>1. run' = run
      BY <1>5, <2>6 DEF CreateIPAssignment, Reborn, At
    <3>2. RunOK' /\ Marked'
      BY <3>1, <2>6 DEF IInv, RunOK, Marked, At
    <3>3. QED
      BY <1>5, <2>1, <2>2, <2>3, <3>2 DEF IInv, CreateIPAssignment
  <2>7. QED
    BY <2>5, <2>6
<1>6. ASSUME NEW id \in DOMAIN ips, DeleteIPAssignment(id)
      PROVE  IInv'
  <2>1. RestOK'
    BY <1>6, ChangedRest DEF IInv, RestOK, DeleteIPAssignment
  <2>2. NICsOK' /\ RunOK'
    BY <1>6 DEF IInv, NICsOK, RunOK, DeleteIPAssignment
  <2>3. \A i \in DOMAIN ips \ {id} : ips[i].mac \in DOMAIN nics
    BY DEF IInv, Sound, RowsOK
  <2>4. Sound(Without(ips, {id}), DOMAIN nics)
    BY <2>3, RowsDeleted DEF IInv
  <2>5. Marked'
    BY <1>6, MarkedAfterDelete DEF IInv, DeleteIPAssignment
  <2>6. QED
    BY <1>6, <2>1, <2>2, <2>4, <2>5 DEF IInv, DeleteIPAssignment
<1>7. QED
  BY <1>1, <1>2, <1>3, <1>4, <1>5, <1>6 DEF User

\* A lease stored: its NIC is there by now, the address is added or was there.
LEMMA UpsertKeepsIInv ==
    ASSUME IInv, NEW l \in Leasable, UpsertDynamicLease(l)
    PROVE  IInv'
<1>0. Parses(l)
  BY DEF UpsertDynamicLease, Refused
<1>1. RestOK'
  BY DEF IInv, RestOK, UpsertDynamicLease
<1>2. /\ hosts \subseteq hosts' /\ NICsOK'
      /\ DOMAIN nics \subseteq DOMAIN nics' /\ Device(l) \in DOMAIN nics'
  <2>1. CASE Device(l) \in DOMAIN nics
    BY <2>1 DEF UpsertDynamicLease, IInv, NICsOK
  <2>2. CASE Device(l) \notin DOMAIN nics
    <3>1. hosts' = hosts \union {NameFor(l)} /\ nics' = With(nics, Device(l), NameFor(l))
      BY <2>2 DEF UpsertDynamicLease
    <3>2. /\ DOMAIN nics' = DOMAIN nics \union {Device(l)}
          /\ nics'[Device(l)] = NameFor(l)
          /\ \A m \in DOMAIN nics \ {Device(l)} : nics'[m] = nics[m]
      BY <3>1 DEF With
    <3>3. NameFor(l) \in Names /\ Device(l) \in MACs
      BY <1>0, NamesOfLeases DEF Rows
    <3>4. QED
      BY <3>1, <3>2, <3>3 DEF IInv, NICsOK
  <2>3. QED
    BY <2>1, <2>2
<1>3. Sound(ips, DOMAIN nics')
  BY <1>2 DEF IInv, Sound, RowsOK
<1>4. Sound(ips', DOMAIN nics')
  <2> DEFINE row == DynamicRow(l)
  <2>1. row \in Rows /\ row.mac \in DOMAIN nics'
    BY <1>0, <1>2, NamesOfLeases
  <2>2. CASE Pair(row) \in Pairs(IpRows)
    BY <1>3, <2>2 DEF UpsertDynamicLease, InsertOrIgnore
  <2>3. CASE Pair(row) \notin Pairs(IpRows)
    <3>1. \A i \in DOMAIN ips : Pair(ips[i]) # Pair(row)
      BY <2>3 DEF Pairs, IpRows
    <3>2. ips' = Insert(ips, row)
      BY <2>3 DEF UpsertDynamicLease, InsertOrIgnore
    <3> HIDE DEF row
    <3>3. Sound(Insert(ips, row), DOMAIN nics')
      BY <1>3, <2>1, <3>1, RowsInserted
    <3>4. QED
      BY <3>2, <3>3
  <2>4. QED
    BY <2>2, <2>3
<1>5. RunOK' /\ Marked'
  BY DEF UpsertDynamicLease, IInv, RunOK, Marked, At
<1>6. QED
  BY <1>1, <1>2, <1>4, <1>5 DEF IInv

LEMMA PollKeepsIInv ==
    ASSUME IInv, Poll
    PROVE  IInv'
<1> DEFINE Same == UNCHANGED <<leases, tables, edits>>
<1>1. ASSUME Same, RunOK', Marked', status' \in {"never", "ok", "failed"},
             calm' \in BOOLEAN
      PROVE  IInv'
  <2>1. RestOK'
    BY <1>1 DEF IInv, RestOK
  <2>2. NICsOK' /\ Sound(ips, DOMAIN nics)'
    BY <1>1 DEF IInv, tables, NICsOK, Sound, RowsOK
  <2>3. QED
    BY <1>1, <2>1, <2>2 DEF IInv
<1>2. CASE ListLeases4
  <2>1. RunOK' /\ Marked'
    <3>1. Seen(leases) \subseteq HWTexts \X IPTexts
      BY LeasesAreTexts DEF Seen, Texts, IInv, RestOK
    <3>2. QED
      BY <1>2, <3>1 DEF ListLeases4, IInv, RunOK, RestOK, Marked, At, Idle
  <2>2. calm' \in BOOLEAN
    BY <1>2, Zenon DEF ListLeases4
  <2>3. QED
    BY <1>1, <1>2, <2>1, <2>2 DEF ListLeases4, IInv, RestOK
<1>3. CASE ListFails
  <2>1. RunOK' /\ Marked'
    BY <1>3 DEF ListFails, IInv, RunOK, Marked, At, tables
  <2>2. calm' \in BOOLEAN
    BY <1>3, Zenon DEF ListFails
  <2>3. QED
    BY <1>1, <1>3, <2>1, <2>2 DEF ListFails
<1>4. ASSUME NEW l \in Leasable, UpsertDynamicLease(l)
      PROVE  IInv'
  BY <1>4, UpsertKeepsIInv
<1>5. ASSUME NEW l \in Leasable, UpsertRejected(l) \/ UpsertFails(l)
      PROVE  IInv'
  <2>1. RunOK' /\ Marked'
    <3>1. /\ At("upsert")
          /\ run' = [run EXCEPT !.todo = @ \ {l}]
      BY <1>5 DEF UpsertRejected, UpsertFails
    <3>2. QED
      BY <3>1 DEF IInv, RunOK, Marked, At
  <2>2. calm' \in BOOLEAN
    <3>1. calm' = calm \/ calm' = FALSE
      BY <1>5 DEF UpsertRejected, UpsertFails
    <3>2. calm \in BOOLEAN
      BY DEF IInv, RestOK
    <3>3. QED
      BY <3>1, <3>2, Zenon
  <2>3. QED
    BY <1>1, <1>5, <2>1, <2>2 DEF UpsertRejected, UpsertFails, IInv, RestOK
<1>6. CASE SelectStale \/ SelectCutShort
  <2>1. /\ UNCHANGED <<leases, tables, status, edits>>
        /\ \E part \in SUBSET StaleIds :
            run' = [run EXCEPT !.phase = "prune", !.stale = part]
    BY <1>6 DEF SelectStale, SelectCutShort
  <2>2. PICK part \in SUBSET StaleIds :
            run' = [run EXCEPT !.phase = "prune", !.stale = part]
    BY <2>1
  <2>3. run'.phase = "prune" /\ run'.stale = part /\ run'.seen = run.seen
    BY <2>2 DEF IInv, RunOK
  <2>4. part \subseteq DOMAIN ips
    BY DEF StaleIds
  <2>5. RunOK'
    BY <2>2, <2>4 DEF IInv, RunOK, Sound, RowsOK
  <2>6. Marked'
    BY <2>1, <2>3 DEF tables, StaleIds, Marked
  <2>7. calm' \in BOOLEAN
    <3>1. calm' = calm \/ calm' = FALSE
      BY <1>6 DEF SelectStale, SelectCutShort
    <3>2. calm \in BOOLEAN
      BY DEF IInv, RestOK
    <3>3. QED
      BY <3>1, <3>2, Zenon
  <2>8. QED
    BY <1>1, <2>1, <2>5, <2>6, <2>7 DEF IInv, RestOK
<1>7. ASSUME NEW id \in run.stale, DeleteStale(id)
      PROVE  IInv'
  <2>1. RestOK' /\ NICsOK' /\ RunOK'
    BY <1>7 DEF DeleteStale, IInv, RestOK, NICsOK, RunOK
  <2>2. \A i \in DOMAIN ips \ {id} : ips[i].mac \in DOMAIN nics
    BY DEF IInv, Sound, RowsOK
  <2>3. Sound(Without(ips, {id}), DOMAIN nics)
    BY <2>2, RowsDeleted DEF IInv
  <2>4. Marked'
    BY <1>7, MarkedAfterDelete DEF DeleteStale, IInv
  <2>5. QED
    BY <1>7, <2>1, <2>3, <2>4 DEF DeleteStale, IInv
<1>8. CASE PruneFails
  <2>1. RunOK' /\ Marked'
    BY <1>8 DEF PruneFails, Idle, RunOK, Marked, At
  <2>2. calm' \in BOOLEAN
    BY <1>8, Zenon DEF PruneFails
  <2>3. QED
    BY <1>1, <1>8, <2>1, <2>2 DEF PruneFails
<1>9. CASE PollDone
  <2>1. RunOK' /\ Marked'
    BY <1>9 DEF PollDone, Idle, RunOK, Marked, At
  <2>2. QED
    BY <1>1, <1>9, <2>1 DEF PollDone, IInv, RestOK
<1>10. QED
  BY <1>2, <1>3, <1>4, <1>5, <1>6, <1>7, <1>8, <1>9 DEF Poll

LEMMA NextIInv == IInv /\ [Next]_vars => IInv'
<1> SUFFICES ASSUME IInv, [Next]_vars
             PROVE  IInv'
  OBVIOUS
<1>1. CASE Poll
  BY <1>1, PollKeepsIInv
<1>2. CASE User
  BY <1>2, UserKeepsIInv
<1>3. ASSUME NEW l \in Leasable, LeaseGranted(l) \/ LeaseEnds(l)
      PROVE  IInv'
  BY <1>3, ChangeKeepsIInv DEF LeaseGranted, LeaseEnds, IInv, RestOK
<1>4. CASE UNCHANGED vars
  BY <1>4 DEF vars, tables, IInv, NICsOK, Sound, RowsOK, RunOK, RestOK, Marked, At
<1>5. QED
  BY <1>1, <1>2, <1>3, <1>4 DEF Next, Kea

THEOREM Invariance == Spec => []IInv
BY InitIInv, NextIInv, PTL DEF Spec

\* The constraints of the schema hold for ever: every address is on a NIC that
\* exists, every NIC on a host, and no NIC has an address twice
\* (001_initial.sql:26-48).
THEOREM TypeCorrect == Spec => []TypeOK
<1>1. IInv => TypeOK
  BY DEF IInv, Sound, TypeOK
<1>2. QED
  BY <1>1, Invariance, PTL

-----------------------------------------------------------------------------
\* What the poll may do to a row.
LEMMA PollKeepsRows ==
    ASSUME IInv, Next, PollStep, NEW i \in DOMAIN ips \ run.reborn,
           ips[i].kind # "dynamic" \/ Pair(ips[i]) \in run.seen
    PROVE  i \in DOMAIN ips' /\ ips'[i] = ips[i]
<1>1. CASE Poll
  <2>1. ASSUME NEW l \in Leasable, UpsertDynamicLease(l)
        PROVE  i \in DOMAIN ips' /\ ips'[i] = ips[i]
    <3>1. NextId(ips) \notin DOMAIN ips
      BY NextIdIsFree DEF IInv, Sound, RowsOK
    <3>2. ips' = ips \/ ips' = Insert(ips, DynamicRow(l))
      BY <2>1 DEF UpsertDynamicLease, InsertOrIgnore
    <3>3. QED
      BY <3>1, <3>2 DEF Insert, With
  <2>2. ASSUME NEW id \in run.stale, DeleteStale(id)
        PROVE  i \in DOMAIN ips' /\ ips'[i] = ips[i]
    <3>1. i # id
      BY <2>2 DEF DeleteStale, IInv, Marked
    <3>2. QED
      BY <2>2, <3>1 DEF DeleteStale, Without, Restrict
  <2>3. CASE \/ ListLeases4 \/ ListFails \/ SelectStale \/ SelectCutShort
             \/ PruneFails \/ PollDone
    BY <2>3 DEF ListLeases4, ListFails, SelectStale, SelectCutShort, PruneFails,
       PollDone, tables
  <2>4. ASSUME NEW l \in Leasable, UpsertRejected(l) \/ UpsertFails(l)
        PROVE  i \in DOMAIN ips' /\ ips'[i] = ips[i]
    BY <2>4 DEF UpsertRejected, UpsertFails, tables
  <2>5. QED
    BY <1>1, <2>1, <2>2, <2>3, <2>4 DEF Poll
<1>2. ASSUME Changed
      PROVE  FALSE
  BY <1>2 DEF Changed, PollStep, IInv, RestOK
<1>3. CASE User
  BY <1>2, <1>3 DEF User, CreateHost, DeleteHost, CreateNIC, DeleteNIC,
     CreateIPAssignment, DeleteIPAssignment
<1>4. CASE Kea
  BY <1>2, <1>4 DEF Kea, LeaseGranted, LeaseEnds
<1>5. QED
  BY <1>1, <1>3, <1>4 DEF Next

\* Whatever devices, addresses and edits there are, a poll leaves the rows that
\* users entered as they are (dhcp_leases.go:49-56, 116-144), but for one
\* entered while the prune was under way.
THEOREM UsersKeepTheirRows == Spec => UserRowsKept
<1>1. IInv /\ [Next]_vars =>
        [PollStep => \A i \in DOMAIN ips \ run.reborn :
            ips[i].kind # "dynamic" => i \in DOMAIN ips' /\ ips'[i] = ips[i]]_vars
  BY PollKeepsRows
<1>2. QED
  BY <1>1, Invariance, PTL DEF Spec, UserRowsKept

\* Nor does it take away a row that is spelled as Kea spells a lease it has seen,
\* failed upserts included (leasepoll.go:98-116, dhcp_leases.go:133).
THEOREM LeasesKeepTheirRows == Spec => LeasedRowsKept
<1>1. IInv /\ [Next]_vars =>
        [PollStep => \A i \in DOMAIN ips \ run.reborn :
            Pair(ips[i]) \in run.seen => i \in DOMAIN ips']_vars
  BY PollKeepsRows
<1>2. QED
  BY <1>1, Invariance, PTL DEF Spec, LeasedRowsKept

-----------------------------------------------------------------------------
(***************************************************************************)
(* What a poll has got done while nothing has changed since it read the    *)
(* leases: the leases it has passed, if they are in normal form, have a    *)
(* row or are left out; from the select on, the dynamic rows that Kea does *)
(* not spell so are those it still has to delete, and it has none among    *)
(* them that Kea does.                                                     *)
(***************************************************************************)

Accounted(l) == Normal(l) => Stored(l) \/ LeftOut(l)

Reflected ==
    /\ Pairs(Dynamic) \subseteq Seen(leases)
    /\ \A l \in leases : Accounted(l)

Upserted ==
    /\ run.seen = Seen(leases) /\ run.todo \subseteq leases
    /\ \A l \in leases \ run.todo : Accounted(l)

Pruned ==
    /\ run.seen = Seen(leases)
    /\ \A l \in leases : Accounted(l)
    /\ \A i \in DOMAIN ips :
        /\ ips[i].kind = "dynamic" /\ Pair(ips[i]) \notin run.seen => i \in run.stale
        /\ i \in run.stale => Pair(ips[i]) \notin run.seen

Follows ==
    calm =>
        /\ At("upsert") => Upserted
        /\ At("prune") => Pruned
        /\ At("idle") /\ status = "ok" => Reflected

LEMMA Disturbed ==
    ASSUME ~calm'
    PROVE  Follows'
BY DEF Follows

\* A name that is taken stays taken while hosts are only added.
LEMMA TakenForGood ==
    ASSUME NEW l, NameFor(l) \in hosts, hosts \subseteq hosts'
    PROVE  NameFor(l)' \in hosts'
BY DEF NameFor, BaseName, Device

\* Storing a lease adds its row.
LEMMA UpsertAdds ==
    ASSUME IInv, NEW l \in Leasable, UpsertDynamicLease(l)
    PROVE  Pairs(IpRows)' = Pairs(IpRows) \union {StoredAs(l)}
<1> DEFINE row == DynamicRow(l)
<1>1. Pair(row) = StoredAs(l)
  BY NamesOfLeases DEF UpsertDynamicLease, Refused
<1>2. CASE Pair(row) \in Pairs(IpRows)
  <2>1. ips' = ips
    BY <1>2 DEF UpsertDynamicLease, InsertOrIgnore
  <2>2. QED
    BY <1>1, <1>2, <2>1 DEF Pairs, IpRows
<1>3. CASE Pair(row) \notin Pairs(IpRows)
  <2>1. ips' = Insert(ips, row)
    BY <1>3 DEF UpsertDynamicLease, InsertOrIgnore
  <2> HIDE DEF row
  <2>2. DOMAIN ips \subseteq Ids /\ Bounded(DOMAIN ips)
    BY DEF IInv, Sound, RowsOK
  <2>3. /\ DOMAIN Insert(ips, row) = DOMAIN ips \union {NextId(ips)}
        /\ Insert(ips, row)[NextId(ips)] = row
        /\ \A i \in DOMAIN ips : Insert(ips, row)[i] = ips[i]
    BY <2>2, InsertRow
  <2>4. IpRows' = IpRows \union {row}
    BY <2>1, <2>3 DEF IpRows
  <2>5. QED
    BY <1>1, <2>4 DEF Pairs
<1>4. QED
  BY <1>2, <1>3

\* Storing a lease accounts for it, and for no lease the worse: where it brings
\* the device of another one in, it does so by a name that one could not have.
LEMMA UpsertAccounts ==
    ASSUME IInv, NEW l \in leases, UpsertDynamicLease(l)
    PROVE  /\ Accounted(l)'
           /\ \A k \in leases : Accounted(k) => Accounted(k)'
<1>1. l \in Leasable
  BY DEF IInv, RestOK
<1>2. Pairs(IpRows)' = Pairs(IpRows) \union {StoredAs(l)}
  BY <1>1, UpsertAdds
<1>3. leases' = leases /\ hosts \subseteq hosts'
  BY DEF UpsertDynamicLease
<1>4. ASSUME NEW k \in leases, LeftOut(k)
      PROVE  LeftOut(k)'
  <2>1. NameFor(k)' \in hosts'
    BY <1>3, <1>4, TakenForGood DEF LeftOut
  <2>2. CASE Device(k) \in DOMAIN nics
    BY <1>3, <1>4, <2>1, <2>2 DEF LeftOut, Device, BaseName
  <2>3. CASE Device(k) \notin DOMAIN nics /\ Device(k) # Device(l)
    <3>1. Device(k) \notin DOMAIN nics'
      BY <2>3 DEF UpsertDynamicLease, With
    <3>2. QED
      BY <2>1, <3>1 DEF LeftOut, Device
  <2>4. CASE Device(k) \notin DOMAIN nics /\ Device(k) = Device(l)
    <3>1. NameFor(k) \in hosts /\ NameFor(l) \notin hosts
      BY <1>4, <2>4 DEF LeftOut, UpsertDynamicLease, Refused, NameTaken
    <3>2. BaseName(k) # BaseName(l)
      BY <2>4, <3>1 DEF NameFor
    <3>3. QED
      BY <1>3, <2>1, <2>4, <3>2 DEF LeftOut, Device, BaseName
  <2>5. QED
    BY <2>2, <2>3, <2>4
<1>5. ASSUME NEW k \in leases, Accounted(k)
      PROVE  Accounted(k)'
  <2>1. Normal(k)' = Normal(k) /\ StoredAs(k)' = StoredAs(k)
    BY DEF Normal, Texts, StoredAs, Device, Address
  <2>2. Stored(k) => Stored(k)'
    BY <1>2, <2>1 DEF Stored
  <2>3. QED
    BY <1>4, <1>5, <2>1, <2>2 DEF Accounted
<1>6. Accounted(l)'
  <2>1. StoredAs(l)' = StoredAs(l)
    BY DEF StoredAs, Device, Address
  <2>2. QED
    BY <1>2, <2>1 DEF Accounted, Stored
<1>7. QED
  BY <1>5, <1>6

\* While no table changes, what is accounted for stays so.
LEMMA SameTables ==
    ASSUME UNCHANGED <<leases, tables>>
    PROVE  /\ Reflected' = Reflected
           /\ Seen(leases)' = Seen(leases)
           /\ \A l : Accounted(l)' = Accounted(l)
<1>1. \A l : /\ Normal(l)' = Normal(l) /\ Stored(l)' = Stored(l)
            /\ LeftOut(l)' = LeftOut(l)
  BY DEF tables, Normal, Texts, Stored, StoredAs, Device, Address, Pairs, IpRows,
     LeftOut, NameFor, BaseName
<1>2. \A l : Accounted(l)' = Accounted(l)
  BY <1>1 DEF Accounted
<1>3. Seen(leases)' = Seen(leases) /\ Pairs(Dynamic)' = Pairs(Dynamic)
  BY DEF tables, Seen, Texts, Pairs, Pair, Dynamic, IpRows
<1>4. QED
  BY <1>2, <1>3 DEF Reflected

LEMMA PollFollows ==
    ASSUME IInv, Follows, Poll
    PROVE  Follows'
<1> USE DEF At
<1>1. CASE ListLeases4
  <2>1. UNCHANGED <<leases, tables>> /\ run'.phase = "upsert"
        /\ run'.seen = Seen(leases) /\ run'.todo = leases
    BY <1>1 DEF ListLeases4, Idle
  <2>2. Upserted'
    BY <2>1, SameTables DEF Upserted
  <2>3. QED
    BY <2>1, <2>2 DEF Follows
<1>2. CASE ListFails \/ PruneFails \/ SelectCutShort
  <2>1. ~calm'
    BY <1>2, Zenon DEF ListFails, PruneFails, SelectCutShort
  <2>2. QED
    BY <2>1, Disturbed
<1>3. ASSUME NEW l \in Leasable, UpsertFails(l)
      PROVE  Follows'
  <2>1. ~calm'
    BY <1>3, Zenon DEF UpsertFails
  <2>2. QED
    BY <2>1, Disturbed
<1>4. ASSUME NEW l \in Leasable, UpsertDynamicLease(l)
      PROVE  Follows'
  <2>1. /\ leases' = leases /\ calm' = calm /\ run.phase = "upsert" /\ l \in run.todo
        /\ run' = [run EXCEPT !.todo = @ \ {l}]
    BY <1>4, Zenon DEF UpsertDynamicLease
  <2>2. run'.phase = "upsert" /\ run'.seen = run.seen /\ run'.todo = run.todo \ {l}
    BY <2>1 DEF IInv, RunOK
  <2>3. ASSUME calm
        PROVE  Upserted'
    <3>1. Upserted
      BY <2>1, <2>3 DEF Follows
    <3>2. l \in leases
      BY <2>1, <3>1 DEF Upserted
    <3>3. Accounted(l)' /\ \A k \in leases : Accounted(k) => Accounted(k)'
      BY <1>4, <3>2, UpsertAccounts
    <3>4. Seen(leases)' = Seen(leases)
      BY <2>1 DEF Seen, Texts
    <3>5. QED
      BY <2>1, <2>2, <3>1, <3>3, <3>4 DEF Upserted
  <2>4. QED
    BY <2>1, <2>2, <2>3 DEF Follows
<1>5. ASSUME NEW l \in Leasable, UpsertRejected(l)
      PROVE  Follows'
  <2>1. /\ UNCHANGED <<leases, tables>> /\ calm' = calm
        /\ run.phase = "upsert" /\ l \in run.todo
        /\ run' = [run EXCEPT !.todo = @ \ {l}]
    BY <1>5, Zenon DEF UpsertRejected
  <2>2. run'.phase = "upsert" /\ run'.seen = run.seen /\ run'.todo = run.todo \ {l}
    BY <2>1 DEF IInv, RunOK
  <2>3. Accounted(l)
    BY <1>5, NormalForms DEF UpsertRejected, Refused, NameTaken, Accounted, LeftOut
  <2>4. ASSUME Upserted
        PROVE  Upserted'
    BY <2>1, <2>2, <2>3, <2>4, SameTables DEF Upserted
  <2>5. QED
    BY <2>1, <2>2, <2>4 DEF Follows
<1>6. CASE SelectStale
  <2>1. UNCHANGED <<leases, tables>> /\ calm' = calm /\ run.phase = "upsert"
        /\ run.todo = {}
    BY <1>6, Zenon DEF SelectStale
  <2>2. run'.phase = "prune" /\ run'.seen = run.seen /\ run'.stale = StaleIds
    BY <1>6 DEF SelectStale, IInv, RunOK
  <2>3. ASSUME Upserted
        PROVE  Pruned'
    <3>1. /\ run'.seen = Seen(leases)'
          /\ \A l \in leases' : Accounted(l)'
      BY <2>1, <2>2, <2>3, SameTables DEF Upserted
    <3>2. ips' = ips
      BY <2>1 DEF tables
    <3>3. QED
      BY <2>2, <3>1, <3>2 DEF Pruned, StaleIds
  <2>4. QED
    BY <2>1, <2>2, <2>3 DEF Follows
<1>7. ASSUME NEW id \in run.stale, DeleteStale(id)
      PROVE  Follows'
  <2>1. /\ UNCHANGED <<leases, hosts, nics>> /\ calm' = calm /\ run.phase = "prune"
        /\ ips' = Without(ips, {id}) /\ run' = [run EXCEPT !.stale = @ \ {id}]
    BY <1>7, Zenon DEF DeleteStale
  <2>2. run'.phase = "prune" /\ run'.seen = run.seen /\ run'.stale = run.stale \ {id}
    BY <2>1 DEF IInv, RunOK
  <2>3. DOMAIN ips' = DOMAIN ips \ {id} /\ \A i \in DOMAIN ips' : ips'[i] = ips[i]
    BY <2>1 DEF Without, Restrict
  <2>4. Seen(leases)' = Seen(leases)
    BY <2>1 DEF Seen, Texts
  <2>5. ASSUME Pruned
        PROVE  Pruned'
    <3>1. ASSUME NEW l \in leases, Normal(l), Stored(l)
          PROVE  Stored(l)'
      <4>1. PICK i \in DOMAIN ips : Pair(ips[i]) = StoredAs(l)
        BY <3>1 DEF Stored, Pairs, IpRows
      <4>2. StoredAs(l) \in run.seen
        BY <2>5, <3>1, NormalForms DEF Pruned, Seen
      <4>3. i # id
        BY <2>5, <4>1, <4>2 DEF Pruned
      <4>4. i \in DOMAIN ips' /\ Pair(ips'[i]) = StoredAs(l)
        BY <2>3, <4>1, <4>3
      <4>5. StoredAs(l)' = StoredAs(l)
        BY DEF StoredAs, Device, Address
      <4>6. QED
        BY <4>4, <4>5 DEF Stored, Pairs, IpRows
    <3>2. ASSUME NEW l \in leases
          PROVE  Accounted(l)'
      <4>1. Normal(l)' = Normal(l)
        BY DEF Normal, Texts
      <4>2. LeftOut(l)' = LeftOut(l)
        BY <2>1 DEF LeftOut, NameFor, BaseName, Device
      <4>3. QED
        BY <2>5, <3>1, <4>1, <4>2 DEF Pruned, Accounted
    <3>3. QED
      BY <2>1, <2>2, <2>3, <2>4, <2>5, <3>2 DEF Pruned
  <2>6. QED
    BY <2>1, <2>2, <2>5 DEF Follows
<1>8. CASE PollDone
  <2>1. UNCHANGED <<leases, tables>> /\ calm' = calm /\ run.phase = "prune"
        /\ run.stale = {} /\ run'.phase = "idle"
    BY <1>8, Zenon DEF PollDone, Idle
  <2>2. ASSUME Pruned
        PROVE  Reflected'
    <3>1. \A i \in DOMAIN ips : ips[i].kind = "dynamic" => Pair(ips[i]) \in Seen(leases)
      BY <2>1, <2>2 DEF Pruned
    <3>2. Pairs(Dynamic) \subseteq Seen(leases)
      BY <3>1 DEF Pairs, Dynamic, IpRows
    <3>3. Reflected
      BY <2>2, <3>2 DEF Reflected, Pruned
    <3>4. QED
      BY <2>1, <3>3, SameTables
  <2>3. QED
    BY <2>1, <2>2 DEF Follows
<1>9. QED
  BY <1>1, <1>2, <1>3, <1>4, <1>5, <1>6, <1>7, <1>8 DEF Poll

LEMMA NextFollows == IInv /\ Follows /\ [Next]_vars => Follows'
<1> SUFFICES ASSUME IInv, Follows, [Next]_vars
             PROVE  Follows'
  OBVIOUS
<1>1. CASE Poll
  BY <1>1, PollFollows
<1>2. ASSUME Changed
      PROVE  Follows'
  <2>1. ~calm'
    BY <1>2, Zenon DEF Changed
  <2>2. QED
    BY <2>1, Disturbed
<1>3. CASE User
  BY <1>2, <1>3 DEF User, CreateHost, DeleteHost, CreateNIC, DeleteNIC,
     CreateIPAssignment, DeleteIPAssignment
<1>4. CASE Kea
  BY <1>2, <1>4 DEF Kea, LeaseGranted, LeaseEnds
<1>5. CASE UNCHANGED vars
  <2>1. UNCHANGED <<leases, tables, run, status>> /\ calm' = calm
    BY <1>5, Zenon DEF vars
  <2>2. UNCHANGED ips
    BY <2>1 DEF tables
  <2>3. QED
    BY <2>1, <2>2, SameTables DEF Follows, At, Upserted, Pruned
<1>6. QED
  BY <1>1, <1>3, <1>4, <1>5 DEF Next

\* A poll that reports success has left no dynamic row that Kea does not spell just
\* so, and a row for every lease in normal form unless no name was left for its
\* device (leasepoll.go:79-121), as long as nothing has changed since it read the
\* leases and no step of it failed or was cut short.
THEOREM PollsReflect == Spec => []PollReflects
<1>1. Init => Follows
  <2>1. Init => ~calm
    BY Zenon DEF Init
  <2>2. QED
    BY <2>1 DEF Follows
<1>2. IInv /\ Follows /\ [Next]_vars => Follows'
  BY NextFollows
<1>3. Follows => PollReflects
  BY DEF Follows, PollReflects, Reflected, Accounted
<1>4. QED
  BY <1>1, <1>2, <1>3, Invariance, PTL DEF Spec

=============================================================================
