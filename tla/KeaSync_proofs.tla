---------------------------- MODULE KeaSync_proofs ----------------------------
(***************************************************************************)
(* That a success of the syncer is true, and that short bounds of pools    *)
(* fit in their subnets, for any CIDRs, reservations and number of edits   *)
(* and restarts.                                                           *)
(*                                                                         *)
(* The argument for the first: call the run current while nobody owes a trigger, none is *)
(* pending and nothing has changed unseen.  An edit ends that, and only a  *)
(* run that reads the subnets afterwards brings it back.  So what a        *)
(* current run has in hand was read from the tables as they are now.       *)
(***************************************************************************)
EXTENDS KeaSync, SequenceTheorems, WellFoundedInduction, TLAPS

Current == trigger = 0 /\ owing = 0 /\ ~unseen

InHand ==
    Current =>
        /\ phase = "reservations" => read = subnets
        /\ phase = "push" => config = Build(subnets, reserved)
        /\ phase = "select" /\ status = "ok" => kea = Build(subnets, reserved)

IInv == TypeOK /\ owing <= edits /\ InHand

-----------------------------------------------------------------------------
\* What BuildConfig makes of the tables.

\* A reservation goes to one of the subnets that contain its address, if any does.
LEMMA OnePlace ==
    ASSUME NEW S \in SUBSET CIDRs, NEW a
    PROVE  /\ PlaceOf(S, a) \subseteq {c \in S : Covers(c, a)}
           /\ \A c, d \in PlaceOf(S, a) : c = d
           /\ (\E c \in S : Covers(c, a)) => PlaceOf(S, a) # {}
<1> DEFINE T == {c \in S : Covers(c, a)}
<1>1. PlaceOf(S, a) = {c \in T : \A b \in S : b < c => ~Covers(b, a)}
  BY DEF PlaceOf
<1>2. T \subseteq Nat
  BY NumberedByText
<1>3. ASSUME NEW c \in PlaceOf(S, a), NEW d \in PlaceOf(S, a) PROVE c = d
  <2>1. c \in T /\ d \in T /\ ~(c < d) /\ ~(d < c)
    BY <1>1, <1>3
  <2>2. c \in Nat /\ d \in Nat
    BY <1>2, <2>1
  <2> QED
    BY <2>1, <2>2
<1>4. ASSUME NEW c \in T PROVE PlaceOf(S, a) # {}
  <2>1. PICK m \in T : \A b \in T : <<b, m>> \notin OpToRel(<, Nat)
    BY <1>2, <1>4, NatLessThanWellFounded, WFMin
  <2>2. \A b \in T : ~(b < m)
    BY <1>2, <2>1 DEF OpToRel
  <2>3. \A b \in S : b < m => ~Covers(b, a)
    BY <2>2
  <2> QED
    BY <1>1, <2>1, <2>3
<1> QED
  BY <1>1, <1>3, <1>4

\* A configuration built from the tables as they are reflects them.
LEMMA BuildReflects ==
    ASSUME DOMAIN subnets \subseteq CIDRs
    PROVE  Reflects(Build(subnets, reserved))
<1> DEFINE S == {c \in DOMAIN subnets : Family[c] # "garbage"}
           f == Build(subnets, reserved)
<1>1. DOMAIN f = S
  BY DEF Build
<1>2. \A c \in S :
        /\ f[c].pools = Pools(c, subnets[c])
        /\ f[c].reservations = {r \in reserved : c \in PlaceOf(S, r.addr)}
  BY DEF Build
<1> HIDE DEF f
<1>3. S \in SUBSET CIDRs
  OBVIOUS
<1> HIDE DEF S
<1>4. \A r \in reserved : /\ PlaceOf(S, r.addr) \subseteq {c \in S : Covers(c, r.addr)}
                          /\ \A c, d \in PlaceOf(S, r.addr) : c = d
                          /\ (\E c \in S : Covers(c, r.addr)) => PlaceOf(S, r.addr) # {}
  BY <1>3, OnePlace
<1>5. Reservations(f) = {r \in reserved : \E c \in S : Covers(c, r.addr)}
  <2>1. Reservations(f) = {r \in reserved : \E c \in S : c \in PlaceOf(S, r.addr)}
    BY <1>1, <1>2 DEF Reservations
  <2> QED
    BY <1>4, <2>1
<1>6. \A c, d \in S : \A r \in f[c].reservations :
        Covers(c, r.addr) /\ (r \in f[d].reservations => c = d)
  BY <1>2, <1>4
<1> QED
  BY <1>1, <1>2, <1>5, <1>6 DEF Reflects, S, f

-----------------------------------------------------------------------------
\* Bounds of pools.

\* A piece of a sequence of numbers.
LEMMA Piece ==
    ASSUME NEW s, NEW first \in Int, NEW last \in Int, NEW n \in Nat,
           first <= last, n = last - first + 1,
           \A i \in first..last : s[i] \in Nat
    PROVE  /\ SubSeq(s, first, last) \in Seq(Nat)
           /\ Len(SubSeq(s, first, last)) = n
           /\ \A i \in 1..n : SubSeq(s, first, last)[i] = s[first + i - 1]
BY SubSeqProperties

\* What a sequence of numbers ends in.
LEMMA EndOfSequence ==
    ASSUME NEW s \in Seq(Nat), NEW t \in Seq(Nat), NEW n \in Nat,
           Len(t) >= 1, Len(s) = n + Len(t), \A i \in 1..Len(t) : s[n + i] = t[i]
    PROVE  SubSeq(s, Len(s) - Len(t) + 1, Len(s)) = t
<1> DEFINE tail == SubSeq(s, Len(s) - Len(t) + 1, Len(s))
<1>1. PICK first \in Int : first = Len(s) - Len(t) + 1
  OBVIOUS
<1>2. PICK last \in Nat : last = Len(s)
  OBVIOUS
<1>3. PICK k \in Nat : k = Len(t)
  OBVIOUS
<1>4. first = n + 1 /\ first <= last /\ k = last - first + 1
  BY <1>1, <1>2, <1>3
<1>5. ASSUME NEW i \in first..last PROVE s[i] \in Nat
  <2>1. i \in 1..Len(s)
    BY <1>2, <1>4
  <2> QED
    BY <2>1, ElementOfSeq
<1>6. tail = SubSeq(s, first, last)
  BY <1>1, <1>2
<1> HIDE DEF tail
<1>7. /\ tail \in Seq(Nat) /\ Len(tail) = k
      /\ \A i \in 1..k : tail[i] = s[first + i - 1]
  BY <1>4, <1>5, <1>6, Piece
<1>8. ASSUME NEW i \in 1..Len(t) PROVE tail[i] = t[i]
  <2>1. first + i - 1 = n + i
    BY <1>4
  <2> QED
    BY <1>3, <1>7, <2>1
<1>9. tail = t
  BY <1>3, <1>7, <1>8, SeqEqual
<1> QED
  BY <1>9 DEF tail

\* What a short bound becomes: leading octets of the network, then its own.
LEMMA FilledOctets ==
    ASSUME NEW c \in CIDRs, V4(c), NEW t \in Seq(Nat), Len(t) \in 1..(Octets - 1)
    PROVE  LET a == Filled(c, t)
               n == Octets - Len(t)
           IN  /\ a \in Seq(Nat) /\ Len(a) = Octets
               /\ \A i \in 1..n : a[i] = Network[c][i]
               /\ \A i \in 1..Len(t) : a[n + i] = t[i]
<1> DEFINE n == Octets - Len(t)
           head == SubSeq(Network[c], 1, n)
           a == head \o t
<1>1. /\ Network[c] \in Seq(Nat) /\ Len(Network[c]) = Octets
      /\ Octets \in Nat /\ Len(t) \in Nat /\ n \in 1..Octets
  BY NetworksAreAddresses DEF IsAddress
<1> HIDE DEF n
<1>2. ASSUME NEW i \in 1..n PROVE Network[c][i] \in Nat
  <2>1. i \in 1..Len(Network[c])
    BY <1>1
  <2> QED
    BY <1>1, <2>1, ElementOfSeq
<1>3. /\ head \in Seq(Nat) /\ Len(head) = n
      /\ \A i \in 1..n : head[i] = Network[c][i]
  <2>1. 1 \in Int /\ n \in Int /\ n \in Nat /\ 1 <= n /\ n = n - 1 + 1
    BY <1>1
  <2>2. /\ head \in Seq(Nat) /\ Len(head) = n
        /\ \A i \in 1..n : head[i] = Network[c][1 + i - 1]
    BY <1>2, <2>1, Piece
  <2>3. \A i \in 1..n : 1 + i - 1 = i
    OBVIOUS
  <2> QED
    BY <2>2, <2>3
<1> HIDE DEF head
<1>4. /\ a \in Seq(Nat) /\ Len(a) = n + Len(t)
      /\ \A i \in 1..(n + Len(t)) : a[i] = IF i <= n THEN head[i] ELSE t[i - n]
  BY <1>3, ConcatProperties
<1>5. n + Len(t) = Octets
  BY <1>1 DEF n
<1> HIDE DEF a
<1>6. ASSUME NEW i \in 1..n PROVE a[i] = Network[c][i]
  <2>1. i \in 1..(n + Len(t)) /\ i <= n
    BY <1>1
  <2> QED
    BY <1>3, <1>4, <2>1
<1>7. ASSUME NEW i \in 1..Len(t) PROVE a[n + i] = t[i]
  <2>1. n + i \in 1..(n + Len(t)) /\ ~(n + i <= n) /\ (n + i) - n = i
    BY <1>1
  <2> QED
    BY <1>4, <2>1
<1> QED
  BY <1>4, <1>5, <1>6, <1>7 DEF a, head, n, Filled

\* An octet that the subnet leaves free may have any value.
LEMMA FreeOctets ==
    ASSUME NEW c \in CIDRs, V4(c), NEW i \in 1..Octets, HostBits[c] >= 8 * (Octets - i) + 8
    PROVE  Block(c, i) = 256
<1>1. Octets \in Nat /\ HostBits[c] \in Nat
  BY NetworksAreAddresses
<1>2. FreeBits(c, i) = 8
  BY <1>1 DEF FreeBits
<1> QED
  BY <1>2 DEF Block, PowersOfTwo

LEMMA Octet ==
    /\ \A x \in Nat : x <= 255 => x \in 0..255
    /\ \A x \in 0..255 : x \div 256 = 0
OBVIOUS

\* A short bound fits in a subnet that leaves its octets free.
LEMMA FilledFits ==
    ASSUME NEW c \in CIDRs, V4(c), NEW t \in Seq(Nat), Len(t) \in 1..(Octets - 1),
           8 * Len(t) <= HostBits[c], \A i \in 1..Len(t) : t[i] <= 255
    PROVE  LET a == Filled(c, t) IN IsAddress(a) /\ Covers(c, a) /\ Ends(a, t)
<1> DEFINE a == Filled(c, t)
           n == Octets - Len(t)
<1>1. /\ Octets \in Nat /\ Len(t) \in Nat /\ n \in 1..Octets /\ n + Len(t) = Octets
      /\ IsAddress(Network[c]) /\ HostBits[c] \in Nat
  BY NetworksAreAddresses
<1>2. /\ a \in Seq(Nat) /\ Len(a) = Octets
      /\ \A i \in 1..n : a[i] = Network[c][i]
      /\ \A i \in 1..Len(t) : a[n + i] = t[i]
  BY FilledOctets
<1>3. ASSUME NEW i \in 1..Len(t) PROVE t[i] \in 0..255
  <2>1. t[i] \in Nat /\ t[i] <= 255
    BY ElementOfSeq
  <2> QED
    BY <2>1, Octet
<1> HIDE DEF a, n
<1>4. ASSUME NEW i \in 1..Octets, i > n PROVE a[i] = t[i - n] /\ a[i] \in 0..255
  <2>1. i - n \in 1..Len(t) /\ n + (i - n) = i
    BY <1>1, <1>4
  <2> QED
    BY <1>2, <1>3, <2>1
<1>5. IsAddress(a)
  <2>1. ASSUME NEW i \in 1..Octets PROVE a[i] \in 0..255
    <3>1. CASE i <= n
      <4>1. i \in 1..n
        BY <1>1, <3>1
      <4> QED
        BY <1>1, <1>2, <4>1 DEF IsAddress
    <3>2. CASE i > n
      BY <1>4, <3>2
    <3> QED
      BY <1>1, <3>1, <3>2
  <2> QED
    BY <1>2, <2>1 DEF IsAddress
<1>6. Covers(c, a)
  <2> SUFFICES ASSUME NEW i \in 1..Octets
               PROVE  a[i] \div Block(c, i) = Network[c][i] \div Block(c, i)
    BY DEF Covers
  <2>1. CASE i <= n
    <3>1. i \in 1..n
      BY <1>1, <2>1
    <3> QED
      BY <1>2, <3>1
  <2>2. CASE i > n
    <3>1. HostBits[c] >= 8 * (Octets - i) + 8
      BY <1>1, <2>2
    <3>2. Block(c, i) = 256
      BY <3>1, FreeOctets
    <3>3. a[i] \in 0..255 /\ Network[c][i] \in 0..255
      BY <1>1, <1>4, <2>2 DEF IsAddress
    <3>4. a[i] \div 256 = 0 /\ Network[c][i] \div 256 = 0
      BY <3>3, Octet
    <3> QED
      BY <3>2, <3>4
  <2> QED
    BY <1>1, <2>1, <2>2
<1>7. Ends(a, t)
  <2>1. n \in Nat /\ Len(t) >= 1 /\ Len(a) = n + Len(t)
    BY <1>1, <1>2
  <2>2. SubSeq(a, Len(a) - Len(t) + 1, Len(a)) = t
    BY <1>2, <2>1, EndOfSequence
  <2> QED
    BY <1>2, <2>2 DEF Ends
<1> QED
  BY <1>5, <1>6, <1>7 DEF a

-----------------------------------------------------------------------------

\* Configurations built from rows.
Typical(f) ==
    DOMAIN f \subseteq CIDRs /\ \A c \in DOMAIN f :
        f[c].pools \subseteq Pool /\ f[c].reservations \subseteq Reservable

LEMMA BuildsTypical ==
    ASSUME NEW f, Maps(f, Typed), NEW R \in SUBSET Reservable
    PROVE  Typical(Build(f, R))
<1>1. \A c \in DOMAIN f : f[c] \in Typed /\ c \in CIDRs
  BY DEF Maps, Range
<1>2. \A c \in DOMAIN f : Pools(c, f[c]) \subseteq Pool
  BY <1>1 DEF Pool
<1> QED
  BY <1>1, <1>2 DEF Build, Typical

LEMMA RowsStayRows ==
    ASSUME NEW f, Maps(f, Typed), NEW c \in CIDRs, NEW v \in Typed
    PROVE  Maps(With(f, c, v), Typed) /\ Maps(Without(f, c), Typed)
BY DEF Maps, Range, With, Without

LEMMA EmptyIsTypical == Maps(Empty, Typed) /\ Typical(Empty)
BY DEF Maps, Range, Typical, Empty

LEMMA Begins == Init => IInv
<1> SUFFICES ASSUME Init PROVE IInv
  OBVIOUS
<1>1. unseen \in BOOLEAN
  BY Zenon DEF Init
<1>2. TypeOK /\ owing <= edits
  BY <1>1, BoundsAreNaturals, SeedsAreRows, EmptyIsTypical DEF Init, TypeOK, Typical
<1> QED
  BY <1>2 DEF Init, IInv, InHand

LEMMA MutateKeeps ==
    ASSUME TypeOK, Mutate
    PROVE  /\ Maps(subnets', Typed) /\ reserved' \subseteq Reservable
           /\ edits' \in 0..MaxEdits /\ edits' = edits + 1
<1>1. edits' \in 0..MaxEdits /\ edits' = edits + 1
  BY BoundsAreNaturals DEF TypeOK, Mutate
<1>2. ASSUME NEW c \in CIDRs, NEW v \in Typed, CreateSubnet(c, v)
      PROVE  Maps(subnets', Typed) /\ reserved' \subseteq Reservable
  BY <1>2, RowsStayRows DEF CreateSubnet, TypeOK
<1>3. ASSUME NEW c \in CIDRs, NEW v \in Typed, NEW old \in CIDRs, UpdateSubnet(old, c, v)
      PROVE  Maps(subnets', Typed) /\ reserved' \subseteq Reservable
  <2>1. Maps(Without(subnets, old), Typed)
    BY RowsStayRows DEF TypeOK
  <2> QED
    BY <1>3, <2>1, RowsStayRows DEF UpdateSubnet, TypeOK
<1>4. ASSUME NEW c \in CIDRs, DeleteSubnet(c)
      PROVE  Maps(subnets', Typed) /\ reserved' \subseteq Reservable
  BY <1>4, RowsStayRows DEF DeleteSubnet, TypeOK, Without, Maps, Range
<1>5. ASSUME NEW r \in Reservable,
             CreateIPAssignment(r) \/ DeleteIPAssignment(r) \/ DeleteIPAssignments(r.mac)
      PROVE  Maps(subnets', Typed) /\ reserved' \subseteq Reservable
  BY <1>5 DEF CreateIPAssignment, DeleteIPAssignment, DeleteIPAssignments, TypeOK
<1> QED
  BY <1>1, <1>2, <1>3, <1>4, <1>5 DEF Mutate

-----------------------------------------------------------------------------

LEMMA EditsKeep == ASSUME IInv, Commit \/ CommitSilently PROVE IInv'
<1>1. UNCHANGED <<trigger, runVars, kea, restarts>> /\ TypeOK
  BY DEF Commit, CommitSilently, Mutate, IInv
<1>2. /\ Maps(subnets', Typed) /\ reserved' \subseteq Reservable
      /\ edits' \in 0..MaxEdits /\ edits' = edits + 1
  BY <1>1, MutateKeeps DEF Commit, CommitSilently
<1>3. CASE Commit
  <2>1. owing' = owing + 1 /\ UNCHANGED unseen
    BY <1>3 DEF Commit
  <2>2. owing' \in 0..MaxEdits /\ owing' <= edits' /\ owing' # 0
    <3>1. owing \in Nat /\ owing <= edits /\ edits \in Nat
      BY BoundsAreNaturals DEF IInv, TypeOK
    <3>2. edits' <= MaxEdits /\ edits' = edits + 1
      BY <1>2, BoundsAreNaturals
    <3> QED
      BY <2>1, <3>1, <3>2, BoundsAreNaturals
  <2>3. unseen' \in BOOLEAN
    BY <1>1, <2>1, Zenon DEF TypeOK
  <2>4. TypeOK'
    BY <1>1, <1>2, <2>2, <2>3 DEF TypeOK, runVars
  <2>5. InHand'
    BY <2>2, Zenon DEF InHand, Current
  <2> QED
    BY <2>2, <2>4, <2>5 DEF IInv
<1>4. CASE CommitSilently
  <2>1. unseen' = TRUE /\ UNCHANGED owing
    BY <1>4 DEF CommitSilently
  <2>2. unseen' \in BOOLEAN
    BY <2>1, Zenon
  <2>3. owing' \in 0..MaxEdits /\ owing' <= edits'
    BY <1>1, <1>2, <2>1 DEF IInv, TypeOK
  <2>4. TypeOK'
    BY <1>1, <1>2, <2>2, <2>3 DEF TypeOK, runVars
  <2>5. InHand'
    BY <2>1, Zenon DEF InHand, Current
  <2> QED
    BY <2>3, <2>4, <2>5 DEF IInv
<1> QED
  BY <1>3, <1>4

LEMMA TriggersKeep == ASSUME IInv, Trigger \/ SyncNow PROVE IInv'
<1>1. /\ trigger' = 1 /\ owing' \in 0..MaxEdits /\ owing' <= edits
      /\ UNCHANGED <<tables, runVars, kea, unseen, edits, restarts>>
  BY BoundsAreNaturals DEF Trigger, SyncNow, IInv, TypeOK
<1> QED
  BY <1>1 DEF IInv, TypeOK, InHand, Current, runVars, tables

\* The run after its next step: what it has in hand is typical and current.
LEMMA RunKeeps ==
    ASSUME IInv,
           WakeOnTick \/ WakeOnTrigger \/ ListSubnets \/ ListReservations
             \/ QueryFails \/ ConfigSet \/ CallFails
    PROVE  IInv'
<1> USE DEF IInv
<1>1. CASE WakeOnTick
  BY <1>1 DEF WakeOnTick, Others, tables, TypeOK, InHand
<1>2. CASE WakeOnTrigger
  BY <1>2 DEF WakeOnTrigger, Others, tables, TypeOK, InHand
<1>3. CASE ListSubnets
  <2>1. unseen' \in BOOLEAN
    BY <1>3, Zenon DEF ListSubnets
  <2> QED
    BY <1>3, <2>1 DEF ListSubnets, Others, tables, TypeOK, InHand
<1>4. CASE ListReservations
  <2>1. Typical(config') /\ Maps(read', Typed)
    BY <1>4, BuildsTypical, EmptyIsTypical DEF ListReservations, TypeOK
  <2>2. TypeOK'
    BY <1>4, <2>1 DEF ListReservations, Others, tables, TypeOK, Typical
  <2> QED
    BY <1>4, <2>2 DEF ListReservations, Others, tables, InHand, Current
<1>5. ASSUME RunEnds, Others, UNCHANGED <<trigger, unseen>>,
             status' \in {"ok", "failed"}, kea' \in {kea, config}
      PROVE  TypeOK'
  <2>1. Typical(config') /\ Maps(read', Typed) /\ Typical(kea')
    BY <1>5, EmptyIsTypical DEF RunEnds, TypeOK, Typical
  <2> QED
    BY <1>5, <2>1 DEF RunEnds, Others, tables, TypeOK, Typical
<1>6. CASE QueryFails
  BY <1>5, <1>6 DEF QueryFails, RunEnds, Others, InHand
<1>7. CASE ConfigSet
  <2>1. TypeOK'
    BY <1>5, <1>7 DEF ConfigSet
  <2>2. status' = "ok" => kea' = config
    BY <1>7 DEF ConfigSet
  <2> QED
    BY <1>7, <2>1, <2>2 DEF ConfigSet, RunEnds, Others, tables, InHand, Current
<1>8. CASE CallFails
  <2>1. kea' \in {kea, config}
    BY <1>8 DEF CallFails
  <2> QED
    BY <1>5, <1>8, <2>1 DEF CallFails, RunEnds, Others, InHand
<1> QED
  BY <1>1, <1>2, <1>3, <1>4, <1>6, <1>7, <1>8

LEMMA RestartsKeep == ASSUME IInv, KeaRestarts \/ Restart PROVE IInv'
<1>1. restarts' \in 0..MaxRestarts
  BY BoundsAreNaturals DEF KeaRestarts, Restart, IInv, TypeOK
<1>2. CASE KeaRestarts
  <2>1. unseen' = TRUE /\ unseen' \in BOOLEAN
    BY <1>2, Zenon DEF KeaRestarts
  <2> QED
    BY <1>1, <1>2, <2>1, EmptyIsTypical
       DEF KeaRestarts, IInv, TypeOK, InHand, Current, tables, runVars, Typical
<1>3. CASE Restart
  <2>1. owing' \in 0..MaxEdits /\ owing' <= edits'
    BY <1>3, BoundsAreNaturals DEF Restart, IInv, TypeOK
  <2> QED
    BY <1>1, <1>3, <2>1, EmptyIsTypical
       DEF Restart, IInv, TypeOK, InHand, tables, Typical
<1> QED
  BY <1>2, <1>3

LEMMA StepsKeep == ASSUME IInv, [Next]_vars PROVE IInv'
<1>1. CASE UNCHANGED vars
  BY <1>1 DEF vars, tables, runVars, IInv, TypeOK, InHand, Current
<1> QED
  BY <1>1, EditsKeep, TriggersKeep, RunKeeps, RestartsKeep DEF Next

LEMMA Invariance == Spec => []IInv
BY Begins, StepsKeep, PTL DEF Spec

\* Type correctness of tables, run and Kea, for any CIDRs, rows and number of
\* edits and restarts: the channel holds one token, and Kea's pools and
\* reservations are ones that users have entered.
THEOREM TypeCorrect == Spec => []TypeOK
BY Invariance, PTL DEF IInv

\* A success that nothing has overtaken is true: Kea has one pool and each
\* reservation once, in a subnet that contains it, as both tables have them now.
THEOREM SuccessIsTrue == Spec => []InStep
<1>1. IInv => InStep
  BY BuildReflects DEF IInv, TypeOK, Maps, InHand, Current, InStep
<1> QED
  BY <1>1, Invariance, PTL

\* A bound entered by its last octets becomes, in a subnet that leaves that many
\* octets free, an address of the subnet that ends in them: of any length, in any
\* subnet whose address is written with its host bits or without.
THEOREM ShortBoundsFit == Spec => []ShortFormsFit
<1>1. ASSUME TypeOK, NEW c \in DOMAIN subnets,
             NEW t \in {subnets[c].start, subnets[c].end},
             V4(c), Len(t) \in 1..(Octets - 1), 8 * Len(t) <= HostBits[c],
             \A i \in 1..Len(t) : t[i] <= 255
      PROVE  Expand(c, t) # {} /\ \A a \in Expand(c, t) : Covers(c, a) /\ Ends(a, t)
  <2>1. c \in CIDRs /\ t \in Seq(Nat)
    BY <1>1, NumbersAreTyped DEF TypeOK, Maps, Range
  <2>2. IsAddress(Filled(c, t)) /\ Covers(c, Filled(c, t)) /\ Ends(Filled(c, t), t)
    BY <1>1, <2>1, FilledFits
  <2>3. Expand(c, t) = {Filled(c, t)}
    <3>1. Len(t) < Octets /\ ~IsAddress(t)
      BY <1>1, NetworksAreAddresses DEF IsAddress
    <3> QED
      BY <1>1, <2>2, <3>1 DEF Expand
  <2> QED
    BY <2>2, <2>3
<1>2. TypeOK => ShortFormsFit
  BY <1>1 DEF ShortFormsFit
<1> QED
  BY <1>2, TypeCorrect, PTL

=============================================================================
