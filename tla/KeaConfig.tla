------------------------------- MODULE KeaConfig -------------------------------
(***************************************************************************)
(* What BuildConfig makes of the subnets and the reservations it has read, *)
(* and which configurations Kea takes.                                     *)
(*                                                                         *)
(* A CIDR is a number in the order of the texts, which is the order the    *)
(* subnets are listed in.  An address is a tuple of octets.  What a user   *)
(* enters for a bound of the pool is a tuple too: an address, its last few *)
(* octets, or nothing; a number that is no octet stands for what does not  *)
(* parse.                                                                  *)
(***************************************************************************)
EXTENDS Integers, Sequences, Functions

CONSTANTS
    CIDRs,
    Octets,      \* octets of an address: 4 in the code
    Family,      \* CIDR -> "v4", "v6" or "garbage"
    Network,     \* CIDR -> its address, of a v4 one
    HostBits     \* CIDR -> how many bits of an address it leaves free

V4(c) == Family[c] = "v4"
IsAddress(t) == Len(t) = Octets /\ \A i \in 1..Octets : t[i] \in 0..255

ASSUME NumberedByText == CIDRs \subseteq Nat
ASSUME NetworksAreAddresses ==
    /\ Octets \in Nat
    /\ \A c \in CIDRs : V4(c) =>
        Network[c] \in Seq(Nat) /\ IsAddress(Network[c]) /\ HostBits[c] \in 0..(8 * Octets)

\* How many bits of octet i the subnet leaves free, and how many values it has then.
FreeBits(c, i) ==
    LET after == 8 * (Octets - i) IN
    IF HostBits[c] <= after THEN 0
    ELSE IF HostBits[c] >= after + 8 THEN 8 ELSE HostBits[c] - after
PowersOfTwo == <<1, 2, 4, 8, 16, 32, 64, 128, 256>>
Block(c, i) == PowersOfTwo[1 + FreeBits(c, i)]

\* The bits that the subnet fixes are those of its address.
Covers(c, a) ==
    V4(c) /\ \A i \in 1..Octets : a[i] \div Block(c, i) = Network[c][i] \div Block(c, i)

-----------------------------------------------------------------------------
\* expandPartialIP, as the set of its result if it has one.

\* Mutant: the leading octets are counted from the other end.
FilledFromEnd(c, t) == SubSeq(Network[c], Len(t) + 1, Octets) \o t

Filled(c, t) == SubSeq(Network[c], 1, Octets - Len(t)) \o t

Expand(c, t) ==
    IF IsAddress(t) THEN {t}
    ELSE IF V4(c) /\ Len(t) < Octets THEN {a \in {Filled(c, t)} : IsAddress(a)}
    ELSE {}

\* Both bounds, or no pool at all.
Pools(c, pool) ==
    IF <<>> \in {pool.start, pool.end} THEN {}
    ELSE Expand(c, pool.start) \X Expand(c, pool.end)

\* Mutant: the search goes on after a subnet that contains the address.
EveryPlaceOf(subnets, a) == {c \in subnets : Covers(c, a)}

\* The subnet a reservation goes to, if any contains its address.
PlaceOf(subnets, a) == {c \in subnets : Covers(c, a) /\ \A b \in subnets :
                            b < c => ~Covers(b, a)}

\* From subnets, CIDR -> what was entered for its pool, and reservations.
Build(subnets, reserved) ==
    LET parsed == {c \in DOMAIN subnets : Family[c] # "garbage"} IN
    [c \in parsed |->
        [pools |-> Pools(c, subnets[c]),
         reservations |-> {r \in reserved : c \in PlaceOf(parsed, r.addr)}]]

-----------------------------------------------------------------------------
\* Kea: a pool lies in its subnet and is not reversed; an address and a device
\* are reserved once in a subnet; everything in subnet4 is IPv4.

AtMost(a, b) ==
    \A i \in 1..Octets : a[i] > b[i] => \E j \in 1..(i - 1) : a[j] < b[j]

AcceptsSubnet(c, s) ==
    /\ V4(c)
    /\ \A p \in s.pools : /\ Covers(c, p[1]) /\ Covers(c, p[2])
                          /\ AtMost(p[1], p[2])
    /\ \A r, q \in s.reservations : r.mac = q.mac \/ r.addr = q.addr => r = q

Accepts(config) == \A c \in DOMAIN config : AcceptsSubnet(c, config[c])

=============================================================================
