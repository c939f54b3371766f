---------------------------- MODULE RowIds_proofs ----------------------------
(***************************************************************************)
(* Facts about row ids, for tables of any size.                            *)
(***************************************************************************)
EXTENDS RowIds, WellFoundedInduction, TLAPS

LEMMA LeastNumber ==
    ASSUME NEW T, T \subseteq Nat, T # {}
    PROVE  \E m \in T : \A k \in T : m <= k
<1>1. PICK m \in T : \A k \in T : ~ (<<k, m>> \in OpToRel(<, Nat))
  BY NatLessThanWellFounded, WFMin, Zenon
<1>2. \A k \in T : ~ (k < m)
  BY <1>1 DEF OpToRel
<1>3. QED
  BY <1>2

LEMMA MaxExists ==
    ASSUME NEW S, S \subseteq Ids, S # {}, Bounded(S)
    PROVE  Max(S) \in S /\ \A i \in S : i <= Max(S)
<1> DEFINE T == {n \in Nat : \A i \in S : i <= n}
<1>1. PICK m \in T : \A k \in T : m <= k
  <2>1. T # {}
    BY DEF Bounded
  <2>2. QED
    BY <2>1, LeastNumber
<1>2. m \in S
  <2> SUFFICES ASSUME m \notin S
               PROVE  FALSE
    OBVIOUS
  <2>1. \A i \in S : i \in Nat /\ i > 0 /\ i <= m /\ i # m
    BY DEF Ids
  <2>2. m - 1 \in T
    BY <2>1
  <2>3. QED
    BY <1>1, <2>2
<1>3. \E x \in S : \A y \in S : x >= y
  BY <1>2 DEF Ids
<1>4. Max(S) \in S /\ \A y \in S : Max(S) >= y
  BY <1>3 DEF Max
<1>5. QED
  BY <1>4 DEF Ids

\* The id of a new row is a proper one and belongs to no row that is there
\* (001_initial.sql:39-48); the table stays bounded.
THEOREM NextIdIsFree ==
    ASSUME NEW table, DOMAIN table \subseteq Ids, Bounded(DOMAIN table)
    PROVE  /\ NextId(table) \in Ids
           /\ NextId(table) \notin DOMAIN table
           /\ Bounded(DOMAIN table \union {NextId(table)})
<1>1. CASE DOMAIN table = {}
  <2>1. NextId(table) = 1
    BY <1>1 DEF NextId
  <2>2. QED
    BY <1>1, <2>1 DEF Ids, Bounded
<1>2. CASE DOMAIN table # {}
  <2>1. /\ Max(DOMAIN table) \in DOMAIN table
        /\ \A i \in DOMAIN table : i <= Max(DOMAIN table)
    BY <1>2, MaxExists
  <2>2. NextId(table) = Max(DOMAIN table) + 1
    BY <1>2 DEF NextId
  <2>3. /\ NextId(table) \in Ids
        /\ \A i \in DOMAIN table : i < NextId(table)
    BY <2>1, <2>2 DEF Ids
  <2>4. QED
    BY <2>3 DEF Ids, Bounded
<1>3. QED
  BY <1>1, <1>2

LEMMA InsertRow ==
    ASSUME NEW table, NEW row,
           DOMAIN table \subseteq Ids, Bounded(DOMAIN table)
    PROVE  /\ DOMAIN Insert(table, row) = DOMAIN table \union {NextId(table)}
           /\ Insert(table, row)[NextId(table)] = row
           /\ \A i \in DOMAIN table : Insert(table, row)[i] = table[i]
           /\ DOMAIN Insert(table, row) \subseteq Ids
           /\ Bounded(DOMAIN Insert(table, row))
BY NextIdIsFree DEF Insert, With

LEMMA WithoutRows ==
    ASSUME NEW table, NEW I
    PROVE  /\ DOMAIN Without(table, I) = DOMAIN table \ I
           /\ \A i \in DOMAIN table \ I : Without(table, I)[i] = table[i]
           /\ Bounded(DOMAIN table) => Bounded(DOMAIN Without(table, I))
BY DEF Without, Restrict, Bounded

=============================================================================
