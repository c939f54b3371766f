--------------------------- MODULE Cloudflare_proofs ---------------------------
(***************************************************************************)
(* What a run may never take away from a zone at Cloudflare, and what its  *)
(* success says, for any records, any page size and any number of edits.   *)
(*                                                                         *)
(* Taking away: ids are never given twice, so a record that a run has      *)
(* listed and means to delete either still is what it was when it was      *)
(* listed, or has been changed in place since, or is gone; and what it was *)
(* when it was listed is not wanted.                                       *)
(*                                                                         *)
(* Success: as long as only the run has touched the zone, what it has      *)
(* listed is what there is on the pages it has read, no key is on two      *)
(* pages, and after the last page (PageSize divides as integers do) that   *)
(* is all there is; from then on what it has still to add and to delete is *)
(* just what the zone lacks and has too much.                              *)
(***************************************************************************)
EXTENDS Cloudflare, SequenceTheorems, TLAPS

Rec == [id : Nat, key : AnyKey]

\* Ids up to n, and no id or key twice.
Listing(s, n) ==
    /\ s \in Seq(Rec)
    /\ \A i \in 1..Len(s) : s[i].id \in 1..n
    /\ \A i, j \in 1..Len(s) : s[i].id = s[j].id \/ s[i].key = s[j].key => i = j

RunType ==
    [phase : {"idle", "ensure", "list", "apply"}, want : SUBSET Keys, page : Nat,
     listed : SUBSET Rec, adds : SUBSET Keys, drops : SUBSET Rec,
     edited : SUBSET Nat, failed : BOOLEAN]

Shapes ==
    /\ want \subseteq Keys /\ served \subseteq Keys
    /\ lastId \in Nat /\ zone \in 0..lastId /\ cache \in 0..lastId
    /\ run \in RunType
    /\ run.adds \subseteq run.want
    /\ status \in {"never", "ok", "failed"}
    /\ calm \in BOOLEAN
    /\ edits \in 0..MaxEdits

\* A record listed with an id that is still there is the record that is there.
Seen(d) ==
    /\ d.id <= lastId
    /\ d.key \in Keys
    /\ \A r \in Records : r.id = d.id => r = d \/ r.id \in run.edited

RunOK ==
    /\ run.phase = "idle" => run.listed = {} /\ run.drops = {}
    /\ \A d \in run.listed \union run.drops : Seen(d)
    /\ \A d \in run.drops : d.key \notin run.want

IInv == Shapes /\ Listing(server, lastId) /\ RunOK

-----------------------------------------------------------------------------
\* The records of a zone as a sequence.

LEMMA RecordsOf ==
    ASSUME NEW n, Listing(server, n)
    PROVE  /\ DOMAIN server = 1..Len(server) /\ Len(server) \in Nat
           /\ Records = {server[i] : i \in 1..Len(server)}
           /\ Records \subseteq Rec
BY DEF Listing, Records

LEMMA Appended ==
    ASSUME NEW k \in AnyKey, lastId \in Nat, Listing(server, lastId),
           k \notin KeysOf(Records), server' = Append1(k), lastId' = lastId + 1
    PROVE  /\ Listing(server, lastId)'
           /\ Records' = Records \union {[id |-> lastId + 1, key |-> k]}
<1> DEFINE e == [id |-> lastId + 1, key |-> k]
<1>1. e \in Rec /\ server' = Append(server, e)
  BY DEF Rec, Append1
<1>2. /\ server' \in Seq(Rec) /\ Len(server') = Len(server) + 1 /\ Len(server) \in Nat
      /\ \A i \in 1..Len(server) : server'[i] = server[i]
      /\ server'[Len(server) + 1] = e
  BY <1>1, AppendProperties DEF Listing
<1>3. \A i \in 1..Len(server) : server[i].key # k /\ server[i].id \in 1..lastId
  BY RecordsOf DEF Listing, KeysOf
<1>4. ASSUME NEW i \in 1..Len(server') PROVE i \in 1..Len(server) \/ i = Len(server) + 1
  BY <1>2
<1>5. Listing(server, lastId)'
  <2>1. \A i \in 1..Len(server') : server'[i].id \in 1..lastId'
    BY <1>2, <1>3, <1>4
  <2>2. ASSUME NEW i \in 1..Len(server'), NEW j \in 1..Len(server'),
               server'[i].id = server'[j].id \/ server'[i].key = server'[j].key
        PROVE  i = j
    BY <1>2, <1>3, <1>4, <2>2 DEF Listing
  <2> QED
    BY <1>2, <2>1, <2>2 DEF Listing
<1>6. Records' = Records \union {e}
  <2>1. DOMAIN server' = 1..(Len(server) + 1) /\ DOMAIN server = 1..Len(server)
    BY <1>2, RecordsOf
  <2>2. ASSUME NEW r \in Records' PROVE r \in Records \union {e}
    <3>1. PICK i \in DOMAIN server' : r = server'[i]
      BY DEF Records
    <3> HIDE DEF e
    <3> QED
      BY <1>2, <2>1, <3>1 DEF Records
  <2>3. ASSUME NEW r \in Records \union {e} PROVE r \in Records'
    <3>1. CASE r = e
      <4>1. Len(server) + 1 \in DOMAIN server' /\ server'[Len(server) + 1] = r
        BY <1>2, <2>1, <3>1
      <4> QED
        BY <4>1 DEF Records
    <3>2. CASE r \in Records
      <4>1. PICK i \in 1..Len(server) : r = server[i]
        BY <2>1, <3>2 DEF Records
      <4>2. i \in DOMAIN server' /\ server'[i] = r
        BY <1>2, <2>1, <4>1
      <4> QED
        BY <4>2 DEF Records
    <3> QED
      BY <3>1, <3>2
  <2> QED
    BY <2>2, <2>3
<1> QED
  BY <1>5, <1>6

LEMMA Removed ==
    ASSUME NEW id, lastId \in Nat, Listing(server, lastId), RemovesId(id)
    PROVE  /\ Listing(server', lastId)
           /\ Records' \subseteq Records
           /\ \A r \in Records : r.id # id => r \in Records'
<1>1. CASE UNCHANGED server
  BY <1>1 DEF Records
<1>2. ASSUME NEW n \in 1..Len(server), server[n].id = id, server' = RemoveAt(n)
      PROVE  /\ Listing(server', lastId)
             /\ Records' \subseteq Records
             /\ \A r \in Records : r.id # id => r \in Records'
  <2> DEFINE old(i) == IF i < n THEN i ELSE i + 1
  <2>1. Len(server) \in Nat \ {0} /\ server \in Seq(Rec)
    BY <1>2 DEF Listing
  <2>2. \A i \in 1..(Len(server) - 1) :
            old(i) \in 1..Len(server) /\ server[old(i)] \in Rec
    BY <2>1
  <2>3. server' = [i \in 1..(Len(server) - 1) |-> server[old(i)]]
    BY <1>2 DEF RemoveAt
  <2>4. server' \in [1..(Len(server) - 1) -> Rec] /\ Len(server) - 1 \in Nat
    BY <2>1, <2>2, <2>3
  <2>5. server' \in Seq(Rec) /\ Len(server') = Len(server) - 1
    BY <2>4, SeqDef
  <2>6. \A i \in 1..Len(server') : server'[i] = server[old(i)]
    BY <2>3, <2>5
  <2>7. ASSUME NEW i \in 1..Len(server'), NEW j \in 1..Len(server'), old(i) = old(j)
        PROVE  i = j
    BY <2>7, <2>1, <2>5
  <2>8. Listing(server', lastId)
    <3>1. \A i \in 1..Len(server') : old(i) \in 1..Len(server)
      BY <2>2, <2>5
    <3> HIDE DEF old
    <3>2. \A i \in 1..Len(server') : server'[i].id \in 1..lastId
      BY <2>6, <3>1 DEF Listing
    <3>3. ASSUME NEW i \in 1..Len(server'), NEW j \in 1..Len(server'),
                 server'[i].id = server'[j].id \/ server'[i].key = server'[j].key
          PROVE  i = j
      <4>1. old(i) \in 1..Len(server) /\ old(j) \in 1..Len(server)
        BY <3>1
      <4>2. server'[i] = server[old(i)] /\ server'[j] = server[old(j)]
        BY <2>6
      <4>3. old(i) = old(j)
        BY <3>3, <4>1, <4>2 DEF Listing
      <4> QED
        BY <2>7, <4>3
    <3> QED
      BY <2>5, <3>2, <3>3 DEF Listing
  <2>9. Records' \subseteq Records
    <3>1. DOMAIN server' = 1..(Len(server) - 1) /\ DOMAIN server = 1..Len(server)
      BY <2>3, RecordsOf
    <3>2. ASSUME NEW i \in DOMAIN server' PROVE server'[i] \in Records
      <4>1. old(i) \in DOMAIN server /\ server'[i] = server[old(i)]
        BY <2>2, <2>3, <3>1
      <4> HIDE DEF old
      <4> QED
        BY <4>1 DEF Records
    <3> QED
      BY <3>2 DEF Records
  <2>10. ASSUME NEW m \in 1..Len(server), server[m].id # id
         PROVE  server[m] \in Records'
    <3>1. m # n
      BY <1>2, <2>10
    <3>2. PICK i \in 1..(Len(server) - 1) : old(i) = m
      <4>1. CASE m < n
        BY <4>1, <2>1
      <4>2. CASE n < m
        <5>1. m - 1 \in 1..(Len(server) - 1) /\ old(m - 1) = m
          BY <4>2, <2>1
        <5> QED
          BY <5>1
      <4> QED
        BY <3>1, <4>1, <4>2
    <3>3. i \in DOMAIN server' /\ server'[i] = server[m]
      BY <2>3, <3>2
    <3> QED
      BY <3>3 DEF Records
  <2> QED
    BY <2>8, <2>9, <2>10, RecordsOf DEF Records
<1> QED
  BY <1>1, <1>2, RecordsOf DEF RemovesId

LEMMA Changed ==
    ASSUME NEW r \in Records, NEW k \in AnyKey, lastId \in Nat,
           Listing(server, lastId), OperatorChanges(r, k)
    PROVE  /\ Listing(server', lastId)
           /\ Records' = (Records \ {r}) \union {[r EXCEPT !.key = k]}
<1>1. /\ DOMAIN server = 1..Len(server) /\ Len(server) \in Nat /\ server \in Seq(Rec)
      /\ k \notin KeysOf(Records)
      /\ server' = [i \in DOMAIN server |->
                      IF server[i] = r THEN [r EXCEPT !.key = k] ELSE server[i]]
  BY RecordsOf DEF OperatorChanges, Listing
<1>2. PICK n \in 1..Len(server) : server[n] = r
  BY <1>1 DEF Records
<1>3. r \in Rec /\ [r EXCEPT !.key = k] \in Rec
  BY RecordsOf DEF Rec
<1>4. server' \in [1..Len(server) -> Rec]
  BY <1>1, <1>3
<1>5. server' \in Seq(Rec) /\ Len(server') = Len(server)
  BY <1>1, <1>4, SeqDef
<1>6. /\ server'[n] = [r EXCEPT !.key = k]
      /\ \A i \in 1..Len(server) : i # n => server'[i] = server[i]
  BY <1>1, <1>2 DEF Listing
<1>7. \A i \in 1..Len(server) : server[i].key # k
  BY <1>1 DEF KeysOf, Records
<1>8. \A i \in 1..Len(server) : server'[i].id = server[i].id
  BY <1>2, <1>3, <1>6 DEF Rec
<1>9. ([r EXCEPT !.key = k]).key = k
  BY <1>3 DEF Rec
<1>10. Listing(server', lastId)
  <2>1. \A i \in 1..Len(server') : server'[i].id \in 1..lastId
    BY <1>5, <1>8 DEF Listing
  <2>2. ASSUME NEW i \in 1..Len(server'), NEW j \in 1..Len(server'),
               server'[i].id = server'[j].id \/ server'[i].key = server'[j].key
        PROVE  i = j
    <3>1. CASE server'[i].id = server'[j].id
      BY <1>5, <1>8, <3>1 DEF Listing
    <3>2. CASE i = n \/ j = n
      BY <1>5, <1>6, <1>7, <1>9, <2>2, <3>1, <3>2
    <3>3. CASE i # n /\ j # n
      BY <1>5, <1>6, <2>2, <3>1, <3>3 DEF Listing
    <3> QED
      BY <3>2, <3>3
  <2> QED
    BY <1>5, <2>1, <2>2 DEF Listing
<1>11. Records' = (Records \ {r}) \union {[r EXCEPT !.key = k]}
  <2>1. \A i \in 1..Len(server) : i # n => server[i] # r
    BY <1>2 DEF Listing
  <2>2. Records' = {server'[i] : i \in 1..Len(server)}
    BY <1>4 DEF Records
  <2> QED
    BY <1>1, <1>2, <1>6, <2>1, <2>2 DEF Records
<1> QED
  BY <1>10, <1>11

-----------------------------------------------------------------------------

LEMMA Begins == ASSUME Init PROVE IInv
<1>1. Listing(server, lastId)
  BY EmptySeq DEF Init, Listing
<1>2. run \in RunType
  BY DEF Init, RunType, Idle
<1>3. calm \in BOOLEAN
  BY Zenon DEF Init
<1>4. Shapes
  BY <1>2, <1>3, BoundIsNatural DEF Init, Shapes, Idle
<1> QED
  BY <1>1, <1>4 DEF IInv, RunOK, Init, Idle

LEMMA KeysAreKeys == Keys \subseteq AnyKey /\ Unmanaged \subseteq AnyKey
BY DEF AnyKey

\* What a run has seen stays seen when records go or come with new ids.
LEMMA StaySeen ==
    ASSUME IInv, lastId' \in Nat, lastId' >= lastId,
           \A r \in Records' : r \in Records \/ r.id > lastId,
           run'.phase = "idle" => run'.listed = {} /\ run'.drops = {},
           run'.listed \union run'.drops \subseteq run.listed \union run.drops,
           run'.drops \subseteq run.drops, run.edited \subseteq run'.edited,
           run'.want = run.want
    PROVE  RunOK'
<1>1. ASSUME NEW d \in run'.listed \union run'.drops PROVE Seen(d)'
  <2>1. Seen(d) /\ d.id \in Nat /\ lastId \in Nat
    BY DEF IInv, RunOK, Shapes, RunType, Rec
  <2>2. ASSUME NEW r \in Records', r.id = d.id PROVE r = d \/ r.id \in run'.edited
    <3>1. r \in Records
      BY <2>1, <2>2 DEF Seen
    <3> QED
      BY <2>1, <2>2, <3>1 DEF Seen
  <2> QED
    BY <2>1, <2>2 DEF Seen
<1> QED
  BY <1>1 DEF RunOK, IInv

LEMMA Created ==
    ASSUME IInv, NEW k \in AnyKey, Creates(k)
    PROVE  /\ Listing(server, lastId)'
           /\ lastId' \in Nat /\ lastId' >= lastId
           /\ Records \subseteq Records'
           /\ \A r \in Records' : r \in Records \/ r.id > lastId
<1>1. CASE UNCHANGED <<server, lastId>>
  BY <1>1 DEF IInv, Shapes, Records, Listing
<1>2. CASE k \notin KeysOf(Records) /\ server' = Append1(k) /\ lastId' = lastId + 1
  BY <1>2, Appended DEF IInv, Shapes
<1> QED
  BY <1>1, <1>2 DEF Creates

LEMMA EditsKeep ==
    ASSUME IInv, EditRecords \/ Operator
    PROVE  IInv'
<1> USE DEF IInv
<1>1. edits' \in 0..MaxEdits /\ UNCHANGED <<cache, status, served>>
  BY BoundIsNatural DEF EditRecords, Operator, OperatorAdds, OperatorRemoves,
     OperatorChanges, OperatorMovesZone, Edited, Shapes
<1>2. CASE EditRecords
  BY <1>1, <1>2 DEF EditRecords, serverVars, Shapes, RunOK, Seen, Records, Listing
<1>3. ASSUME NEW k \in AnyKey, OperatorAdds(k) PROVE IInv'
  <2>1. /\ Listing(server, lastId)' /\ lastId' = lastId + 1
        /\ Records' = Records \union {[id |-> lastId + 1, key |-> k]}
    BY <1>3, Appended DEF OperatorAdds, Shapes
  <2>2. Shapes'
    <3>1. calm' \in BOOLEAN
      BY <1>3, Zenon DEF OperatorAdds
    <3> QED
      BY <1>1, <1>3, <2>1, <3>1 DEF OperatorAdds, Shapes
  <2>3. RunOK'
    BY <1>3, <2>1, StaySeen DEF OperatorAdds, Shapes, RunOK
  <2> QED
    BY <2>1, <2>2, <2>3
<1>4. ASSUME NEW r \in Records, OperatorRemoves(r) PROVE IInv'
  <2>1. Listing(server', lastId) /\ Records' \subseteq Records /\ lastId' = lastId
    BY <1>4, Removed DEF OperatorRemoves, Shapes
  <2>2. Shapes'
    BY <1>1, <1>4 DEF OperatorRemoves, Shapes
  <2>3. RunOK'
    BY <1>4, <2>1, StaySeen DEF OperatorRemoves, Shapes, RunOK
  <2> QED
    BY <2>1, <2>2, <2>3
<1>5. ASSUME NEW r \in Records, NEW k \in AnyKey, OperatorChanges(r, k) PROVE IInv'
  <2>1. /\ Listing(server', lastId) /\ lastId' = lastId
        /\ Records' = (Records \ {r}) \union {[r EXCEPT !.key = k]}
    BY <1>5, Changed DEF OperatorChanges, Shapes
  <2>2. r \in Rec /\ ([r EXCEPT !.key = k]).id = r.id
    BY RecordsOf DEF Rec
  <2>3. run' = IF At("idle") THEN run ELSE [run EXCEPT !.edited = @ \union {r.id}]
    BY <1>5 DEF OperatorChanges
  <2>4. run' \in RunType /\ run'.want = run.want /\ run'.adds = run.adds
    BY <2>2, <2>3 DEF Shapes, RunType, Rec
  <2>5. Shapes'
    BY <1>1, <1>5, <2>4 DEF OperatorChanges, Shapes
  <2>6. CASE At("idle")
    BY <2>1, <2>3, <2>5, <2>6 DEF At, RunOK
  <2>7. CASE ~At("idle")
    <3>1. /\ run'.phase = run.phase /\ run'.listed = run.listed
          /\ run'.drops = run.drops /\ run'.edited = run.edited \union {r.id}
      BY <2>3, <2>7 DEF Shapes, RunType
    <3>2. ASSUME NEW d \in run'.listed \union run'.drops PROVE Seen(d)'
      <4>1. Seen(d)
        BY <3>1 DEF RunOK
      <4> QED
        BY <2>1, <2>2, <3>1, <4>1 DEF Seen
    <3> QED
      BY <2>1, <2>4, <2>5, <3>1, <3>2 DEF RunOK
  <2> QED
    BY <2>6, <2>7
<1>6. CASE OperatorMovesZone
  <2>1. /\ server' = <<>> /\ lastId' \in Nat /\ lastId' >= lastId
        /\ zone' \in 0..lastId' /\ UNCHANGED <<want, run>> /\ calm' = FALSE
    BY <1>6 DEF OperatorMovesZone, Shapes
  <2>2. Listing(server, lastId)' /\ Records' = {}
    BY <2>1, EmptySeq DEF Listing, Records
  <2>3. Shapes'
    <3>1. calm' \in BOOLEAN
      BY <2>1, Zenon
    <3> QED
      BY <1>1, <2>1, <3>1 DEF Shapes
  <2>4. RunOK'
    BY <2>1, <2>2, StaySeen DEF RunOK
  <2> QED
    BY <2>2, <2>3, <2>4
<1> QED
  BY <1>2, <1>3, <1>4, <1>5, <1>6 DEF Operator

\* Leaving a run.
LEMMA EndsKeep ==
    ASSUME IInv, NEW s \in {"never", "ok", "failed"}, Ends(s),
           UNCHANGED <<want, edits, serverVars>>, cache' \in 0..lastId, calm' \in BOOLEAN
    PROVE  IInv'
<1>1. Shapes'
  BY DEF IInv, Shapes, Ends, Idle, RunType, serverVars
<1> QED
  BY <1>1 DEF IInv, Ends, Idle, RunOK, serverVars, Listing

\* One record fewer to add or to delete.
LEMMA TriedKeeps ==
    ASSUME IInv, NEW a, NEW d, NEW f \in BOOLEAN,
           run' = [run EXCEPT !.adds = @ \ a, !.drops = @ \ d, !.failed = f],
           UNCHANGED <<want, zone, cache, edits, status, served>>, calm' \in BOOLEAN,
           Listing(server, lastId)', lastId' \in Nat, lastId' >= lastId,
           \A r \in Records' : r \in Records \/ r.id > lastId
    PROVE  IInv'
<1>1. /\ run' \in RunType /\ run'.adds \subseteq run'.want /\ run'.want = run.want
      /\ run'.phase = run.phase /\ run'.listed = run.listed
      /\ run'.drops = run.drops \ d /\ run'.edited = run.edited
  BY DEF IInv, Shapes, RunType
<1>2. Shapes'
  BY <1>1 DEF IInv, Shapes
<1>3. RunOK'
  BY <1>1, StaySeen DEF IInv, RunOK
<1> QED
  BY <1>2, <1>3 DEF IInv

\* The last page, or the one taken for it, or one among others.
LEMMA ListingKeeps == ASSUME IInv, ListRecords \/ ListCutShort PROVE IInv'
<1> USE DEF IInv
<1> DEFINE listed == Listed
<1>1. UNCHANGED <<want, edits, server, zone, lastId, cache, status, served>>
  BY DEF ListRecords, ListCutShort, Steps, serverVars
<1>0. calm' \in BOOLEAN
  BY DEF ListRecords, ListCutShort, Shapes
<1>2. ASSUME NEW d \in listed PROVE d \in Rec /\ d.key \in Keys /\ Seen(d)
  <2>1. CASE d \in run.listed
    BY <2>1 DEF RunOK, Shapes, RunType, Seen
  <2>2. CASE d \in Managed(Page(run.page))
    <3>1. d.key \in Keys
      BY <2>2 DEF Managed
    <3>2. PICK i \in DOMAIN server : d = server[i]
      BY <2>2 DEF Managed, Page
    <3>3. i \in 1..Len(server) /\ d \in Rec
      BY <3>2, RecordsOf DEF Records
    <3>4. \A r \in Records : r.id = d.id => r = d
      BY <3>2, <3>3, RecordsOf DEF Records, Listing
    <3>5. d.id <= lastId
      BY <3>2, <3>3 DEF Listing, Shapes
    <3> QED
      BY <3>1, <3>3, <3>4, <3>5 DEF Seen
  <2> QED
    BY <2>1, <2>2 DEF Listed
<1> HIDE DEF listed
<1>3. listed \subseteq Rec
  BY <1>2
<1>4. \/ run' = Delta(listed)
      \/ run' = [run EXCEPT !.listed = listed, !.page = @ + 1]
  BY DEF ListRecords, ListCutShort, listed
<1>5. /\ run' \in RunType /\ run'.adds \subseteq run'.want /\ run'.want = run.want
      /\ run'.edited = run.edited
      /\ run'.phase # "idle"
      /\ run'.listed \union run'.drops \subseteq listed \union run.drops
      /\ \A d \in run'.drops : d \in run.drops \/ d.key \notin run.want
  <2>1. CASE run' = Delta(listed)
    BY <1>3, <2>1 DEF Delta, Shapes, RunType
  <2>2. CASE run' = [run EXCEPT !.listed = listed, !.page = @ + 1]
    <3>1. /\ run'.adds = run.adds /\ run'.want = run.want /\ run'.drops = run.drops
          /\ run'.edited = run.edited /\ run'.phase = run.phase
          /\ run'.listed = listed
      BY <2>2 DEF Shapes, RunType
    <3>2. run.page + 1 \in Nat
      BY DEF Shapes, RunType
    <3>3. run' \in RunType
      BY <1>3, <2>2, <3>2, Zenon DEF Shapes, RunType
    <3> QED
      BY <3>1, <3>3 DEF ListRecords, ListCutShort, At, Shapes
  <2> QED
    BY <1>4, <2>1, <2>2
<1>6. Shapes' /\ Listing(server, lastId)'
  BY <1>0, <1>1, <1>5 DEF Shapes
<1>7. ASSUME NEW d \in run'.listed \union run'.drops PROVE Seen(d)'
  <2>1. Seen(d)
    BY <1>2, <1>5 DEF RunOK
  <2> QED
    BY <1>1, <1>5, <2>1 DEF Seen, Records
<1> QED
  BY <1>5, <1>6, <1>7 DEF RunOK

LEMMA RunKeeps == ASSUME IInv, RunStep PROVE IInv'
<1> USE DEF IInv
<1>1. CASE LoadDesired
  <2>1. run' \in RunType /\ run'.listed = {} /\ run'.drops = {} /\ run'.adds = {}
    BY <1>1 DEF LoadDesired, Idle, RunType, Shapes
  <2>2. calm' \in BOOLEAN
    BY <1>1, Zenon DEF LoadDesired
  <2>3. Shapes' /\ Listing(server, lastId)'
    BY <1>1, <2>1, <2>2 DEF LoadDesired, Steps, serverVars, Shapes
  <2> QED
    BY <2>1, <2>3 DEF RunOK
<1>2. CASE EnsureZone
  <2>1. /\ UNCHANGED <<want, edits, serverVars, calm>>
        /\ cache' \in 0..lastId /\ calm' \in BOOLEAN
    BY <1>2 DEF EnsureZone, Steps, Shapes
  <2>2. CASE Fails
    BY <2>1, <2>2, EndsKeep DEF Fails
  <2>3. CASE run' = [run EXCEPT !.phase = "list"] /\ UNCHANGED <<status, served>>
    <3>1. /\ run' \in RunType /\ run'.adds = run.adds /\ run'.want = run.want
          /\ run'.listed = run.listed /\ run'.drops = run.drops
          /\ run'.edited = run.edited /\ run'.phase = "list"
      BY <2>3 DEF Shapes, RunType
    <3>2. Shapes' /\ Listing(server, lastId)'
      BY <2>1, <2>3, <3>1 DEF Shapes, serverVars
    <3>3. RunOK'
      BY <2>1, <3>1, StaySeen DEF Shapes, serverVars, Records
    <3> QED
      BY <3>2, <3>3
  <2> QED
    BY <1>2, <2>2, <2>3 DEF EnsureZone
<1>3. CASE ListRecords
  BY <1>3, ListingKeeps
<1>4. CASE ListRefused
  BY <1>4, EndsKeep DEF ListRefused, Fails, Steps, Shapes
<1>5. ASSUME NEW k \in run.adds, AddRecord(k) PROVE IInv'
  <2>1. k \in AnyKey
    BY KeysAreKeys DEF Shapes, RunType
  <2> DEFINE f == run.failed \/ server' = server
  <2>2. run' = [run EXCEPT !.adds = @ \ {k}, !.drops = @ \ {}, !.failed = f]
    BY <1>5 DEF AddRecord, Shapes, RunType
  <2>3. f \in BOOLEAN /\ calm' \in BOOLEAN
    BY <1>5 DEF AddRecord, Shapes
  <2> HIDE DEF f
  <2>4. Creates(k) /\ UNCHANGED <<want, zone, cache, edits, status, served>>
    BY <1>5 DEF AddRecord, Steps
  <2> QED
    BY <2>1, <2>2, <2>3, <2>4, Created, TriedKeeps
<1>6. ASSUME NEW d \in run.drops, DeleteRecord(d) PROVE IInv'
  <2> DEFINE f == run.failed \/ server' = server
  <2>1. run' = [run EXCEPT !.adds = @ \ {}, !.drops = @ \ {d}, !.failed = f]
    BY <1>6 DEF DeleteRecord, Shapes, RunType
  <2>2. f \in BOOLEAN /\ calm' \in BOOLEAN
    BY <1>6 DEF DeleteRecord, Shapes
  <2> HIDE DEF f
  <2>3. Deletes(d) /\ UNCHANGED <<want, zone, lastId, cache, edits, status, served>>
    BY <1>6 DEF DeleteRecord, Steps
  <2>4. Listing(server', lastId) /\ Records' \subseteq Records
    BY <2>3, Removed DEF Deletes, Shapes, Records
  <2>5. Listing(server, lastId)'
    BY <2>3, <2>4
  <2>6. lastId' \in Nat /\ lastId' >= lastId
    BY <2>3 DEF Shapes
  <2> QED
    BY <2>1, <2>2, <2>3, <2>4, <2>5, <2>6, TriedKeeps
<1>7. CASE ZoneDone
  BY <1>7, EndsKeep DEF ZoneDone, Fails, Steps, Shapes
<1> QED
  BY <1>1, <1>2, <1>3, <1>4, <1>5, <1>6, <1>7 DEF RunStep

LEMMA FailuresKeep == ASSUME IInv, CallFails PROVE IInv'
<1> USE DEF IInv
<1>1. UNCHANGED <<want, edits, zone, cache>> /\ calm' = FALSE
  BY DEF CallFails, Steps
<1>2. calm' \in BOOLEAN
  BY <1>1, Zenon
<1>3. CASE Fails /\ UNCHANGED <<server, lastId>>
  BY <1>1, <1>2, <1>3, EndsKeep DEF Fails, serverVars, Shapes
<1>4. ASSUME NEW k \in run.adds, Creates(k) \/ UNCHANGED <<server, lastId>>,
             run' = [run EXCEPT !.adds = @ \ {k}, !.failed = TRUE],
             UNCHANGED <<status, served>>
      PROVE  IInv'
  <2>1. k \in AnyKey
    BY KeysAreKeys DEF Shapes, RunType
  <2>2. run' = [run EXCEPT !.adds = @ \ {k}, !.drops = @ \ {}, !.failed = TRUE]
    BY <1>4 DEF Shapes, RunType
  <2>3. /\ Listing(server, lastId)' /\ lastId' \in Nat /\ lastId' >= lastId
        /\ \A r \in Records' : r \in Records \/ r.id > lastId
    BY <1>4, <2>1, Created DEF Shapes, Records
  <2> QED
    BY <1>1, <1>2, <1>4, <2>2, <2>3, TriedKeeps
<1>5. ASSUME NEW d \in run.drops, Deletes(d) \/ UNCHANGED server,
             run' = [run EXCEPT !.drops = @ \ {d}, !.failed = TRUE],
             UNCHANGED <<lastId, status, served>>
      PROVE  IInv'
  <2>1. run' = [run EXCEPT !.adds = @ \ {}, !.drops = @ \ {d}, !.failed = TRUE]
    BY <1>5 DEF Shapes, RunType
  <2>2. Listing(server', lastId) /\ Records' \subseteq Records
    BY <1>5, Removed DEF Deletes, Shapes, Records
  <2>3. Listing(server, lastId)'
    BY <1>5, <2>2
  <2>4. lastId' \in Nat /\ lastId' >= lastId
    BY <1>5 DEF Shapes
  <2> QED
    BY <1>1, <1>2, <1>5, <2>1, <2>2, <2>3, <2>4, TriedKeeps
<1> QED
  BY <1>3, <1>4, <1>5 DEF CallFails

LEMMA StepsKeep == ASSUME IInv, [Next]_vars PROVE IInv'
<1>1. CASE UNCHANGED vars
  BY <1>1 DEF vars, serverVars, IInv, Shapes, RunOK, Seen, Records
<1> QED
  BY <1>1, EditsKeep, RunKeeps, ListingKeeps, FailuresKeep DEF Next

LEMMA Invariance == Spec => []IInv
BY Begins, StepsKeep, PTL DEF Spec

\* Type correctness of the zone, of the client and of its runs, for any page size
\* and any number of edits: no two records share an id or are the same, and only
\* records of the managed types are listed or to be deleted.
THEOREM TypeCorrect == Spec => []TypeOK
<1>1. IInv => TypeOK
  <2> SUFFICES ASSUME IInv PROVE TypeOK
    OBVIOUS
  <2>1. \A i \in DOMAIN server : server[i].key \in AnyKey /\ server[i].id \in 1..lastId
    BY RecordsOf DEF IInv, Listing, Rec, Records
  <2>2. \A i, j \in DOMAIN server :
            server[i].id = server[j].id \/ server[i].key = server[j].key => i = j
    BY RecordsOf DEF IInv, Listing
  <2>3. KeysOf(run.listed \union run.drops) \subseteq Keys
    BY DEF IInv, RunOK, Seen, KeysOf
  <2> QED
    BY <2>1, <2>2, <2>3 DEF IInv, Shapes, RunType, TypeOK
<1> QED
  BY <1>1, Invariance, PTL

\* A run deletes only what it has listed and does not want.
LEMMA DeletesWhatItSaw ==
    ASSUME IInv, NEW d \in run.drops, Deletes(d), NEW r \in Records,
           r.key \in run.want \union Unmanaged, r.id \notin run.edited
    PROVE  r \in Records'
<1>1. r.id # d.id
  BY KindsDiffer DEF IInv, RunOK, Seen
<1> QED
  BY <1>1, Removed DEF Deletes, IInv, Shapes, Records

\* No run takes away a record that it wants or that is not netdb's, whatever
\* happened between the pages and the deletions, unless it was changed in place.
THEOREM WantedIsKept == Spec => WantedKept
<1>1. ASSUME IInv, [Next]_vars, edits' = edits, NEW r \in Records,
             r.key \in run.want \union Unmanaged, r.id \notin run.edited
      PROVE  r \in Records'
  <2>1. CASE UNCHANGED server
    BY <2>1 DEF Records
  <2>2. CASE EditRecords \/ Operator
    BY <1>1, <2>2 DEF EditRecords, Operator, OperatorAdds, OperatorRemoves,
       OperatorChanges, OperatorMovesZone, Edited, IInv, Shapes
  <2>3. CASE RunStep
    <3>1. ASSUME NEW k \in run.adds, AddRecord(k) PROVE r \in Records'
      BY <1>1, <3>1, Created, KeysAreKeys DEF AddRecord, IInv, Shapes, RunType
    <3>2. ASSUME NEW d \in run.drops, DeleteRecord(d) PROVE r \in Records'
      BY <1>1, <3>2, DeletesWhatItSaw DEF DeleteRecord
    <3> QED
      BY <2>1, <2>3, <3>1, <3>2 DEF RunStep, LoadDesired, EnsureZone, ListRecords,
         ListRefused, ZoneDone, serverVars
  <2>5. CASE ListCutShort
    BY <2>1, <2>5 DEF ListCutShort, serverVars
  <2>4. CASE CallFails
    <3>1. ASSUME NEW k \in run.adds, Creates(k) PROVE r \in Records'
      BY <1>1, <3>1, Created, KeysAreKeys DEF IInv, Shapes, RunType
    <3>2. ASSUME NEW d \in run.drops, Deletes(d) PROVE r \in Records'
      BY <1>1, <3>2, DeletesWhatItSaw
    <3> QED
      BY <2>1, <2>4, <3>1, <3>2 DEF CallFails
  <2> QED
    BY <1>1, <2>1, <2>2, <2>3, <2>4, <2>5 DEF Next, vars, serverVars
<1>2. ASSUME IInv, [Next]_vars PROVE
        [edits' = edits => \A r \in Records :
            r.key \in run.want \union Unmanaged /\ r.id \notin run.edited
                => r \in {server'[i] : i \in DOMAIN server'}]_vars
  BY <1>1, <1>2 DEF Records
<1> QED
  BY <1>2, Invariance, PTL DEF Spec, WantedKept

-----------------------------------------------------------------------------
\* A run that nobody disturbs.

\* The managed records on the pages before the n-th.
ReadBefore(n) ==
    Managed({server[i] : i \in {j \in DOMAIN server : (j - 1) \div PageSize < n - 1}})

\* What holds as long as only the run has touched the zone: it has seen the zone
\* as it is, and what it has still to do is what the zone lacks or has too much.
Undisturbed ==
    /\ At("idle") =>
        /\ status = "ok" <=> zone # 0
        /\ status = "ok" => Holds(served)
    /\ At("ensure") => cache = 0 /\ run.listed = {} /\ run.page = 1
    /\ At("list") => run.page >= 1 /\ run.listed = ReadBefore(run.page)
    /\ At("list") \/ At("apply") => cache = zone /\ zone # 0
    /\ ~At("idle") => run.failed = FALSE
    /\ At("apply") =>
        /\ run.adds \intersect KeysOf(Records) = {}
        /\ run.want \ run.adds \subseteq KeysOf(Records)
        /\ run.drops = {r \in Managed(Records) : r.key \notin run.want}

Calmly == calm => Undisturbed

LEMMA DivisionBounds ==
    ASSUME NEW a \in Nat, NEW p \in Nat \ {0}
    PROVE  /\ a \div p \in Nat
           /\ p * (a \div p) <= a
           /\ a < p * (a \div p) + p
OBVIOUS

\* There is nothing on the pages after the last.
LEMMA LastPageIsLast ==
    ASSUME NEW n \in Nat, Len(server) \in Nat, LastPage(n), NEW j \in 1..Len(server)
    PROVE  (j - 1) \div PageSize < n
<1> DEFINE q == (j - 1) \div PageSize
           m == (Len(server) + PageSize - 1) \div PageSize
<1>1. PageSize \in Nat \ {0} /\ j - 1 \in Nat /\ Len(server) + PageSize - 1 \in Nat
  BY PagesHoldRecords
<1>2. q \in Nat /\ PageSize * q <= j - 1
  BY <1>1, DivisionBounds
<1>3. m \in Nat /\ Len(server) + PageSize - 1 < PageSize * m + PageSize
  BY <1>1, DivisionBounds
<1>4. n >= m
  BY DEF LastPage, TotalPages
<1> HIDE DEF q, m
<1>5. PageSize * q < PageSize * m
  <2>1. PageSize * q \in Nat /\ PageSize * m \in Nat
    BY <1>1, <1>2, <1>3
  <2> QED
    BY <1>1, <1>2, <1>3, <2>1
<1>6. q < m
  BY <1>1, <1>2, <1>3, <1>5
<1> QED
  BY <1>2, <1>3, <1>4, <1>6 DEF q

\* Page by page: what the run has listed is what there is on the pages so far.
LEMMA PageByPage ==
    ASSUME IInv, At("list"), run.page >= 1, run.listed = ReadBefore(run.page)
    PROVE  /\ Listed = ReadBefore(run.page + 1)
           /\ LastPage(run.page) => Listed = Managed(Records)
<1> DEFINE n == run.page
           pg(j) == (j - 1) \div PageSize
           new == Managed(Page(n))
<1>1. DOMAIN server = 1..Len(server) /\ Len(server) \in Nat /\ n \in Nat
  BY RecordsOf DEF IInv, Shapes, RunType
<1>2. PICK m \in Nat : m = n + 1
  BY <1>1
<1>3. ASSUME NEW j \in DOMAIN server PROVE pg(j) \in Nat
  BY <1>1, DivisionBounds, PagesHoldRecords
<1>4. \A i, j \in DOMAIN server : server[i].key = server[j].key => i = j
  BY <1>1 DEF IInv, Listing
<1>5. /\ Page(n) = {server[j] : j \in {i \in DOMAIN server : pg(i) = n - 1}}
      /\ run.listed = Managed({server[j] : j \in {i \in DOMAIN server : pg(i) < n - 1}})
      /\ ReadBefore(m) = Managed({server[j] : j \in {i \in DOMAIN server : pg(i) < m - 1}})
  <2>1. Page(n) = {server[j] : j \in {i \in DOMAIN server : pg(i) = n - 1}}
    BY Zenon DEF Page
  <2>2. ASSUME NEW k
        PROVE  ReadBefore(k) = Managed({server[j] : j \in {i \in DOMAIN server : pg(i) < k - 1}})
    BY DEF ReadBefore, Managed
  <2> HIDE DEF pg
  <2>3. run.listed = Managed({server[j] : j \in {i \in DOMAIN server : pg(i) < n - 1}})
    <3>1. run.listed = ReadBefore(n)
      OBVIOUS
    <3>2. ReadBefore(n) = Managed({server[j] : j \in {i \in DOMAIN server : pg(i) < n - 1}})
      BY <2>2, Zenon
    <3> HIDE DEF n
    <3> QED
      BY <3>1, <3>2, Zenon
  <2>4. ReadBefore(m) = Managed({server[j] : j \in {i \in DOMAIN server : pg(i) < m - 1}})
    BY <2>2, Zenon
  <2> QED
    BY <2>1, <2>3, <2>4, Zenon
<1> HIDE DEF pg
<1>6. ASSUME NEW r \in run.listed PROVE r.key \notin KeysOf(new)
  <2>1. PICK j \in DOMAIN server : pg(j) < n - 1 /\ r = server[j]
    BY <1>5 DEF Managed
  <2> SUFFICES ASSUME NEW s \in new, s.key = r.key
               PROVE  FALSE
    BY DEF KeysOf
  <2>2. PICK i \in DOMAIN server : pg(i) = n - 1 /\ s = server[i]
    BY <1>5 DEF Managed
  <2>3. i = j
    BY <1>4, <2>1, <2>2
  <2>4. pg(j) \in Nat
    BY <1>3
  <2> QED
    BY <1>1, <2>1, <2>2, <2>3, <2>4
<1>7. Listed = run.listed \union new
  BY <1>6 DEF Listed
<1>8. run.listed \union new = ReadBefore(m)
  <2>1. \A j \in DOMAIN server : pg(j) < m - 1 <=> pg(j) < n - 1 \/ pg(j) = n - 1
    BY <1>1, <1>2, <1>3
  <2> HIDE DEF n
  <2> QED
    BY <1>5, <2>1 DEF Managed, n
<1>9. ASSUME LastPage(n) PROVE ReadBefore(m) = Managed(Records)
  <2>1. \A j \in DOMAIN server : pg(j) < m - 1
    <3>1. ASSUME NEW j \in DOMAIN server PROVE pg(j) < n
      BY <1>1, <1>9, LastPageIsLast DEF pg
    <3> QED
      BY <1>1, <1>2, <1>3, <3>1
  <2> QED
    BY <1>5, <2>1 DEF Managed, Records
<1> QED
  BY <1>7, <1>8, <1>9, <1>2

\* A record that is deleted by its id is gone.
LEMMA RemovedIsGone ==
    ASSUME NEW id, Listing(server, lastId), RemovesId(id)
    PROVE  \A r \in Records' : r.id # id
<1>1. DOMAIN server = 1..Len(server) /\ Len(server) \in Nat
  BY RecordsOf
<1>2. CASE (\A n \in DOMAIN server : server[n].id # id) /\ UNCHANGED server
  BY <1>2 DEF Records
<1>3. ASSUME NEW n \in DOMAIN server, server[n].id = id, server' = RemoveAt(n),
             NEW i \in DOMAIN server'
      PROVE  server'[i].id # id
  <2> DEFINE m == IF i < n THEN i ELSE i + 1
  <2>1. i \in 1..(Len(server) - 1) /\ server'[i] = server[m]
    BY <1>3 DEF RemoveAt
  <2>2. m \in 1..Len(server) /\ m # n
    BY <1>1, <1>3, <2>1
  <2> HIDE DEF m
  <2> QED
    BY <1>1, <1>3, <2>1, <2>2 DEF Listing
<1> QED
  BY <1>2, <1>3 DEF RemovesId, Records

\* The calls of a run, when nobody else touches the zone.
LEMMA RunStaysCalm ==
    ASSUME IInv, Calmly, RunStep
    PROVE  Calmly'
<1> USE DEF Calmly
<1>1. CASE LoadDesired
  <2>1. run' = [Idle EXCEPT !.phase = "ensure", !.want = want] /\ cache' = 0
    BY <1>1 DEF LoadDesired
  <2>2. run'.phase = "ensure" /\ run'.listed = {} /\ run'.page = 1
    BY <2>1 DEF Idle
  <2>3. run'.failed = FALSE
    BY <2>1 DEF Idle
  <2> QED
    BY <2>1, <2>2, <2>3 DEF Undisturbed, At
<1> SUFFICES ASSUME calm, ~LoadDesired
             PROVE  Undisturbed'
  <2>1. ~LoadDesired => calm' = calm
    BY DEF RunStep, EnsureZone, ListRecords, ListRefused, AddRecord, DeleteRecord, ZoneDone
  <2> QED
    BY <1>1, <2>1
<1>2. /\ Undisturbed /\ Listing(server, lastId) /\ run \in RunType /\ lastId \in Nat
      /\ zone \in Nat /\ run.adds \subseteq run.want
  BY DEF IInv, Shapes
<1>3. CASE EnsureZone
  <2>1. At("ensure") /\ cache = 0 /\ run.listed = {} /\ run.page = 1 /\ run.failed = FALSE
    BY <1>2, <1>3 DEF EnsureZone, Undisturbed, At
  <2>2. cache' = zone /\ zone' = zone
    BY <1>3, <2>1 DEF EnsureZone, serverVars
  <2>3. CASE zone = 0
    <3>1. run' = Idle /\ status' = "failed"
      BY <1>3, <2>2, <2>3 DEF EnsureZone, Fails, Ends
    <3> QED
      BY <2>2, <2>3, <3>1 DEF Undisturbed, At, Idle
  <2>4. CASE zone # 0
    <3>1. run' = [run EXCEPT !.phase = "list"] /\ server' = server
      BY <1>3, <2>2, <2>4 DEF EnsureZone, serverVars
    <3>2. /\ run'.phase = "list" /\ run'.listed = {} /\ run'.page = 1
          /\ run'.failed = FALSE
      BY <1>2, <2>1, <3>1 DEF RunType
    <3>3. ReadBefore(1) = {}
      <4>1. DOMAIN server = 1..Len(server) /\ Len(server) \in Nat
        BY <1>2, RecordsOf
      <4>2. \A j \in DOMAIN server : ~((j - 1) \div PageSize < 1 - 1)
        <5>1. ASSUME NEW j \in DOMAIN server PROVE (j - 1) \div PageSize \in Nat
          BY <4>1, DivisionBounds, PagesHoldRecords
        <5> QED
          BY <5>1
      <4> QED
        BY <4>2 DEF ReadBefore, Managed
    <3>4. ReadBefore(run.page)' = {}
      BY <3>1, <3>2, <3>3 DEF ReadBefore, Managed
    <3> QED
      BY <2>2, <2>4, <3>2, <3>4 DEF Undisturbed, At
  <2> QED
    BY <2>3, <2>4
<1>4. CASE ListRecords
  <2>1. /\ At("list") /\ run.page >= 1 /\ run.listed = ReadBefore(run.page)
        /\ cache = zone /\ zone # 0 /\ run.failed = FALSE /\ run.page \in Nat
    BY <1>2, <1>4 DEF ListRecords, Undisturbed, At, RunType
  <2>2. UNCHANGED <<server, zone, cache>>
    BY <1>4 DEF ListRecords, serverVars
  <2>3. /\ Listed = ReadBefore(run.page + 1)
        /\ LastPage(run.page) => Listed = Managed(Records)
    BY <2>1, PageByPage
  <2> DEFINE listed == Listed
  <2>4. run' = IF LastPage(run.page) THEN Delta(listed)
               ELSE [run EXCEPT !.listed = listed, !.page = @ + 1]
    BY <1>4 DEF ListRecords
  <2> HIDE DEF listed
  <2>5. CASE LastPage(run.page)
    <3>1. /\ run'.phase = "apply" /\ run'.want = run.want
          /\ run'.adds = run.want \ KeysOf(listed)
          /\ run'.drops = {r \in listed : r.key \notin run.want}
          /\ run'.failed = FALSE
      BY <1>2, <2>1, <2>4, <2>5 DEF Delta, RunType
    <3>2. listed = Managed(Records)
      BY <2>3, <2>5 DEF listed
    <3>3. Records' = Records /\ run.want \subseteq Keys
      BY <1>2, <2>2 DEF Records, RunType
    <3>4. run'.adds \intersect KeysOf(Records) = {}
      <4>1. ASSUME NEW r \in Records, r.key \in run.want PROVE r.key \in KeysOf(listed)
        BY <3>2, <3>3, <4>1 DEF Managed, KeysOf
      <4> QED
        BY <3>1, <4>1 DEF KeysOf
    <3>5. run.want \ run'.adds \subseteq KeysOf(Records)
      BY <3>1, <3>2 DEF KeysOf, Managed
    <3> QED
      BY <2>1, <2>2, <3>1, <3>2, <3>3, <3>4, <3>5 DEF Undisturbed, At
  <2>6. CASE ~LastPage(run.page)
    <3>1. /\ run'.phase = "list" /\ run'.listed = listed /\ run'.page = run.page + 1
          /\ run'.failed = FALSE
      BY <1>2, <2>1, <2>4, <2>6 DEF At, RunType
    <3>2. ReadBefore(run.page)' = ReadBefore(run.page + 1)
      BY <2>2, <3>1 DEF ReadBefore
    <3> QED
      BY <2>1, <2>2, <2>3, <3>1, <3>2 DEF Undisturbed, At, listed
  <2> QED
    BY <2>5, <2>6
<1>5. CASE ListRefused
  BY <1>2, <1>5 DEF ListRefused, Undisturbed, At
<1> DEFINE Applying == /\ At("apply") /\ cache = zone /\ zone # 0 /\ run.failed = FALSE
                       /\ run.adds \intersect KeysOf(Records) = {}
                       /\ run.want \ run.adds \subseteq KeysOf(Records)
                       /\ run.drops = {r \in Managed(Records) : r.key \notin run.want}
<1>6. ASSUME NEW k \in run.adds, AddRecord(k) PROVE Undisturbed'
  <2>1. Applying
    BY <1>2, <1>6 DEF AddRecord, Undisturbed, At
  <2>2. k \in AnyKey /\ k \in run.want /\ k \notin KeysOf(Records)
    BY <1>2, <2>1, KeysAreKeys DEF RunType
  <2>3. server' = Append1(k) /\ lastId' = lastId + 1
    BY <1>6, <2>1, <2>2 DEF AddRecord, Creates
  <2>4. Records' = Records \union {[id |-> lastId + 1, key |-> k]}
    BY <1>2, <2>2, <2>3, Appended
  <2>5. KeysOf(Records)' = KeysOf(Records) \union {k}
    <3> DEFINE e == [id |-> lastId + 1, key |-> k]
    <3>1. e.key = k
      OBVIOUS
    <3> HIDE DEF e
    <3>2. Records' = Records \union {e}
      BY <2>4 DEF e
    <3> QED
      BY <3>1, <3>2 DEF KeysOf
  <2>6. server' # server
    BY <2>2, <2>5 DEF KeysOf, Records
  <2>7. /\ run'.phase = "apply" /\ run'.want = run.want /\ run'.adds = run.adds \ {k}
        /\ run'.drops = run.drops
    BY <1>2, <1>6 DEF AddRecord, At, RunType
  <2>8. run'.failed = FALSE
    <3>1. run'.failed = (run.failed \/ server' = server)
      BY <1>2, <1>6 DEF AddRecord, RunType
    <3> QED
      BY <2>1, <2>6, <3>1
  <2>9. {r \in Managed(Records') : r.key \notin run.want} =
        {r \in Managed(Records) : r.key \notin run.want}
    BY <2>2, <2>4 DEF Managed
  <2>10. UNCHANGED <<zone, cache>>
    BY <1>6 DEF AddRecord
  <2>11. /\ run'.adds \intersect KeysOf(Records)' = {}
         /\ run'.want \ run'.adds \subseteq KeysOf(Records)'
    BY <2>1, <2>5, <2>7
  <2>12. run'.drops = {r \in Managed(Records') : r.key \notin run'.want}
    BY <2>1, <2>7, <2>9
  <2> QED
    BY <2>1, <2>7, <2>8, <2>10, <2>11, <2>12 DEF Undisturbed, At
<1>7. ASSUME NEW d \in run.drops, DeleteRecord(d) PROVE Undisturbed'
  <2>1. Applying /\ run.adds = {}
    BY <1>2, <1>7 DEF DeleteRecord, Undisturbed, At
  <2>2. RemovesId(d.id)
    BY <1>7, <2>1 DEF DeleteRecord, Deletes
  <2>3. d \in Records /\ d.key \in Keys /\ d.key \notin run.want
    BY <2>1 DEF Managed
  <2>4. Records' = Records \ {d}
    <3>1. /\ Records' \subseteq Records
          /\ \A r \in Records : r.id # d.id => r \in Records'
      BY <1>2, <2>2, Removed
    <3>2. \A r \in Records' : r.id # d.id
      BY <1>2, <2>2, RemovedIsGone
    <3>3. \A r \in Records : r.id = d.id => r = d
      <4>1. Records = {server[i] : i \in 1..Len(server)}
        BY <1>2, RecordsOf
      <4> QED
        BY <1>2, <2>3, <4>1 DEF Listing
    <3> QED
      BY <3>1, <3>2, <3>3
  <2>5. server' # server
    BY <2>3, <2>4 DEF Records
  <2>6. /\ run'.phase = "apply" /\ run'.want = run.want /\ run'.adds = {}
        /\ run'.drops = run.drops \ {d}
    BY <1>2, <1>7, <2>1 DEF DeleteRecord, At, RunType
  <2>7. run'.failed = FALSE
    <3>1. run'.failed = (run.failed \/ server' = server)
      BY <1>2, <1>7 DEF DeleteRecord, RunType
    <3> QED
      BY <2>1, <2>5, <3>1
  <2>8. UNCHANGED <<zone, cache>>
    BY <1>7 DEF DeleteRecord
  <2>9. run'.want \ run'.adds \subseteq KeysOf(Records)'
    <3>1. ASSUME NEW k \in run.want PROVE k \in KeysOf(Records)'
      <4>1. PICK r \in Records : r.key = k
        BY <2>1 DEF KeysOf
      <4> QED
        BY <2>3, <2>4, <4>1 DEF KeysOf
    <3> QED
      BY <2>6, <3>1
  <2>10. run'.drops = {r \in Managed(Records') : r.key \notin run'.want}
    BY <2>1, <2>4, <2>6 DEF Managed
  <2> QED
    BY <2>1, <2>6, <2>7, <2>8, <2>9, <2>10 DEF Undisturbed, At
<1>8. CASE ZoneDone
  <2>1. Applying /\ run.adds = {} /\ run.drops = {}
    BY <1>2, <1>8 DEF ZoneDone, Undisturbed, At
  <2>2. run' = Idle /\ status' = "ok" /\ served' = run.want /\ UNCHANGED <<server, zone>>
    BY <1>8, <2>1 DEF ZoneDone, Ends, serverVars
  <2>3. KeysOf(Records) \intersect Keys = run.want
    <3>1. run.want \subseteq Keys
      BY <1>2 DEF RunType
    <3>2. \A r \in Records : r.key \in Keys => r.key \in run.want
      BY <2>1 DEF Managed
    <3> QED
      BY <2>1, <3>1, <3>2 DEF KeysOf
  <2>4. Holds(served)'
    BY <2>2, <2>3 DEF Holds, KeysOf, Records
  <2> QED
    BY <2>1, <2>2, <2>4 DEF Undisturbed, At, Idle
<1> QED
  BY <1>3, <1>4, <1>5, <1>6, <1>7, <1>8 DEF RunStep

LEMMA StepsStayCalm ==
    ASSUME IInv, Calmly, [Next]_vars
    PROVE  Calmly'
<1>1. CASE UNCHANGED vars \/ EditRecords
  <2>1. UNCHANGED <<zone, server, lastId, cache, run, status, served, calm>>
    BY <1>1 DEF EditRecords, Edited, vars, serverVars
  <2> QED
    BY <2>1 DEF Calmly, Undisturbed, At, Holds, KeysOf, Records, ReadBefore, Managed
<1>2. CASE Operator \/ ListCutShort \/ CallFails
  <2>1. calm' = FALSE
    BY <1>2 DEF Operator, OperatorAdds, OperatorRemoves, OperatorChanges,
       OperatorMovesZone, ListCutShort, CallFails
  <2> QED
    BY <2>1 DEF Calmly
<1> QED
  BY <1>1, <1>2, RunStaysCalm DEF Next

\* A run that no operator and no failing or incomplete call has disturbed is honest,
\* however many records there are and however many go on a page: it succeeds
\* exactly when the zone is there, and then the zone holds what was to be in it.
THEOREM ReportIsHonest == Spec => []ReportHonest
<1>1. Init => Calmly
  BY DEF Init, Calmly
<1>2. IInv /\ Calmly /\ [Next]_vars => Calmly'
  BY StepsStayCalm
<1>3. Spec => [](IInv /\ Calmly)
  BY <1>1, <1>2, Invariance, PTL DEF Spec
<1>4. Calmly => ReportHonest
  BY DEF Calmly, Undisturbed, ReportHonest
<1> QED
  BY <1>3, <1>4, PTL

=============================================================================
