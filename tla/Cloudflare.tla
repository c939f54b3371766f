------------------------------ MODULE Cloudflare ------------------------------
(***************************************************************************)
(* One zone at Cloudflare, call by call.  Reconcile takes a listing and a  *)
(* provider's zone as one step and one thing; here the zone has an id,     *)
(* which a run's client looks up once, the listing comes page by page, and *)
(* a record is deleted by the id it was listed with.  Operators change     *)
(* records, and the zone itself, between any two of these calls.           *)
(***************************************************************************)
EXTENDS Naturals, Sequences, FiniteSets

CONSTANTS
    Keys,        \* name, type and value of records of the managed types
    Unmanaged,   \* the same of records of other types
    PageSize,    \* records on a page: 100 in the code
    MaxEdits     \* bound: edits by handlers and operators together

ASSUME PagesHoldRecords == PageSize \in Nat \ {0}
ASSUME BoundIsNatural == MaxEdits \in Nat
ASSUME KindsDiffer == Keys \intersect Unmanaged = {}

VARIABLES
    want,     \* what the store wants in the zone
    zone,     \* the id of the zone at Cloudflare, 0 when there is none
    server,   \* its records in the order of listings: sequence of [id, key]
    lastId,   \* the latest id given to a zone or a record
    cache,    \* the client's zone cache: an id, or 0
    run,      \* the run under way
    status,   \* the outcome of the latest run
    served,   \* what the latest run had loaded from the store
    calm,     \* no operator and no failing or incomplete call since the run began
    edits

serverVars == <<zone, server, lastId>>
vars == <<want, serverVars, cache, run, status, served, calm, edits>>

AnyKey == Keys \union Unmanaged
Idle == [phase |-> "idle", want |-> {}, page |-> 1, listed |-> {}, adds |-> {},
         drops |-> {}, edited |-> {}, failed |-> FALSE]
At(phase) == run.phase = phase

Records == {server[i] : i \in DOMAIN server}
KeysOf(R) == {r.key : r \in R}

TypeOK ==
    /\ want \subseteq Keys /\ served \subseteq Keys
    /\ {zone, cache} \subseteq 0..lastId
    /\ \A i \in DOMAIN server : server[i].key \in AnyKey /\ server[i].id \in 1..lastId
    /\ \A i, j \in DOMAIN server :
        server[i].id = server[j].id \/ server[i].key = server[j].key => i = j
    /\ run.phase \in {"idle", "ensure", "list", "apply"}
    /\ run.adds \subseteq run.want
    /\ KeysOf(run.listed \union run.drops) \subseteq Keys
    /\ status \in {"never", "ok", "failed"}
    /\ calm \in BOOLEAN
    /\ edits \in 0..MaxEdits

Init ==
    /\ want \in SUBSET Keys
    /\ zone = 1
    /\ server = <<>>
    /\ lastId = 1
    /\ cache = 0
    /\ run = Idle
    /\ status = "never"
    /\ served = {}
    /\ calm = FALSE
    /\ edits = 0

-----------------------------------------------------------------------------
\* Handlers and operators

Edited ==
    /\ edits < MaxEdits
    /\ edits' = edits + 1
    /\ UNCHANGED <<cache, status, served>>

EditRecords ==
    /\ want' \in SUBSET Keys \ {want}
    /\ Edited
    /\ UNCHANGED <<serverVars, run, calm>>

Append1(k) == Append(server, [id |-> lastId + 1, key |-> k])

OperatorAdds(k) ==
    /\ zone # 0
    /\ k \notin KeysOf(Records)
    /\ server' = Append1(k)
    /\ lastId' = lastId + 1
    /\ calm' = FALSE
    /\ Edited
    /\ UNCHANGED <<want, zone, run>>

RemoveAt(n) == [i \in 1..(Len(server) - 1) |-> server[IF i < n THEN i ELSE i + 1]]

\* Without the record that has the id, if there is one.
RemovesId(id) ==
    \/ \E n \in DOMAIN server : server[n].id = id /\ server' = RemoveAt(n)
    \/ (\A n \in DOMAIN server : server[n].id # id) /\ UNCHANGED server

OperatorRemoves(r) ==
    /\ RemovesId(r.id)
    /\ calm' = FALSE
    /\ Edited
    /\ UNCHANGED <<want, zone, lastId, run>>

\* In place: the record keeps its id.
OperatorChanges(r, k) ==
    /\ k \notin KeysOf(Records)
    /\ server' = [i \in DOMAIN server |->
                    IF server[i] = r THEN [r EXCEPT !.key = k] ELSE server[i]]
    /\ run' = IF At("idle") THEN run ELSE [run EXCEPT !.edited = @ \union {r.id}]
    /\ calm' = FALSE
    /\ Edited
    /\ UNCHANGED <<want, zone, lastId>>

\* The zone is removed from the account, or added to it again: with a new id.
OperatorMovesZone ==
    /\ IF zone = 0
       THEN zone' = lastId + 1 /\ lastId' = lastId + 1
       ELSE zone' = 0 /\ UNCHANGED lastId
    /\ server' = <<>>
    /\ calm' = FALSE
    /\ Edited
    /\ UNCHANGED <<want, run>>

-----------------------------------------------------------------------------
\* A run for the zone

Ends(s) ==
    /\ run' = Idle
    /\ status' = s
    /\ served' = run.want

Fails == Ends("failed")

Steps == UNCHANGED <<want, edits>>

\* Mutant: one client for the life of the process.
LoadDesiredKeepingClient ==
    /\ At("idle")
    /\ run' = [Idle EXCEPT !.phase = "ensure", !.want = want]
    /\ calm' = TRUE
    /\ Steps /\ UNCHANGED <<serverVars, cache, status, served>>

\* newClient gives every run a client with an empty cache.
LoadDesired ==
    /\ At("idle")
    /\ run' = [Idle EXCEPT !.phase = "ensure", !.want = want]
    /\ cache' = 0
    /\ calm' = TRUE
    /\ Steps /\ UNCHANGED <<serverVars, status, served>>

\* zoneID: from the cache, or looked up by name and cached.
EnsureZone ==
    /\ At("ensure")
    /\ cache' = IF cache # 0 THEN cache ELSE zone
    /\ IF cache' # 0
       THEN run' = [run EXCEPT !.phase = "list"] /\ UNCHANGED <<status, served>>
       ELSE Fails
    /\ Steps /\ UNCHANGED <<serverVars, calm>>

\* What Cloudflare answers: the page, and how many there are.
Page(n) == {server[i] : i \in {j \in DOMAIN server : (j - 1) \div PageSize = n - 1}}
TotalPages == (Len(server) + PageSize - 1) \div PageSize

\* Mutant: the last page is not asked for.
LastPageOffByOne(n) == n + 1 >= TotalPages

LastPage(n) == n >= TotalPages

Delta(listed) ==
    [run EXCEPT !.listed = {},
                !.adds = run.want \ KeysOf(listed),
                !.drops = {r \in listed : r.key \notin run.want},
                !.phase = "apply"]

\* Mutant: records of every type are listed.
OfEveryType(R) == R

\* managedTypes: the others are not listed, and so never deleted.
Managed(R) == {r \in R : r.key \in Keys}

\* By key: a record on a later page replaces the one of an earlier page.
Listed ==
    LET new == Managed(Page(run.page)) IN
    {r \in run.listed : r.key \notin KeysOf(new)} \union new

\* One page; after the last one, the delta.
ListRecords ==
    /\ At("list")
    /\ cache = zone
    /\ run' = IF LastPage(run.page) THEN Delta(Listed)
              ELSE [run EXCEPT !.listed = Listed, !.page = @ + 1]
    /\ Steps /\ UNCHANGED <<serverVars, cache, status, served, calm>>

\* An answer without result_info: its total_pages is 0, and the page counts as the
\* last one.
ListCutShort ==
    /\ At("list")
    /\ cache = zone
    /\ ~LastPage(run.page)
    /\ run' = Delta(Listed)
    /\ calm' = FALSE
    /\ Steps /\ UNCHANGED <<serverVars, cache, status, served>>

\* The id is no longer that of a zone.
ListRefused ==
    /\ At("list")
    /\ cache # zone
    /\ Fails
    /\ Steps /\ UNCHANGED <<serverVars, cache, calm>>

Creates(k) ==
    IF cache = zone /\ k \notin KeysOf(Records)
    THEN server' = Append1(k) /\ lastId' = lastId + 1
    ELSE UNCHANGED <<server, lastId>>

\* An identical record is refused, and so is the id of a zone that has gone.
AddRecord(k) ==
    /\ At("apply")
    /\ k \in run.adds
    /\ Creates(k)
    /\ run' = [run EXCEPT !.adds = @ \ {k}, !.failed = @ \/ server' = server]
    /\ Steps /\ UNCHANGED <<zone, cache, status, served, calm>>

Deletes(r) == IF cache = zone THEN RemovesId(r.id) ELSE UNCHANGED server

\* Whatever the record with that id is by now.
DeleteRecord(r) ==
    /\ At("apply")
    /\ run.adds = {}
    /\ r \in run.drops
    /\ Deletes(r)
    /\ run' = [run EXCEPT !.drops = @ \ {r}, !.failed = @ \/ server' = server]
    /\ Steps /\ UNCHANGED <<zone, lastId, cache, status, served, calm>>

ZoneDone ==
    /\ At("apply")
    /\ run.adds = {} /\ run.drops = {}
    /\ IF run.failed THEN Fails ELSE Ends("ok")
    /\ Steps /\ UNCHANGED <<serverVars, cache, calm>>

\* No answer, or one that cannot be decoded.
CallFails ==
    /\ calm' = FALSE
    /\ \/ /\ At("ensure") \/ At("list")
          /\ Fails
          /\ UNCHANGED <<server, lastId>>
       \/ \E k \in run.adds :
            /\ Creates(k) \/ UNCHANGED <<server, lastId>>
            /\ run' = [run EXCEPT !.adds = @ \ {k}, !.failed = TRUE]
            /\ UNCHANGED <<status, served>>
       \/ \E r \in run.drops :
            /\ run.adds = {}
            /\ Deletes(r) \/ UNCHANGED server
            /\ run' = [run EXCEPT !.drops = @ \ {r}, !.failed = TRUE]
            /\ UNCHANGED <<lastId, status, served>>
    /\ Steps /\ UNCHANGED <<zone, cache>>

RunStep ==
    \/ LoadDesired \/ EnsureZone \/ ListRecords \/ ListRefused
    \/ \E k \in run.adds : AddRecord(k)
    \/ \E r \in run.drops : DeleteRecord(r)
    \/ ZoneDone

Operator ==
    \/ \E k \in AnyKey : OperatorAdds(k)
    \/ \E r \in Records : OperatorRemoves(r) \/ \E k \in AnyKey : OperatorChanges(r, k)
    \/ OperatorMovesZone

Next == EditRecords \/ Operator \/ RunStep \/ ListCutShort \/ CallFails

(***************************************************************************)
(* Runs start for ever, and a call made again and again does not fail      *)
(* every time; nor does a listing end early every time at the same page.   *)
(***************************************************************************)
Fairness ==
    /\ WF_vars(RunStep \/ ListCutShort \/ CallFails)
    /\ SF_vars(EnsureZone)
    /\ \A n \in 1..Cardinality(AnyKey) : SF_vars(run.page = n /\ ListRecords)
    /\ \A k \in Keys : SF_vars(k \in run.adds /\ AddRecord(k))
    /\ SF_vars(\E r \in run.drops : DeleteRecord(r))

Spec == Init /\ [][Next]_vars /\ Fairness

-----------------------------------------------------------------------------
Holds(keys) == KeysOf(Records) \intersect Keys = keys

\* A run that no operator and no failing or incomplete call has disturbed succeeds
\* if and only if the zone is there, however many pages the records fill; and then
\* the zone holds exactly what that run had loaded.
ReportHonest ==
    At("idle") /\ calm =>
        /\ status = "ok" <=> zone # 0
        /\ status = "ok" => Holds(served)

\* A run takes away no record that it wants, even if the pages it has read do not
\* fit together, and none of an unmanaged type; except one that an operator has
\* changed in place since.
WantedKept ==
    [][edits' = edits => \A r \in Records :
        r.key \in run.want \union Unmanaged /\ r.id \notin run.edited
            => r \in {server'[i] : i \in DOMAIN server'}]_vars

\* Once handlers and operators have stopped, the zone is brought in line for good,
\* although it may have got another id while a run was under way.
Converges == <>[](zone # 0 => Holds(want))

=============================================================================
