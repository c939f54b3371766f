# netdb in TLA+

netdb is an inventory of hosts, NICs, addresses, subnets and zones in one SQLite
file. It makes DNS records from it, keeps them in step at Technitium and
Cloudflare, pushes subnets and reservations to a Kea DHCP server and reads Kea's
leases back. The modules here model the parts where that can go wrong: what runs
at the same time, what is read before it is used, what fails half-way, and what
must come about in the end. TLC checks them on small instances; TLAPS proves some
of what is checked for every value of the constants.

Paths below are relative to `src/`.

## 1. Inventory

| Component | State it keeps | Operations | Talks to |
|---|---|---|---|
| Run loops: `Reconciler`, `Syncer`, `LeasePoller` (`internal/reconcile`, `internal/kea`) | trigger channel of capacity 1, ticker, last status behind a mutex | `Start`, `Trigger`, `Status`, `runOnce` | handlers trigger; `main` cancels |
| Reconciler (`internal/reconcile/reconcile.go`) | none between runs | list providers, zones, desired and actual records; add, delete | store, provider adapters |
| Synth (`internal/synth/synth.go`) | none; the `source='auto'` rows of `dns_records` and their `dns_bindings` are its output | `Run` | store; called by the web handlers, never by MCP tools or by a timer |
| Lease poller (`internal/kea/leasepoll.go`, `internal/store/dhcp_leases.go`) | none; rows of `hosts`, `nics`, `ip_assignments` | `UpsertDynamicLease`, `DeleteStaleDynamic` | Kea, store |
| Kea config builder, client (`internal/kea/config.go`, `client.go`) | none | `BuildConfig`, `ConfigSet`, `ListLeases4` | store, Kea's control agent |
| Store (`internal/store`) | the tables; WAL, foreign keys on, a pool of connections | create, update, delete, link, list | SQLite |
| Migrations (`Migrate`, `store/migrations/*.sql`) | `schema_migrations`, one row per migration taken | run before anything is served | SQLite, other processes on the same file |
| Adapters (`internal/dnsprov/*`) | API token, zone-id cache (of one run: a client is built per run) | `EnsureZone`, `ListRecords`, `AddRecord`, `DeleteRecord` | Technitium, Cloudflare |
| Web handlers (`internal/httpx`) | none | one per mutation: commit, then `resync` = `synth.Run`, `rec.Trigger`, `kea.Trigger` | store, synth, loops |
| MCP server (`internal/mcp`) | the tool table, fixed after start | one tool per mutation: commit, `go Reconciler.Trigger()` | store, reconciler, Kea syncer for subnet tools |
| Program (`cmd/netdb/main.go`, `internal/config`) | the application context | start three loops and the HTTP server, cancel on a signal | all |
| `tools/dhcp-probe`, templates, deployment files | none | - | - |

Who interacts how: handlers run concurrently and share nothing but the database.
A mutation is one transaction; the synth run after it is five or more separate
reads and one transaction, under no lock. The loops read the same tables with
separate queries, then act on providers and on Kea with calls that can fail or
time out after having taken effect. Operators edit the providers' zones by hand,
and Kea restarts empty.

What makes each part correct, and what is hard about it:

* **Loops.** No trigger is lost, whatever a run is doing when it comes; failures,
  silent commits and a target that restarts are made good by the ticker; the loop
  ends on cancellation although `select` may prefer other branches.
* **Reconciler.** Runs converge, from any provider state and after any cut, and
  stop changing things once they have; a clean status is true; a name is not
  without records while it is being changed; records of other types stay.
* **Synth.** After a run, exactly the records the inventory calls for and no
  manual record overrides; several runs at once do not spoil that for good.
* **Lease poller.** Rows that users entered are not touched; a leased address is
  not pruned; after a poll the dynamic rows are the leases. How far that goes depends
  on how Kea spells its addresses (section 2, Leases).
* **Kea.** A success that nothing has overtaken means that Kea has what both
  tables hold, although they are read one after the other; what Kea refuses stays
  refused until somebody edits, and the status must say so.
* **Adapters.** A listing comes in pages that need not fit together, and ids that
  were looked up go stale; no wanted or unmanaged record may be lost to that.
* **Store.** Constraints and cascades hold; row ids come back after a delete, so
  an id that was read earlier may name another row.
* **Migrations.** Each is taken once, whole and in order, by whatever process; none
  serves without those it knows.
* **The whole.** No change is forgotten on its way from a handler through synth and
  trigger to the provider.

The hazards, each with its line and the properties that watch it, are in
`PROJECT.json`.

## 2. Modules

| Module | Models | Source |
|---|---|---|
| `Mirror` | abstract: a target follows a store's versions | - |
| `TriggerLoop` | the loop three components share; implements `Mirror` | `kea/sync.go`, `reconcile.go:93-119`, `leasepoll.go:43-61`, `main.go` |
| `TriggerLoop_proofs` | theorems about it | - |
| `Reconcile`, `MCReconcile`, `Reconcile_proofs` | `runOnce` call by call, with adapters, edits and faults | `reconcile.go:121-284`, adapters, `store/{providers,zones,dns}.go` |
| `RowIds`, `RowIds_proofs` | the ids SQLite gives to rows | `001_initial.sql` (`INTEGER PRIMARY KEY` without `AUTOINCREMENT`) |
| `Leases`, `MCLeases`, `Leases_proofs` | the poll beside users and Kea's clients | `leasepoll.go`, `dhcp_leases.go`, `store/{hosts,nics,ips}.go` |
| `Synth`, `MCSynth` | `synth.Run` query by query, several at once, beside all mutations | `synth.go`, the handlers, the schema |
| `Netdb`, `MCNetdb`, `Netdb_proofs` | composition: handlers and tools, `Synth`, the trigger, the reconciler, restarts of the process | `httpx/dns.go:99-127`, `mcp/tools.go`, `reconcile.go`, `main.go` |
| `KeaConfig` | `BuildConfig` as operators, and what Kea takes | `kea/config.go` |
| `KeaSync`, `MCKeaSync`, `KeaSync_proofs` | the syncer's run query by query, beside edits of both tables | `kea/sync.go`, `kea/client.go`, `store/{subnets,reservations}.go`, `mcp/tools.go` |
| `Cloudflare`, `MCCloudflare`, `Cloudflare_proofs` | one zone at Cloudflare, call by call and page by page | `dnsprov/cloudflare/cloudflare.go`, `reconcile.go:193-252` |
| `Migrate`, `MCMigrate`, `Migrate_proofs` | migrations statement by statement, several processes | `store/store.go`, `store/migrations/*.sql`, `main.go` |

### TriggerLoop

`version` counts committed mutations. A handler `Commit`s and later `Trigger`s;
an edit that triggers nothing is `CommitSilently`; "sync now" and "poll now" are
`SyncNow`. `FillTrigger` is the non-blocking send. `phase` is where the goroutine
of `Start` is: the initial run, the `select` (three `Wake` actions), between the
read and the push. `loaded` is what the run has read, `applied` what the target
holds. Reads fail; pushes fail with or without effect. `client = FALSE` is a loop
whose URL is not configured. The refinement maps `Mirror`'s `closed` to a stopped
loop.

### Reconcile

A step of the model is a query or a call of the code: `ListProviders`,
`ListZones`, `LoadDesired`, `EnsureZone`, `ListRecords`, each `AddRecord`, each
`DeleteRecord`. Go iterates over maps, so adds come in any order, and so do
deletes, but no delete comes before the last add. Providers and zones go by name.
`Fault` is a query or call that fails. The adapters' differences are kept: what
`EnsureZone` creates, whether a duplicate add or a delete of nothing is an error,
which types a listing reports, the trailing dot that does not come back. Providers
are external: they refuse a duplicate and anything beside a CNAME (`Accepts`).
`quiet` counts completed runs since the last edit or fault, up to three.

### Leases

`UpsertDynamicLease` is one transaction; `DeleteStaleDynamic` is a select and
then one delete per id, outside any transaction. Users create and delete hosts,
NICs and addresses in between. Names are tuples, so that only "the same name, the
vendor's suffix, the MAC's own name" can be told apart: what `createDiscoveredHost`
looks at.

Kea's hardware and IP addresses are text (`HWTexts`, `IPTexts`), which `NormalizeMAC`
and `NormalizeIP` turn into a normal form or refuse (`MACOf`, `IPOf`, `Unparsable`).
The rows hold normal forms, but the poll remembers a lease by its text
(`leasepoll.go:100`) and the prune compares the rows with that (`dhcp_leases.go:133`).
So a lease in another spelling is stored and pruned by every poll, and one that does
not parse is never stored (`Refused`), while the poll reports success; both happen in
the instance, and the properties say which leases they are about (`Normal`, or a row
that is spelled as Kea spells it). Kea has one lease per address and may have several
per device. `Leasable` are the leases it may grant, `Known` the hosts there are at the
start. The rows of a query that ends early are all the poll gets, since nobody asks
for the error (`SelectCutShort`); the stale rows it misses stay until the next poll.

`run.reborn` are ids given out during the prune (history, used in
properties only), `calm` says that nothing has changed, failed or been cut short
since the latest read of the leases.

### Synth

`db` holds the tables; a mutation is a function of it, with the cascades. A
handler's mutation starts its run (`Resyncs`), one of a tool or of the poller, or
of a handler that fails before its resync, does not (`Silent`). The run reads
hosts, subnets, the links of one subnet after the other, and the addresses of one
host after the other, in any order; then the manual keys; then `Apply` is the
transaction, which is rolled back (`ApplyRejected`) when a row it refers to has
gone or a key has been entered by hand. A NIC is folded into its host, since
deleting either takes the addresses along. A subnet is known by its CIDR; when that
is edited (`UpdateSubnet`) the links go along, as the row keeps its id. A run that
has listed the old CIDR and not yet its links then finds none, where the code finds
the row's by id; it is a disturbed run in either case, of which nothing is claimed. Which zones an address's reverse name
ends in is a constant (`Covers`), so the suffix test is not spelled out.
`settled` says that a run wrote the records and nobody has mutated anything since
that run began.

### Netdb

Extends `Synth`. A handler that `Serve`s commits, carries its run of synth through
(`Synthesizes`, `SynthFails`) and only then `Trigger`s, which `resync` does even
after a failed run and `syncNow` does not (`After`). A tool commits and triggers
from a goroutine of its own (`CallTool`, `ToolTriggers`); the poller, and a handler
that fails after its commit, trigger nothing, and `untold` remembers that. The
reconciler takes its zones one after the other, reads one and writes it; the calls
of a write are one step, which may fail half-way (`WriteFails`), since `Reconcile`
and `Cloudflare` have them one by one. `Restart` loses requests, token and runs and
keeps tables and provider. The instance starts with an inventory that nothing has
synthesized: that is also what a kill between a commit and its resync leaves.

### KeaConfig, KeaSync

CIDRs are numbered as their texts sort, which is how they are listed and hence who
gets a reservation in nested subnets. Addresses are tuples of octets, so that the
expansion of a short bound is what the code does with octets. Containment compares
octet by octet what the prefix fixes of each (`Block`), which needs no fold over
octets and can therefore be proved about; for two octets and every prefix length it
was compared with a shift of the whole address. `Build` is `BuildConfig` from what its two queries read.
Kea (external) refuses a configuration whole: a pool outside its subnet or
reversed, an address or device reserved twice in a subnet, a subnet that is not
IPv4. `owing` counts handlers between commit and trigger; `unseen` says that there
was an edit nobody triggers for, or a restart of Kea, since the subnets were read.
`Restart` loses the owed triggers and the token; the first run makes up for them.

### Cloudflare

`Reconcile` takes a listing as one step; here it comes page by page, what is on a
page and how many there are being decided when it is asked for. Records have ids;
deletes go by id, so a record edited in place since is deleted as what it has
become. The zone has an id as well, which a run's client caches, and operators may
remove the zone and add it again under another one. The `actual` map is keyed by
name, type and value, so a later page's record replaces an earlier one's
(`Listed`). An answer without `result_info` counts as the last page
(`ListCutShort`). `calm` is history: no operator and no failing or incomplete call
since the run began.

### Migrate

Each process creates the version table, reads the versions, and takes each missing
migration in a transaction: body, version row, commit. SQLite has one writer; a
second one waits and is refused in the end (`LockedOut`). `Crash` rolls back what is
under way. Builds differ in how many migrations they know. A body that is already in
effect is refused: each of the three migrations begins with a statement that cannot
be executed twice.

## 3. Runs

| Run | Question | Bounds |
|---|---|---|
| `trigger_loop` | Is a trigger ever lost, does the target ever go back or stay behind, does the loop stop? | 2 handlers, 3 mutations, 1 restart: a mutation before, during and after a run |
| `reconcile` | Is a clean status true, do two runs suffice and later ones do nothing, is a wanted name or type ever left without records before an addition was refused or failed, are other types kept? | 2 providers of both kinds, 1 zone whose one name moves among two addresses, both, none and an alias; 2 strays; 2 edits |
| `reconcile_live` | Do runs bring a provider in line for good, although calls keep failing and the provider before it is not configured? | 2 providers, the first skipped, address or alias, 2 edits |
| `reconcile_dotted` | Is a second run a no-op? No: see below | no edits |
| `leases` | Are users' and leased rows safe, does a poll reflect the leases, does polling settle? | 2 devices of one vendor and 2 addresses, colliding and missing hostnames, a name and its suffixed form taken at the start, 1 lease in capitals and 1 that does not parse, 3 changes |
| `leases_survive` | Does a static address survive the prune? No | 2 devices and 2 addresses in normal form, no hosts, 4 changes |
| `synth` | Do undisturbed runs leave exactly the records called for, also side by side? | 2 handlers, 2 labels, 2 addresses, nested subnets, forward and reverse zone, 2 mutations or faults |
| `synth_ptr` | Is a PTR's value its target? No | no mutations needed |
| `netdb` | Does every change reach the provider, and does the button repair the rest? | 2 handlers, tools, 1 host with 1 address, 1 zone, 1 mutation or fault on top of an unsynthesized inventory |
| `kea` | Has Kea what the tables hold when the syncer says so, and in the end? | 4 CIDRs (two nested, IPv6, garbage), 4 pool entries (none, a short form, reversed, garbage), 3 reservations that collide, 2 edits, 1 restart of Kea or of netdb |
| `cloudflare` | Is the report true, is a wanted record ever deleted, is the zone in line in the end? | 2 managed keys and 1 unmanaged, pages of 1 record, listings that may end at any page, 3 edits |
| `migrate` | Is each migration taken once and whole, and do all processes come to serve? | 3 processes of 2 builds, 3 migrations, 2 faults |

Why the bounds are enough. One name shows every order of adds and deletes, since
names meet only in a CNAME's exclusion, which is per name; two providers show that
one's failure leaves the other alone. Two devices, two addresses and one vendor
give every collision; three changes allow a grant, an edit by a user and an expiry,
or two leases and an edit, and a fourth, in `leases_survive`, the deletion that frees
an id. Only one lease is spelled otherwise, as two that every poll stores and prunes,
with deletes that fail, would use up ids without end. For synth, a stale run needs one mutation during
it, and an id that comes back needs a delete and an insert. For `netdb`, one
mutation meets a run of the reconciler, a second handler's run of synth, a restart
or a tool at any point; the bound of one is per mutation *or* fault, and the
unsynthesized start stands for a commit that has already happened. For `kea`, one
edit between the two queries and another before or after them are what makes what
was read a mixture. Pages of one record make every change shift pages; two octets
are enough to have a short bound, and a prefix that cuts through an octet. The
counters (`edits`, `version`, `restarts`, `faults`) are bounded by guards; a run is never bounded,
so after the last edit the system runs for ever, which is what the liveness
properties are about.

Mutants. Each property of a passing run has a definition of the model that, when
replaced by a plausible slip (the modules' comments call them mutants), makes TLC
report that property.

### Fairness

* Loops: the goroutine is scheduled, the ticker ticks, `select` is random, so a
  branch ready again and again is taken (strong fairness of `WakeOnDone`). Reads
  and pushes that are tried again and again do not fail every time; without this
  nothing could be promised, and the code has no other remedy than its ticker.
* Reconciler, poller, Kea syncer, Cloudflare: runs start for ever (ticker) and
  proceed; strong fairness of each query and call, for the same reason. The poller's
  is per leased address and per row to prune, since each has a statement or a
  transaction of its own and a lease spelled otherwise gives every poll one of each.
  At Cloudflare it is per page and per record to add: after an incomplete listing a
  run tries to add records that are there already, and those refused adds must not
  stand for the one that is missing.
* Synth and Netdb: a handler carries its run through and triggers, a tool's
  goroutine triggers, the reconciler's goroutine is scheduled and its ticker ticks:
  weak fairness throughout, with faults bounded. That runs of synth are started
  again is an assumption stated in `Converges` itself, since no timer starts one.
* Migrate: processes are scheduled, and started again when they have ended (the
  compose file's restart policy); faults are bounded.

## 4. What the checks found

Runs with `violation` state what the repository says and show what the code does.

1. `reconcile_dotted`. A CNAME entered with a trailing dot is listed without it, so
   the keys differ and runs alternate: one adds the record; the next one's add is
   refused, as the record exists, and its delete removes it; the one after that adds
   it again. The name is absent after every second run. The reconciler's test calls a
   second run a no-op.
2. `leases_survive`. The prune deletes by ids it selected outside a transaction.
   When the last row goes in between and a user enters a static address, SQLite
   gives it the old id, and the prune deletes it.
3. `synth_ptr`. Automatic PTRs are bound to their address, and the query that
   feeds the reconciler prefers the bound address to the target, so the address is
   pushed as the PTR's value.

Seen while reading and not turned into runs, because they follow from a single
line: a changed TTL never reaches a provider (`reconcile.go:226` compares keys
without it, `dnsprov/types.go:25` says it does); TXT records made elsewhere are
deleted (`cloudflare.go:164` against its comment and quirk 5); a run goes on
writing to a zone that was unlinked under it (`reconcile.go:166`, quirk 5); a
third device of a vendor with the same hostname is never stored
(`dhcp_leases.go:76`); a lease that Kea does not spell in normal form is stored and
pruned by every poll, and one that does not parse is never stored, though the poll
reports success (`leasepoll.go:100`, `dhcp_leases.go:23`, `133`); a select that ends
early counts as complete (`dhcp_leases.go:126-137`, without `rows.Err()`, as in
`store.go:55`), and so does a listing of Cloudflare's without `result_info`
(`cloudflare.go:204`); `link_subnet_zone` of the MCP tools promises synthesized
records but nothing runs synth (`mcp/tools.go:371`, `394`); `delete_subnet` and
`delete_zone` say they fail while something refers to the row, but the schema
sets null and cascades (`mcp/tools.go:350`, `466`); a Technitium token is created
at every run, not once per process (`reconcile.go:260`, quirk 12); `update_host`
and `update_subnet` of the MCP tools say that omitted fields stay
(`mcp/tools.go:78`, `303`) but blank them, `dns_enabled` included; an IPv6 subnet
goes into `subnet4` and Kea refuses everything, where quirk 10 says only the pool
is dropped; a short bound such as `99` in a /25 may expand outside the subnet and
have the whole configuration refused, which `config.go:114` says is avoided.

Of several runs of synth at once, one that read the manual keys first may write
last and bring back a record that a manual one overrides (quirk 6 has "Manual
wins"), or be stale in another way. Quirk 14 says that "the next timer tick
converges anyway". `netdb` shows in which sense: the provider follows the tables
without further help (`ProviderFollows`), but stale or missing automatic records
stay in the tables until somebody makes synth run again, which is what `Converges`
assumes. The same holds after a kill between a commit and its resync.

## 5. Proofs

Every invariant and every action property that a passing run checks is also proved,
for arbitrary values of the constants, under these assumptions in the modules:

* bounds are naturals (`BoundsAreNaturals`, `BoundIsNatural`), providers, zones and
  CIDRs are numbered in the order the code lists them (`NumberedByName`,
  `NumberedByText`), migrations are numbered (`MigrationsAreNumbered`), pages hold
  records (`PagesHoldRecords`);
* records are the four fields the code compares (`RecordsAreRecords`), no key is of a
  managed and of an unmanaged type (`KindsDiffer`), an address is of one of two
  families (`TwoFamilies`), keys entered by hand are keys (`ManualKeysAreKeys`), an
  IPv4 subnet has an address and a prefix length no longer than that
  (`NetworksAreAddresses`), and bounds of pools are numbers (`NumbersAreTyped`);
* a normal form is a text and its own normal form (`Normalisation`), leases are made of
  texts (`LeasesAreTexts`), and known hosts have names (`KnownNames`);
* the tables satisfy the schema to begin with (`SeedIntact`, `SeedsAreRows`). Of a
  table with ids `SeedIntact` also asks that one is the last (`HasLast`): tables are
  finite, and the id SQLite gives to a new row depends on it.

Four theorems about the reconciler need more of the store, and state it as a
hypothesis, because without it they are false. `Listable`: what is wanted is of a
managed type and typed without a trailing dot; on the instance of `reconcile_dotted`
all four properties fail. `Compatible`, for two of them: no wanted record excludes another one, or is excluded by one
that netdb leaves alone; the provider refuses such a record in every run. TLC checks
that the instance of `reconcile` satisfies both (`CanBeFollowed`), and `reconcile`
itself goes through stores that replace a record by one it excludes.

* `TriggerLoop_proofs`: type correctness; `StatusHonest`; and that every step of
  the loop is a step or a stutter of `Mirror` (`LoopIsMirror`), for any number of
  handlers and mutations. The inductive invariant adds to type correctness that
  `applied <= loaded <= version` and nothing triggered or owed is ahead of
  `version` (`Ordered`), and that while a run pushes, or after it has succeeded,
  either a token is in the channel or the run had read all that was triggered
  (`NotLost`). The second part is what makes it harmless that a full channel
  drops a trigger.
* `RowIds_proofs`: the id of a new row is free. Rather than finiteness, tables
  carry a bound on their ids (`Bounded`); the least bound exists because `<` is
  well-founded on the naturals, and it is the maximum.
* `Leases_proofs`: the schema's constraints (`TypeCorrect`), and the two action
  properties `UserRowsKept` and `LeasedRowsKept` as `UsersKeepTheirRows` and
  `LeasesKeepTheirRows`. The inductive invariant is type correctness, bounded ids,
  and `Marked`: a row whose id the prune has selected and which was not inserted
  during the prune is still dynamic and still spelled like no lease the poll has
  seen. Nothing is assumed of normal forms beyond `Normalisation`. Leaving
  out the rows inserted during the prune is necessary: `leases_survive` shows
  what happens to them. `PollReflects`, as `PollsReflect`, adds what holds as long
  as nobody disturbs a poll (`Follows`): a lease in normal form that is not to be
  stored any more is `Accounted` for, by a row or by being `LeftOut`, and storing
  another lease does not undo that. A device may have several leases, so one that was
  refused for want of a name may see its device brought in by another; that one has
  another name to offer, which is what `LeftOut` says. Then the ids selected for the
  prune are just the dynamic rows that no lease is spelled like.
* `Reconcile_proofs`: type correctness, and `UnmanagedKept` as `UnmanagedSurvive`.
  The inductive invariant is type correctness, `Placed` (a run that works on a
  zone works on a provider and zone there are, and has adds in hand only while it
  applies a delta) and `Managing` (the deletes in hand are all of managed types).
  `Managing` is what a delete needs, as it names a type and value and not the
  record the listing showed.
  `ReportHonest` (`StatusIsHonest`) and `NoOutage` (`ReplacingIsSeamless`) rest on
  what a run `Knows` while nobody has edited and nothing has failed: it has what the
  store wants, its deletes are exactly what the zone has too much, its adds, unless
  one was refused, exactly what it lacks, and zones it calls in sync are. A provider
  may still refuse an add then, because of a CNAME that the deletes will only take
  away later; `NoOutage` claims nothing after that, and indeed an alias given a new
  target leaves its name without an answer until the next run. Until then a wanted
  name that resolves keeps resolving, and so does each type that is wanted of it. Hence `TwoRunsSuffice` (`TwoRunsAreEnough`) and `FurtherRunsAreNoOps`
  (`NothingFlaps`) go level by level (`Levelled`): an undisturbed run leaves a zone
  without anything unwanted, the next one adds all that is missing, and a third has
  nothing to do. Zones are carried through a run as ahead of it, in hand, or a level up.
* `Migrate_proofs`: type correctness, `WholeMigrations` and `ServesMigrated`, for any
  processes, builds and migrations. The invariant says that who writes holds the
  lock (`Locked`), that what a process has read or passed over is recorded
  (`Passed`), and that a transaction's draft is the file and the statements taken so
  far, of a migration that is not recorded yet (`Drafted`).
* `Netdb_proofs`, about `Synth`, which `Netdb` extends: type correctness with the
  schema's constraints (`SynthTypeCorrect`) and `RunsAreExact` (`SynthIsExact`), both
  again for the whole system (`SystemTypeCorrect`, `SystemIsExact`). The inductive
  invariant (`SynthInv`) says of the tables that foreign keys and UNIQUE constraints
  hold (`Constrained`), and of a run that bears the mark `undisturbed` that it
  `HasRead` the tables: what it has copied is what they have, and the entries it has
  built `Describe` the addresses whose hosts it has gone through. Every mutation takes
  the mark from all runs, a run's own write does not; so two such runs, side by side,
  write the same. The constraints are needed on the way: if a host could have an
  address twice, one PTR would bind two rows, and a reverse zone that is gone could
  be the first that covers an address.
* `Netdb_proofs`, about the way to the provider: `NothingForgotten`, as
  `NoChangeForgotten`. The system is `Loud`
  while something still has to trigger the reconciler, or has, or has changed the
  tables without triggering. While it is not, each zone is `Carried`: ahead of the
  run, in hand with the records the tables have, or in sync at the provider, unless
  a write has failed. A step that changes the tables leaves the system loud, which
  for a run of synth is so because its handler triggers after it; a run of the
  reconciler begins with every zone ahead of it and may end the loudness.
* `Cloudflare_proofs`: type correctness and `WantedKept`, as `WantedIsKept`. The
  invariant is that ids and keys in the zone are distinct and no id is above
  `lastId` (`Listing`), and that what a run has listed or means to delete is of a
  managed type and, if its id is still there, is the record that is there unless
  that was changed in place (`Seen`): a delete by id hits what was listed, or
  nothing. `ReportHonest`, as `ReportIsHonest`, adds what holds while only the run
  touches the zone (`Calmly`): what is listed is the managed part of the pages read
  (`ReadBefore`), no two pages have a key in common, and behind the last page there
  is nothing (`LastPageIsLast`, by the bounds of integer division), so the delta is
  what the zone lacks and has too much, and stays that from call to call.
* `KeaSync_proofs`: type correctness, and `InStep` as `SuccessIsTrue`. The run is
  `Current` while nobody owes a trigger, none is pending and nothing has changed
  unseen; then what it has in hand is what the tables hold now (`InHand`). That
  `Build` reflects its arguments rests on `OnePlace`: of the subnets that contain an
  address there is a first one, as CIDRs are numbers. `ShortFormsFit`, as
  `ShortBoundsFit`, is a lemma about the expansion (`FilledFits`) and type
  correctness: the leading octets are the network's, and the others are free.

Model-checked only: the liveness properties (`MirrorCatchesUp`, `ShutsDown`,
`Reconcile`'s and `Cloudflare`'s `Converges`, `Settles`, `EventuallyServes`, `Follows`,
and `Netdb`'s `ProviderFollows` and `Converges`), since the prover does not do
fairness and ENABLED; and the `violation` runs, which are counterexamples.

## 6. Left out, and the plan

Not modelled: `dhcp-probe` (a packet tool without state), templates, basic auth, the
JSON-RPC envelope and argument decoding, read-only tools, page listings, counters
and durations in statuses, TTLs, Kea's option data, the Technitium client's token
(a client lives for one run; a session that expires is a failing call, which
`Reconcile` has), and the network below a call.

What remains worth doing: `Cloudflare` as an implementation of the provider that
`Reconcile` assumes, while no operator interferes (`ReportIsHonest` has most of the
invariant); and the runs of `TriggerLoop` as an abstraction of the reconciler's loop
inside `Netdb`, which has that loop spelled out zone by zone.
