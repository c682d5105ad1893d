# nsp, modelled in TLA+

nsp is a single-binary control plane for WireGuard, Shadowsocks and
SOCKS5/HTTP proxies. SQLite holds the wanted state; three drivers, a
reconciler and a poller of a remote control center keep the running data
planes in step with it. This directory holds TLA+ models of that machinery,
the TLC configurations that check them, and TLAPS proofs about them.
`PROJECT.json` maps every definition to the lines it stands for, and lists the
runs, the mutants, the findings and the hazards.

Paths below are relative to the repository root (`src/` in `PROJECT.json`).

## 1. Inventory

| component | state | operations | talks to |
|---|---|---|---|
| control-center poller, `crates/nsp/src/control.rs` | `server_config.control_cursor`, the response being applied, in-memory issue batch | `/config` tick: settings, users (upsert, delete), iptables, cursor; `/status`; `/report` | users, settings, iptables; wakes the reconciler |
| users repository and admin user API, `crates/db/src/repo.rs`, `crates/api/src/users.rs` | `users` with `source` local or control, protocol flags | create, rename, note, delete; enable, disable, rotate per protocol | drivers; wakes the reconciler |
| WireGuard driver, `crates/wg-driver/src/lib.rs` | `wg_peers`, `inner.subnet`, `inner.ipam`, `inner.started` | enable, disable, rotate, `set_subnet`, `spawn_real`, `prepare`, `stop`, `sync_from_db` | allocator, backend, netctl |
| address allocator, `crates/wg-driver/src/ipam.rs` | set of used addresses of one subnet | `new`, `mark_used`, `allocate`, `release` | WireGuard driver |
| WireGuard backends, `crates/wg-driver/src/backend/` | the device and its peers; the lazy one also caches of installed, unknown and pending keys | `up`, `down`, add, remove, list, first-packet lookup | kernel or boringtun |
| traffic accounting, `wg-driver/src/traffic.rs`, `crates/db/src/traffic.rs` | last raw counters, totals, buckets | sample, `record` with reset detection | backend, SQLite |
| Shadowsocks driver, `crates/ss-driver/src/driver.rs` | `ss_credentials`, listen address, server task with its token, apply channel and loop, `running` | enable, disable, rotate, `set_listen`, `start`, `stop`, `do_swap` | shadowsocks-service |
| proxy driver, `crates/proxy-driver/src/` | `proxy_credentials`, auth map, listeners, apply loop | enable, disable, rotate, `set_listen`, `start`, `stop`, refresh | SOCKS5 and HTTP listeners |
| reconciler, `crates/core/src/reconciler.rs` | one `Notify` permit, a 30 s tick | debounce, then `sync_from_db` of each driver | drivers |
| netctl, `crates/netctl/src/` | `iptables_rules`, tagged rules in the kernel | install, register, remove, verify, reconcile; SSH guard | iptables |
| settings, `crates/db/src/settings.rs`, `crates/api/src/settings.rs` | the singleton row: subnet, ports, domain, password hash, token generation | PATCH, reload, boot hydration | drivers, control center |
| sessions, `crates/api/src/routes.rs`, `crates/core/src/auth.rs` | signed tokens that carry a generation; none on the server | login, `require_auth`, rotation at boot or by PATCH | settings row |
| configuration, `crates/core/src/config.rs`, `crates/nsp/src/cli.rs` | defaults, `nsp.toml`, `NSP_*` variables, flags | `load_config` | boot |
| boot and shutdown, `crates/nsp/src/main.rs`, `server.rs` | which drivers are up, the pool | hydrate, start drivers, reconciler, poller, server; stop them, close the pool | everything |

Cryptography, TLS, the HTTP listener, metrics and the UI keep no state that
other components race on; the backup scheduler's only state is a directory.
They are listed in `PROJECT.json` with the reason they are left out.

**What is hard here.** No component holds a lock or a transaction over a whole
operation: every operation is a chain of awaits on SQLite statements, mutexes,
the device and tasks. Everything can therefore happen between two steps of it:
another request, a tick of the poller or of the reconciler, the client hanging
up (the handler's future is dropped at its await), an error that returns
early, or a crash. Truth is kept twice almost everywhere (a row and a device,
a flag and a row, a table and an allocator, a settings row and a listener),
and the 30 s reconciler is meant to repair whatever a chain left half-done.

**What makes each component correct.**

- Poller: control rows change only through the control center, local rows only
  through the admin; a cursor is acknowledged only when everything up to it is
  in the database; a reset starts from scratch.
- WireGuard peers: flag and row agree; no address is handed out twice, none is
  lost; a user has one peer; the device ends up with the peers of the table.
- WireGuard lifecycle: `started` means the device is up; a settings row that was
  accepted can be booted.
- Shadowsocks: what runs is what the database describes; never two servers of
  ours on the port; a stop stops; a driver that says it runs can serve.
- Reconciler: a notify during a pass causes another pass after it.
- netctl: a rule in the kernel has its row and a row its rule, however a batch ended,
  as far as iptables does what it is asked; no source touches the rules of another.
- Proxy: a revoked credential leaves the auth map, in whatever order refreshes
  finish; a driver that says it runs has listeners; a stop ends the connections.
- Control center: once losses and failures end, the node holds what the server
  wants, and the server knows the node's cursor, outcome and conflicts.
- Lazy backend: a revoked key leaves the device for good, although a lookup made
  before the revocation may install it afterwards; a key with a row comes back
  after an eviction, whatever the caches say; no eviction goes on without its device.
- Traffic: no byte is charged twice, whatever restarts between two statements;
  a peer that stays is charged for every byte.
- Settings and sessions: a token of an old password is refused; what runs is what
  the row says once the handlers are done, unless one of them ended between its
  commit and the drivers.
- Process: every change told of reaches every driver, and every other one with the
  next tick; no driver that needs the pool outlives it.

## 2. Modules

| module | models | grain of a step |
|---|---|---|
| `ControlSync` | the `/config` loop and the admin user handlers on one `users` table | one SQLite statement |
| `ControlCenter` | `ControlSync` with the documented server, the `/status` and `/report` loops, lost messages | one SQLite statement or HTTP exchange |
| `ControlCenterProofs` | the theorems about `ControlSync`, and that this is an instance of it; those about `Settings` | |
| `WgIpam` | the allocator as operators on `[subnet, used]` | one call under its mutex |
| `WgPeers` | per-user peers, subnet changes, lifecycle, `sync_from_db`, an eager backend, restarts | what runs between two awaits |
| `WgPeersProofs` | its theorems, with those about the allocator | |
| `LazyPeers` | the lazy userspace backend: handshakes, lookups, caches, eviction, `sync_from_db` and requests | one device call or cache update |
| `LazyPeersProofs` | its theorems | |
| `Traffic` | the sampler and `record` on totals and hourly buckets | one statement |
| `TrafficProofs` | its theorems, and lemmas about finite sums | |
| `SsDriver` | credentials, listener, apply loop, `do_swap`, `start`, `stop`, reconciler pass, restarts | what runs between two awaits |
| `SsDriverProofs` | its theorems | |
| `ProxyDriver` | credentials, auth map, its three refreshers, listeners, connections, `start` with rollback, `stop`, restarts | what runs between two awaits |
| `ProxyDriverProofs` | its theorems | |
| `Netctl` | `iptables_rules` and the tagged rules of the kernel under admin, poller, WireGuard driver and boot | one statement or iptables process |
| `NetctlProofs` | its theorems | |
| `Settings` | the settings row, configuration precedence at boot, logins and tokens, PATCH, reload and control-center writes, what the drivers run with | one await |
| `Converge` | what the reconciler promises (abstract) | |
| `Runtime` | boot, reconciler loop, writers, start and stop, shutdown, crash | what runs between two awaits |
| `RuntimeProofs` | its theorems, among them the refinement of `Converge` | |
| `MC*` | instances for TLC: model values, small sets, symmetry | |

`ControlCenter` extends `ControlSync`; `WgPeers` extends `WgIpam`; `Runtime`
instantiates `Converge`. `ControlCenterProofs` extends `ControlCenter` and
`Settings`, whose row the control center writes; the names of `Settings` that every module has
(`SettingsInit`, `SettingsNext`, ...) are therefore its own. Each driver has the reconciler's pass over itself as an action, so the
drivers compose with the reconciler through "the pass is called again and
again", which is what `Runtime` shows of the loop.

Each request is a record with a program counter; an action is one step of its
handler, guarded by the counter and by the code's own conditions, and ends at the
next await. Where the code returns early the action takes the request to
"idle". Mutations (operators whose comment begins with "Mutation:") are
deliberately wrong versions of a definition; they are not part of any
specification and only serve to show that a property can be broken.

A module's `scope` or `scenario` is a member of `Scopes` or `Scenarios`, chosen at
the start and never changed: it says which endpoints and mishaps a behaviour
exercises together. One run thereby covers several instances that
would be too large at once.

### ControlSync

The database is four variables (`users`, `rules`, `settings`, `cursor`), the
poller a program counter `pc` with its work lists (`todo`, `dels`, `stale`,
`fresh`). `Receive` decodes a response, then the steps follow
`reconcile_outcome` and its helpers: `ApplySettings`, `ReadForUpsert` and
then create, skip, rename or note, `PruneOne`, `ReadForDelete`, `DeleteControl`,
`ReadRules`, `RemoveRule`, `AddRule`, `ClearCursor`, `WriteCursor`. The row
read by `users_repo.get` (`seen`) is kept while others may change it.
Admin requests check the owner of a row in one statement and write by id in
a later one. Every statement can fail (`ReconcileFails`, `AdminGivesUp`) and
`Crash` may strike between any two. The server may answer anything in
`Snapshots`.

### ControlCenter

The server holds versions of what it wants (`History`), moves `head` on and
forgets old ones (`oldest`). `Answer` is its decision tree: nothing when the
reported hashes match, the difference since a cursor it knows, everything
otherwise, and the drifted sections when only the hashes differ. `Tick` is the
whole exchange: the node reports its cursor and contents (`Held`), and the
answer becomes `ControlSync`'s `snap`; `TickGarbled` reports what could not be
read as empty. Then come `ControlSync`'s own steps, whose issues
are collected as the code does and posted later. The batch of
events is dropped when its POST fails, `/status` reads its parts at different
times. Losses, failing statements and crashes are bounded by `MaxFaults`.

### WgPeers and WgIpam

Addresses are numbers and a subnet is its first and last address; `HostRange`
leaves out network, broadcast and the server's address as the code does.
`allocate` takes the lowest free address. A request walks through
`allocate`, `insert`, `install`, and `release` on the way back of a failure.
The device is a function from public key to pre-shared key and address;
`up` says that it exists. `sync` is the reconciler's pass: list the table, list
the device, remove, add. `GiveUp` is a failed statement or a client that hung
up. `Restart` hydrates the subnet and either brings the device up
(`spawn_real`) or leaves it down (`prepare`).

### LazyPeers

A handshake init of a key that is not installed (`Receive`) starts a `task`: query,
found or unknown, plug, note (`Resolve`, `LookupFails`). A caller (a request,
`sync_from_db`, the eviction) has a script of device calls and updates of
the mirror still to run, one step each. `peers` is gotatun's table with the
age of each handshake, `installed` the mirror, `negative` the cache of unknown
keys with its minute. `SyncList` and `EvictList` are the listings of
the two passes, `Pick` takes the next key of one. Two keys may share an
address, and the last peer installed has it.

A start and a stop are the steps of `life`, one await each. `Start` is `spawn_real` with
`bring_up_lazy` up to the key: with a device in its slot there is nothing to bring
up. `Fill` puts context, device and eviction loop into their slots and sets the flag;
`Stop` clears the flag, `Cancel` takes the loop's handle and cancels it, and `Empty` waits for
the loop, then clears device and context. `Abandon` drops either at any of these
awaits. `device`, `ctx` and `evictor` are the slots; `tun` says that a device is
there, in its slot or not. A loop that was cancelled ends the pass it is in, and may begin one
(`EvictList`, `EvictionBreaks`), as `select!` picks any branch that is ready. One
start or stop is under way at a time: two that overlap are in `WgPeers`.

### Traffic

`Sample` is one step of `sample_once`: list the counters, list the rows, record
one peer after the other in any order; `Record` is the statement with reset detection,
`Delta` its arithmetic. `Carry` lets a key carry a byte; peers are added,
reinstalled (counter back to zero), rekeyed, deleted; the driver starts, stops
and crashes; the hour passes. `carried` is the reference: what a key has carried in all.

### SsDriver

An apply channel and the loop that consumes it are one entry of `loop`. A stop
takes the server and the loop's handle out of the state, waits for the
server, aborts the loop and installs a new channel. An aborted tokio task
runs on until its next await that has to wait, so its steps before that stay
enabled beside `Die`. Whether the lock before `Store` has to wait depends on
contention for it, which the kind "contention" switches on. `orphaned` says
that a server task runs whose handles were dropped without cancelling it.
A server is the credentials and the port it was built from.

### ProxyDriver

`auth` is the one map that three kinds of task replace: the debounced apply loop,
the reconciler and `start` itself. Each lists the table, then awaits the lock, then
stores what it has listed (`sync`), so that an older listing may be stored after a
newer one; `older` remembers which of the listings that are still held are older than which. The listeners of one `spawn_listeners` share a token and are one
generation (`lst`); `slot` is what the driver state holds. A connection
goes through hello, request, connect and tunnel and holds one permit of
`max_inflight`. `start` binds, spawns, stores, refreshes, sets `running`, and rolls
back on an error; a dropped request stops where it is.

### Netctl

`rows` is the table, `kernel` the live rules with their place in the chain. A
rule's table, chain, text, comment and priority are its key; its tag is its
source and id. `Rule` gives the words of a key's text, and `Guarded` and `Valid`
are the SSH guard and the manager's validation on them: an admin registers a
guarded rule only with force, and a text with a refused character never (`RefuseRule`). A task (`job`) is the list of statements it still has to
run: `InsertRow`, `InstallRule`, `InstallFails` and `Rollback` are register;
`GetRow`, `ListSource`, `Uninstall` and `DeleteRow` the removals; `ReadRows`,
`ReadLive`, `Reinsert`, `Prune` and `Return` reconcile; `MatchControl` is the
poller's `apply_iptables`, which expands to removals and registers. A statement that
fails ends its task; `set_subnet` and the boot log the error and go on to
the baseline rules. A removal that iptables refuses is taken for one of a missing rule and
the row goes (`UninstallRefused`); a prune that it refuses is logged, and the reconcile reports no error (`Prune`).
Two variables are histories, which no action reads: `refused` has the ids of the rules that a refused
removal has left in the kernel, `owed` the rows that a reconcile has listed,
without those on which another task has called `-D` since. `GiveUp` drops a request; an iptables process it has spawned still
ends. `Restart` boots with or without the rules in the kernel, and runs the
boot's reconcile and baseline registration before any request.

### Settings

`row` is the settings row and `config` the configuration in the process.
`Loaded` is defaults, file, then variables and flags; `BootAdmin` writes the hash of the
configured password, with a new generation, only while the row has none;
`BootDrivers` fills the columns that are NULL and overlays the row. A login reads the
row, compares, and issues a token with the generation it read. A PATCH reads
the row (`before`), commits, and applies to the drivers only what differs;
a reload has no `before` and applies everything. A request may be dropped at any
await, or fail at a read of the row (`GiveUp`) or at a driver (`ApplyFails`); what it
had still to bring to the drivers (`Unapplied`) then stays behind. `alone` and `disturbed`
remember which requests overlapped another, or followed one that left something behind.

### Runtime and Converge

`phase` is what `main` does next, `loop` and `at` what the reconciler does,
`permit` the permit of the `Notify`. A change is its number: `version` counts the
commits, `told` is the newest one a writer has told of, `asked[t]` the
newest one committed when driver `t` was last asked to read. Commit and notify are
two steps, and a request may be dropped between them. `Converge` has only
these three: committing, telling, asking, with the promise that what was told of
is asked for. The tick is no part of the promise: `ImplementsConverge` holds without
it, `TickCatchesUp` says what it adds.

## 3. Runs

Every run finishes within five minutes on two workers. Deadlock is checked except
in `lazy`, `traffic`, `proxy` and `settings`, where the bounds on
writes, bytes, passwords, generations and boots may leave nothing to do.

| run | question | instance |
|---|---|---|
| `control_sync` | ownership, cursor, and who changes what, with one admin request | 2 ids, 2 names, 2 notes, 2 rules, 6 responses covering full, delta and reset, merge and replace |
| `control_center` | does the node end up with what the server wants, and does the server hear of it | 3 versions of 2 users and a rule set, one fault; beside `/config` either an admin, or `/status`, or a server that forgets versions |
| `wg` | flags, leases, the device flag, exclusive addresses, and the device's keys | one request of any kind at a time over two disjoint /30s; two enables at once in a /29 with one repeated client key; one request beside the reconciler |
| `lazy` | revoked keys leave, enabled ones come back, evictions end | 2 keys with one address, 3 writes, 2 faults; with handshakes, with stops, or with requests that use both keys |
| `traffic` | is a byte counted once, and every byte | 2 rows, 2 keys, 2 bytes; two hours, or two events of churn |
| `ss` | no lost change, no overlapping servers, nothing served while down, repair by the reconciler | 1 user, 2 requests writing credentials or ports while one starts and stops; or 1 request dropped anywhere |
| `proxy` | the same of the auth map, failed starts, and connections | 1 user, a starter and a writer, 2 apply channels, 1 listener generation, 1 connection, five scopes |
| `netctl` | what crashes, failures, refusals and dropped requests leave, and what a reconcile repairs; declared rules; the boundary between sources | every operation alone with a stray rule, an admin who registers, removes and changes the subnet beside the poller, or one who registers and reconciles beside it; 2 rule ids, 3 contents of which one is guarded and one refused |
| `settings` | old tokens refused, drivers run with the row | 2 requests, each dropped or failing anywhere, 2 values of each column, 3 generations, 2 boots or snapshots; rotations, or edits |
| `runtime` | no lost wake, the promise of `Converge`, the tick, the order of shutdown | 3 drivers, 1 request, the poller, 2 changes |

What the properties say in short (each is stated in full above its definition):

- `OwnershipInv`, `PollerSparesLocal`, `AdminSparesControl`: who may change
  whose rows, given that the poller and an admin read a row in one statement and write it in another.
  `CursorMeansApplied`: the acknowledged cursor's content is in the database.
- `FollowsServer`, `ConflictHeard`, `StatusCatchesUp`: eventually, once faults end.
- `FlagMatchesRow`, `LeasedAreMarked`, `HandoutsExclusive`, `StartedMeansUp`,
  `KeysConverge`: the user's flag and its peer row, the row and the
  allocator, two requests and one address, the flag and the device, the table and the device.
- `RevokedLeaves`, `EnabledServed`; `NeverOvercharged`, `SteadyCountsAll`.
- `OneServer`, `SettledMeansApplied`, `DownMeansDown`, `RunningMeansListening`,
  `DownMeansStartable`, `StopEndsConnections`, `EventuallyCurrent`: what runs is what the
  database describes, in both proxies.
- `RuleHasRow`, `ReconcileRestores`, `ControlDeclared`, `SourceBoundary`: kernel and table.
  The first says that a rule without a row is one on which iptables has refused `-D`; the second that
  a reconcile without an error has put back what it listed, except what somebody else has
  called `-D` on since. That it leaves nothing else, as its comment has it (manager.rs 60-62), is
  `ReconcileAgrees`, which the code does not keep. `ControlDeclared` is about
  a pass that ends: that each declared rule has its row and, for a pass that prunes,
  that no other control rule has one. Of the rows that a pass leaves which does not prune, as under
  `merge` with `keep`, it says nothing more, nor does it say that an empty list clears all rules
  (control-center.md 525) unless the pass prunes.
- `OldTokensRefused`, `SettledMeansLive`: sessions and hot reload. The second says which
  requests may leave the drivers behind the row, and no other does: one that overlapped another, and one
  that ended between its commit and the last driver with a change still to bring.
- `EvictionEnds` follows the eviction loop through starts and stops that are dropped: without
  a device in its slot no loop goes on, and only a stop that was dropped in its wait for the loop leaves one, in its last pass.
- `AdminSparesControl` and `StartedMeansUp` hold in their runs because one request at a time
  is in flight; two break them (below). They are model-checked for what one request
  does beside the poller, and when it is dropped, and no theorem is made of them.
- `NoLostWakeup`, `PoolOutlivesDrivers`, `ImplementsConverge`, `TickCatchesUp`: the process.

Two runs expect a violation. Each checks a sentence of the repository and shows a
behaviour of the code that contradicts it:

| run | behaviour |
|---|---|
| `control_moved_name` | `FollowsServer` with a version that gives a name to another id: upserts run before deletes, every tick fails on the UNIQUE name, for ever |
| `ss_stop_swap` | `RunningHasLoop`: a swap in progress undoes a stop: running, with no loop |

Further counterexamples of the same sort can be had from the `MC*Other.cfg`
files. Each file checks the first property of its module in the table;
its header lists the others with the constants that they need.

| module | property | behaviour |
|---|---|---|
| `ControlSync` | `AdminSparesControl` | two admin requests on one local row change the control row that took its id (users.rs 401) |
| | `CursorMeansApplied` | two admin requests: a second one writes to the row that the poller has just applied |
| | `ResetWipesFirst` | reset clears the cursor after the apply, and not at all if it fails (control-center.md 394) |
| `ControlCenter` | `RefusalHeard` | the event of a refused delete that is lost with its batch is never sent again |
| | `FallbackIsReal` | with backend "auto" a fallback is reported although the kernel backend runs (control-center.md 316) |
| `WgPeers` | `OnePeerPerUser` | two enables give one user two peers (repo.rs 691) |
| | `LeasedAreMarked` | an enable that commits between the halves of `seed_ipam` is forgotten by the allocator; the rollback of an enable whose backend fails releases the address of a committed row |
| | `HandoutsExclusive` | the second of two disables releases an address that is somebody else's by now |
| | `NothingLeaks` | deleting a user never releases the address |
| | `StartedMeansUp` | a start beside a stop: started, and no device |
| | `SettingsBoot` | a subnet without hosts passes PATCH and stops the next boot |
| | `SettingsOutliveBoot` | a cleared subnet comes back at boot |
| | `PeersFitSubnet` | a peer enabled after the conflict check does not fit the new subnet |
| | `PeersConverge` | a peer re-added with the same key keeps its old pre-shared key |
| `LazyPeers` | `RoutesConverge` | a revoked key installed late takes the address from its new owner, who has a session and is not installed again |
| | `OnDemandOnly` | `sync_from_db` installs every peer of the table (lib.rs 210) |
| | `EvictsWhileUp` | a stop dropped while it waits for the eviction has emptied its slot; the next start finds the device and returns, and no loop evicts any more (userspace.rs 49) |
| | `StoppedMeansDown` | the device outlives a stop: device and receive context hold each other (lib.rs 476) |
| | `OneLookup` | a handshake that passed the cache before a lookup was answered is looked up again after it (lazy.rs 33) |
| | `EvictsOnlyIdle` | a peer that has just shaken hands is evicted from an older list (userspace.rs 53) |
| | `MirrorTrue` | a peer that is evicted before its request notes it stays in the mirror (lazy.rs 87) |
| `Traffic` | `NeverOvercharged` | two samplers overlap after a stop and a start: a byte is charged twice |
| | the same | a row whose client rotates back to a former key before the device has dropped it is charged for the old counter again (the caller may choose the key, lib.rs 975) |
| | `RestartsCountAll` | what is carried between the last sample and a stop is never counted (users.rs 192) |
| `SsDriver` | `RunningServes` | a start beside a stop fails and leaves the driver "running" with nothing |
| | `DownMeansDown` | an aborted loop leaves its new server serving |
| | `ListensAsSet` | two PATCHes reach the driver in the other order than the database |
| `ProxyDriver` | `RunningMeansListening` | two starts overlap: the rollback of one takes the listeners of the other (driver.rs 530) |
| | `SettledMeansApplied` | two starts beside a stop leave a running driver with the map that the stop has cleared |
| | `DownMeansStartable` | a request dropped while it waits for a lock leaves listeners nobody will cancel |
| | `StoppedForgets` | the reconciler fills the auth map of a stopped driver (driver.rs 617) |
| `Netctl` | `ReconcileAgrees` | a prune that iptables refuses, as it does with the quotes of a printed comment (backend.rs 220), leaves the stale rule, and the report is Ok; a reconcile prunes, or installs twice, a rule registered beside it (manager.rs 60) |
| | `Accounted` | two admins: a rule is removed by its id while its register has yet to install it: the removal finds no rule, and the rule outlives its row (manager.rs 132) |
| | `ControlDeclared` | two pollers, which the process never has: a declared rule gets two rows |
| | `PriorityOrder` | register appends a rule whatever its priority |
| | `BaselineOnce` | a boot after a crash registers the baseline rules again beside the restored ones |
| `Settings` | `ReloadClearsHost` | a cleared domain stays in the Shadowsocks client URLs after a reload (settings.rs 167) |
| | `AgreesWhenQuiet` | a PATCH dropped behind its commit, a driver that failed half way, two PATCHes, or the control center leave the drivers behind the row (settings.rs 3) |
| | `EditsOutliveBoot` | a cleared column is filled again at boot (main.rs 383) |
| | `TomlProvidesDefaults` | the migration has set both ports, so the file's never count (main.rs 103) |
| | `ReadonlyShowsState` | in read-only mode the login is refused, so nothing is shown (api-lockdown.md 21) |
| `Runtime` | `FailedBootLeavesNothing` | a boot that fails after the WireGuard driver is up leaves its device in the kernel |

**Why the bounds are enough.** The hazards are races of two or three actors on
one row, one address, one server or one loop. Two ids with two names are
enough for a name to be taken by another id and for an id to change owner; three
versions are enough for a change to be taken back after it was half applied; a
/29 has five peer addresses, a /30 one, so that the allocator is both
ample and exhausted; two disjoint subnets make every lease of the one foreign to
the other; two fresh values of key material let a second enable or rotate
meet the first one's leftovers; two apply channels are the current one and one
that is dying, and a third adds no behaviour as a stop waits for its loop;
one listener generation is enough for a bind to meet a port that is
still held; two rule ids are a rule and its replacement, or a rule of the admin and one
of the control center (the stray rule has an id of its own); two bytes are one before a reset and one after;
two changes are one the loop works on and one that comes meanwhile; three writes
of the lazy backend are an enable, its revocation and another enable, and two faults a stop
dropped and the next one, or a crash; three
generations are a password, the next one and the first again. `MaxFresh`,
`MaxPsk` and `MaxPass` bound only generated material: once used
up, no further enable or rotate starts (or, in `ProxyDriver`, an old value is
used again), everything else goes on. `MaxFaults`, `MaxEvents`, `MaxWrites`,
`MaxBytes`, `MaxHour`, `MaxGen` and `MaxVersion` bound what comes from outside. Where a
passing run has one actor of a kind (one admin, one starter), the corresponding
violation shows what two of them do.

**Fairness.** What is assumed to keep going are tasks that loop on their own:

- the reconciler, which has its 30 s tick and whose pass ends: `WF(Sync)`,
  `WF(Reconcile)`, `WF(SyncList)` in the drivers. `Runtime` justifies them: there,
  `WF(Loop)` is the loop itself (debounce and the pass, which nothing can hold up for
  ever), and `WF(Tick)` is a hypothesis of `TickCatchesUp` only;
- the apply loops (`WF(Loop)`; the debounce has a fixed deadline, and `Absorb` is
  no part of it, so that ticks can not be absorbed for ever at its cost);
- the sampler (`WF(Sample)`), the lookups, the scripts and the eviction of the
  lazy backend, and a `start` or `stop` of its driver that is under way;
- the listeners and connections of the proxy once they are cancelled; the
  stages of a connection with a timeout of their own;
- the poller's loops: a tick comes after the interval, its statements end, the
  report queue is drained, the heartbeat is sent. Faults are bounded, which is the proviso of `FollowsServer`: "once losses and failures end".

No request has to make progress, no client has to send anything, none
has to retry: the liveness properties say what happens after requests stop,
wherever they stopped.

## 4. Proofs

Eight modules hold proofs. Of the 23 invariants that the runs check 22 are theorems, and three of
the four action properties. The two others, `StartedMeansUp` and `AdminSparesControl`, are only model-checked: they are
false with two requests at once, and the hypothesis that would make theorems
of them would leave out all that is in question. A theorem
with a hypothesis needs it: for each of them TLC has the counterexample
without (section 3, `MC*Other.cfg`). Every inductive invariant was checked
by TLC on the instances of the runs before it was proved.

A proof has one lemma for each action, or group of actions that write the same variables,
and under it one step per conjunct that the action can disturb; the actions that
leave the invariant's variables alone are one step.

### ControlCenterProofs

The first part proves, for any sets of ids, names, notes, rules,
cursors, responses and admin requests that meet `ControlAssumption` (responses
are typed, the policy is one of two, `None` is no value of the others):

| theorem | statement |
|---|---|
| `Ownership` | `Spec => []OwnershipInv` |
| `TypeCorrect` | `Spec => []TypeOK` |
| `PollerSpares` | `Spec => PollerSparesLocal`: no statement of the poller changes a row that is local at that moment, under any races and crashes |
| `CursorIsApplied` | with at most one admin request in flight, `Spec => []CursorMeansApplied` |

The inductive invariant is `OwnershipInv == TypeOK /\ PointsOK /\ Claimed`.
Type correctness alone is not inductive: the poller writes the row of `cur`
without looking at it again, so the proof needs to know what was true at each
program point (`PointsOK`: which work lists and which `seen` row the counter
implies) and why a row seen as a control row, or as absent, cannot have become
local meanwhile. That is `Claimed`: every id the server has named or the table
has held is in `issued`, and local users get ids (UUIDs) outside `issued`; so
an id the poller works on can turn from control to absent, never to
local. `TypeStep`, `PointsStep` and `ClaimedStep` prove one conjunct each with
one step per action; `UpdateStep` factors what UPDATE statements share.
`PollerSpares` is then a step property under the invariant. `CursorIsApplied`
adds `Progress`: at each program point, what the work lists no
longer hold is applied (`Upserts`, `Deletes`, `RulesLeft`). Nobody may undo a row that is done,
which is what its hypothesis is for: with one admin request in flight a request past its check
still refers to a local row (`HoldsLocal`), as the poller cannot break that by
`PollerSpares`; another admin request could, and then `CursorMeansApplied` fails too.

The second part shows `CCSpec => Spec` (`CenterIsAServer`): the answers of
the documented server, its losses and the two other loops are steps of
`ControlSync` or stutter, so every theorem above holds with the server;
`CenterSparesLocal` is the one worth naming. It rests on `CenterAssumption` and on
the answers being among `Snapshots`, which `Receive` requires.

The third part is about `Settings`:

| theorem | statement |
|---|---|
| `RotationEndsSessions` | `SettingsSpec => []OldTokensRefused` |
| `SettingsTypes` | `SettingsSpec => []SettingsTypeOK` |
| `ReloadReasserts` | `SettingsSpec => []SettledMeansLive` |

for any values, scenarios and number of requests. The invariant of the first is
`Sessions`: a token's generation is at most the row's, and equal only with the row's
hash; the same of a login that has read the row and not yet compared. It is
inductive because every write leaves generation and hash, or takes a new
generation (`RowGrows`). `SettingsTypes` needs `ReqOK`, which gives each
position of a request its fields. `ReloadReasserts` has no hypothesis: the
property itself says which requests it is about. Its invariant `Carried` says that while nothing
is disturbed at most one request is at work (`Sole`), and that this request carries the
difference between what the drivers run with and the row (`Undisturbed`: before its
commit the difference to `before`, after it what is yet to be applied); a reload that nothing
overlaps carries it whatever it found (`Reloading`). `GiveUpCarried` is the request that ends early:
with nothing `Unapplied` it leaves the drivers with the row, at whatever step it was.

### WgPeersProofs

| theorem | hypotheses | statement |
|---|---|---|
| `WgTypes` | none | `Spec => []TypeOK` |
| `FlagsMatchRows` | none | `Spec => []FlagMatchesRow` |
| `LeasedStayMarked` | `Orderly`, no backend failure | `Spec => []LeasedAreMarked` |
| `HandoutsAreExclusive` | `Orderly`, no backend failure | `Spec => []HandoutsExclusive` |

for any users, subnets, keys and requests. `Orderly` says that a disable, a
settings change or a start or stop is alone while it runs, whereas any number of enables
and rotates may overlap. `LowestFree` shows what `NextFree` returns, from the
well-foundedness of the numbers. The inductive invariant is
`Types /\ Alone /\ Device /\ Addresses`. `Alone` is what `Orderly` means for the positions of
requests; `Device` that a stop clears `started` before it takes the device down.
`Addresses` says who has an address: a row (`Rows`), an enable that has not
stored its row or a disable that has yet to give it back (`Owns`), no two of them the
same one (`Apart`), each of them marked in the allocator as long as it lies in the allocator's
subnet; and a `seed_ipam` before its second half has listed every row.

### SsDriverProofs

| theorem | hypotheses | statement |
|---|---|---|
| `SsTypes` | none | `Spec => []TypeOK` |
| `SettledIsApplied` | `OneStarter` | `Spec => []SettledMeansApplied` |
| `OneServerHolds` | `OneStarter`, `Uncontended` | `Spec => []OneServer` |
| `DownIsDown` | `OneStarter`, `Uncontended` | `Spec => []DownMeansDown` |

`OneStarter`: one request at a time starts or stops. `Uncontended`: an
aborted swap never finds the state locked. The
inductive invariant is `Types /\ (Kept => Order /\ Servers /\ Applied)`, as the properties
themselves except requests that are dropped. `Order`: the only channel that is not dead is
`cur`, and the driver has its loop (`Attached`) or has none and a receiver for the next start
(`Detached`), except where a start or stop stands between the two.
`Servers`: where a server lives that is not in `slot`, with a swap or a stop, and that a
swap has nothing in the state between taking the old server and storing the new.
`Applied`: a change that the loop has not listed is on its way to it
(`Covered`: a permit, a pending tick, a request that has yet to tick), and otherwise
what the loop carries is what the database says (`Seen`).

### ProxyDriverProofs

| theorem | hypotheses | statement |
|---|---|---|
| `ProxyTypes` | none | `Spec => []TypeOK` |
| `SettledIsApplied` | `OneStarter` | `Spec => []SettledMeansApplied` |
| `RunningListens` | `OneStarter`, `Uncontended` | `Spec => []RunningMeansListening` |
| `DownIsStartable` | `OneStarter`, `Uncontended` | `Spec => DownMeansStartable` |

`OneStarter` as above; `Uncontended`: no request is dropped while it waits for a lock.
`Types` includes that a task is in `sync_from_db` exactly while its position says so.
For the map, the argument is that the reconciler alone repairs it. Every change of
the table leaves a request that has yet to notify, a permit, or a pass that is about to list
(`Pending`); or it tells nobody (a failure), and then it marks every
listing as late. `Listed` says that a listing which is neither late nor
the table is older than the reconciler's, which is the table; `Aging` keeps the
order of listings consistent, `Applied` carries it over to the map. Three tasks with
listings of three ages replace one map, so the invariant cannot be about the newest
one only. `Bound` is for the listeners: where a start or a stop stands determines
which generation listens and which one the state holds (`Bare`, `Even`, `Matched`).

### RuntimeProofs

| theorem | statement |
|---|---|
| `RuntimeTypes` | `Spec => []TypeOK` |
| `NoWakeupIsLost` | `Spec => []NoLostWakeup` |
| `RuntimeImplementsConverge` | every step of the process is a step of `Converge` or a stutter |
| `DriversGoFirst` | `Spec => []PoolOutlivesDrivers` |

for any subset of the drivers, any number of requests and changes. `IInv` is
`TypeOK /\ Known /\ NoLostWakeup`. `NoLostWakeup` says that a target that has
not been asked for a change told of is still before the loop, or that a permit
waits; it is inductive only with `Known` (nobody has told of, or asked for, a change that is not
committed, and a writer between commit and notify holds a committed one). One lemma per group of actions:
`BootStep`, `LifeStep`, `WriterStep`, `RequestStep`, `LoopStep`. The
refinement needs `IInv` in `WakeIsTell`: a wake tells of something newer. Its fairness
half stays with the run `runtime`. `DriversGoFirst` rests on `TakenDown`: the planes that the
shutdown has passed stay down, as the only ones that could bring them up, the boot and a
request, are over by then.

### NetctlProofs

| theorem | hypotheses | statement |
|---|---|---|
| `NetTypes` | none | `Spec => []TypeOK` |
| `BoundaryKept` | none | `Spec => SourceBoundary` |
| `Declared` | `OnePoller` | `Spec => []ControlDeclared` |
| `RulesHaveRows` | none | `Spec => []RuleHasRow` |
| `Restored` | none | `Spec => []ReconcileRestores` |

for any tasks, rules, baselines, snapshots and number of ids. `OnePoller` says that the process
has one loop that applies the control center's rules; anything may run beside it.
`RuleHasRow` itself is about scopes whose concurrent operations have to do with different
sources (`Separate`; a reconcile has to do with all of them). The code does not ensure that, as no lock covers two statements:
beside a register that has stored its row and not yet installed it, a removal of that id
finds no rule, deletes the row, and leaves a rule without one. What is proved is
that nothing else does but a refusal of `-D`: no drop, failure, rollback or restart at any statement.
`ReconcileRestores` needs no such proviso: what runs beside a reconcile counts only where it has called
`-D` on a rule that was listed, and neither a refused prune nor a comment in quotes can keep a row from its rule.

A task is a list of statements yet to run, of a length that depends on the table, so that
the invariant is about lists.
`Base`, which holds without hypotheses (`BaseAlways`), has three parts. `Types`: each statement is one that the
task's operation makes, on the sources of that operation; this alone gives
`SourceBoundary`. `OneRow`: an id names one row, wherever in the table, the kernel or a task's
list it is mentioned. `Shapes`: what may follow what
(`InOrder`, by pairs of positions), and that an uninstall has the delete of its row right behind it (`Paired`).
A statement replaces itself by others; `Joined` and the lemmas after it show that the list
keeps its form when it does, for the lists that the operations make (`Inserts`, `Gets`, `Both`, `Repairs`,
`Declares`).

`Safe` adds what holds where `Separate` does (`SafeAlways`). `Disjoint`: no two tasks are at work on one source. `OneEntry`: a tag is in
the kernel once. `AllFirm`: the row that a statement is about to append, roll back or put back is in the table
and its rule is not in the kernel; the list a reconcile has read is the table; a delete comes when the rule is gone, or
refused. `Restored` rests on `AllRestoring` (`HistoryAlways`), with `Base` alone: as long as a clean reconcile has its report
to make, every row it is owed is in the kernel or is still in its list, and what it prunes is no row it is owed.
`Declared` rests on `Base` alone, as by `SourceBoundary` only the one pass changes rows
of the control center: `OneControlRow`, and `AllDeclaring`, which
says that every declared rule has its row or is to be inserted, that what
is to be inserted has none, and that what is to be removed is not declared.

### LazyPeersProofs

| theorem | statement |
|---|---|
| `EvictionNeverOutlives` | `Spec => []EvictionEnds` |
| `LazyTypes` | `Spec => []TypeOK` |

for any keys, addresses and bounds, with no hypothesis. `EvictionEnds` is not inductive: a start or a stop may be dropped after
any of its steps, and what it leaves is what the next one meets. `Path` gives the steps of
`life` their order (the loop is spawned right after the device got its place, the slots are
cleared right after the wait, or where no handle was found), and `Loop` says what that means for the loop: one that is on has the
driver's device and no stop about to clear it; one that was cancelled is waited for, or was by a
stop that was dropped. `IInv` adds that a caller's list of calls is a `Script`: at most four, and a
removal is followed by the forgetting that is skipped with it when the device
refuses. Without that the tail of a script need not be one.

### TrafficProofs

| theorem | hypotheses | statement |
|---|---|---|
| `TrafficTypes` | | `Spec => []TypeOK`: totals, buckets and readings stay natural numbers |
| `NobodyIsOvercharged` | no key is used again, no start overlaps a stop (`Separate`) | `Spec => []NeverOvercharged` |

`TypeOK` is inductive as it stands; `RecordTypes` shows that `Delta` is never
negative, as a counter below the last reading is a reset.

`NeverOvercharged` bounds a total by what the row's keys have carried, which
says nothing of the readings that a pass holds and has not recorded. The
inductive invariant is `Alone /\ Metered /\ Traced /\ Billed /\ Bucketed`:

- `Billed`: the total stays below the ceiling after the reading that is still to come,
  and after one that a pass holds followed by the next one (`Bill`). A removal of the peer
  between the two only lowers it, as the counter starts at zero.
- `Metered`: a reading and what the counter adds to it are at most what the key carried.
- `Traced`: a pass has at most one reading for a row, so that recording one
  spoils no other; `Alone`: nor is there another pass that has one. This is what
  an overlapping start breaks.
- A key used again breaks `GrowCharges`: a row that gets a key back is
  compared with the last reading of another key, while its ceiling does not rise.

The sums are folds over finite sets. `UnfoldsFolded` shows that the function
the fold is chosen from exists, by taking a smallest set on which it would not, and
`SumWithout`, `SumChanges` and `SumJoins` are what the steps use: the sum when
one value changes, and when one member is added.

### What stays with TLC

Liveness under fairness and `ENABLED` are beyond the provers used, as is
induction over recursive data: all liveness is model-checked. The
modules use no `RECURSIVE` operator, so that all of them can be proved about; where `Netctl` takes the
members of a set in some order, it does so by a bijection from their positions.

## 5. Abstractions, and what is not modelled

Control center:

- Rows listed in one response are a function from id to content: a response
  that names one id or one rule twice is not represented.
- Audit rows, metrics and logs are left out. `ControlSync` has the iptables rules
  of the control center as database rows; `Netctl` has both halves.
- A hash is taken to tell contents apart. When the hashes differ at the newest
  cursor, the server of `ControlCenter` answers with the sections that drifted, in
  `replace` mode. With `merge` and the policy `keep`, or with a server
  that looks at the cursor only, what a tick left half applied stays.
- A tick that fails leaves `last_apply` as it was, so that `/status` goes on to
  report the outcome before it.

WireGuard:

- `started` is read in the same step as the backend call it guards. The driver
  awaits an uncontended lock there and nothing else.
- The eager device of `WgPeers` keeps its entries independent of each other. In the
  kernel, adding a peer moves an allowed address away from another peer;
  `LazyPeers` has that.
- The server key pair is left out. `add_peer`, `remove_peer` and
  `acquire_peer_ip` have no caller outside tests.
- `Traffic` models one of the two directions; `record` treats both alike. Reading is
  left out: `list_samples` orders by hour and cuts at its limit, so it
  returns the oldest buckets (db/src/traffic.rs 121). `prune_samples_before` has no caller.

Shadowsocks and proxy:

- `OneServer` makes an exception of a server that a stop has taken and waits
  for: a swap that looks then finds none and does not wait (driver.rs 701-709).
- The Shadowsocks server PSK is left out: boot stores it in the driver before
  any request runs, and `stop` does not clear it. A rotate on a driver that
  was never started commits, and then fails on the missing PSK (driver.rs 475).
  A server that fails to bind ends its task unnoticed; the model takes a spawned
  server to serve. `add_user` and `remove_user` are called by tests only.
- The bytes of SOCKS5 and HTTP are left out, and with them that the bytes
  read behind an HTTP header are not forwarded (http.rs 157). A
  revoked user's open tunnel stays until a stop, in the code as in the model.
  `restart_listeners` has no caller.

iptables:

- `Netctl` lets `iptables -D` be refused at any time, for a missing rule, a held lock or any other
  reason, and takes `iptables -A` to change nothing when it is refused. `verify` changes nothing and is left out.
- The SSH guard is as the code has it: it does not see port ranges, nor a rule
  that names no port.

Settings, sessions, configuration:

- Of the configuration keys, those that the row overlays, the password and
  `security.api`. Rate limits and signatures are left out;
  `bump_token_generation` has no caller.

Not modelled:

- Cryptography, TLS, metrics, the command-line tools, the UI: no state of
  interest to others.
- The backup scheduler: its state is a directory of files named by the hour.
  Reading it shows that `run_one` removes this hour's snapshot before `VACUUM INTO`
  makes the new one (backup.rs 60-75), that `retention_days = 0` prunes everything
  (83), and that a run of failures lets the pruning delete the last good
  snapshot. A module would state that a good snapshot is always there, which
  these lines already answer.

## 6. Plan

Proofs, next: `RulesHaveRows` with two registers of one source side by side, which
`Separate` excludes though their rows differ.

Models: the backup scheduler with crashes between removal and `VACUUM INTO`.

## 7. Running

```
tlc -workers 2 -config MCControlSync.cfg MCControlSync
tlapm WgPeersProofs.tla
```
