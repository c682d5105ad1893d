------------------------------ MODULE WgPeers -------------------------------
(***************************************************************************)
(* WireGuard peers: the enable, disable, rotate, settings and lifecycle    *)
(* requests of the admin API as they run through the driver                *)
(* (crates/wg-driver/src/lib.rs), the reconciler's sync_from_db, the IPAM  *)
(* allocator and an eager backend (kernel, or userspace without laziness). *)
(*                                                                         *)
(* Each action is what happens between two awaits on the database, on the  *)
(* IPAM mutex or on the backend; the driver holds no lock across them.     *)
(*                                                                         *)
(* A behaviour belongs to one of Scopes, so that one run may cover several *)
(* small instances.  sync_from_db writes nothing but the device.           *)
(***************************************************************************)
EXTENDS WgIpam, FiniteSets

CONSTANTS
  Users,       \* the users that exist at first; user ids are never reused
  Subnets,     \* values of settings.wg_subnet, besides None
  TomlSubnet,  \* config wireguard.subnet (10.255.0.0/16 by default), None if empty
  ClientKeys,  \* public keys supplied by clients, who may repeat them
  Reqs,        \* API requests that may be in flight together
  Scopes,      \* what takes part: some of the users, subnets, keys and requests,
               \* and some of AllKinds
  MayFail,     \* TRUE: a call of the backend may fail
  MaxFresh,    \* bound on the generated key material
  None

AllKinds ==
  {"enable", "disable", "rotate", "patch", "reload", "control", "start", "stop", "giveup",
   "sync"}

ASSUME WgAssumption ==
  /\ \A s \in Subnets : s = [net |-> s.net, bcast |-> s.bcast]
                        /\ s.net \in Nat /\ s.bcast \in Nat /\ s.net <= s.bcast
  /\ TomlSubnet \in Subnets \union {None}
  /\ Scopes \subseteq [users : SUBSET Users, subnets : SUBSET Subnets, keys : SUBSET ClientKeys,
                       reqs : SUBSET Reqs, kinds : SUBSET AllKinds]
  /\ MayFail \in BOOLEAN /\ MaxFresh \in Nat
  /\ ClientKeys \cap Nat = {}
  /\ None \notin Subnets /\ None \notin ClientKeys \union Nat /\ None \notin Users

VARIABLES
  \* SQLite
  users,    \* rows of `users`
  enabled,  \* those with wg_enabled = 1
  peers,    \* rows of `wg_peers`
  wanted,   \* settings.wg_subnet
  \* the driver
  subnet,   \* inner.subnet
  ipam,     \* inner.ipam: an allocator or None
  started,  \* inner.started
  \* the backend
  up,       \* the device exists
  dev,      \* public key -> installed [psk, ip]
  \* tasks
  req,      \* request -> its position in the handler
  sync,     \* the reconciler's pass over the peers
  fresh,    \* last generated id, key or pre-shared key
  scope     \* never changes

db     == <<users, enabled, peers, wanted>>
mem    == <<subnet, ipam, started>>
device == <<up, dev>>
vars   == <<db, mem, device, req, sync, fresh, scope>>

Keys == ClientKeys \union (1 .. MaxFresh)
Row  == [id : 1 .. MaxFresh, user : Users, key : Keys, psk : 1 .. MaxFresh, ip : Nat]

KeysOf(rows) == {p.key : p \in rows}
IpsOf(rows)  == {p.ip : p \in rows}
RowsOf(u)    == {p \in peers : p.user = u}

(* What the device holds of a row: its allowed /32 and its pre-shared key. *)
Entry(p) == [psk |-> p.psk, ip |-> p.ip]

(* The device as a function of the peers installed in it.                  *)
Put(d, p)      == [k \in DOMAIN d \union {p.key} |-> IF k = p.key THEN Entry(p) ELSE d[k]]
Without(d, k)  == [x \in DOMAIN d \ {k} |-> d[x]]
Installed(rows) == [k \in KeysOf(rows) |-> Entry(CHOOSE p \in rows : p.key = k)]

Idle == [pc |-> "idle", user |-> None, key |-> None, net |-> None, before |-> None,
         ip |-> None, row |-> None, new |-> None, rows |-> {}, spawn |-> FALSE]
NoSync == [pc |-> "work", rows |-> {}, gone |-> {}, missing |-> {}]

(* Mutation: the allocator is rebuilt empty.                               *)
RebuiltEmpty(s, rows) == IF s = None THEN None ELSE Seeded(s, {})

(* The allocator for subnet s, None in explicit-address mode.  seed_ipam   *)
(* is an error when s has no host.                                         *)
Buildable(s)     == IF s = None THEN TRUE ELSE HostRange(s) # {}
Rebuilt(s, rows) == IF s = None THEN None ELSE Seeded(s, IpsOf(rows))

(* hydrate_config_from_settings: a NULL wg_subnet becomes the config's.    *)
Hydrated(s) == IF s = None THEN TomlSubnet ELSE s

(* A process that has booted on a database without peers.                  *)
Init ==
  /\ scope \in Scopes
  /\ users = scope.users /\ enabled = {} /\ peers = {}
  /\ wanted \in {Hydrated(s) : s \in scope.subnets \union {None}} /\ Buildable(wanted)
  /\ subnet = wanted
  /\ ipam = Rebuilt(wanted, {})
  /\ started = FALSE /\ up = FALSE /\ dev = Installed({})
  /\ req = [r \in Reqs |-> Idle]
  /\ sync = NoSync
  /\ fresh = 0

Accepts(r, kind) == kind \in scope.kinds /\ r \in scope.reqs /\ req[r].pc = "idle"
Done(r)  == req' = [req EXCEPT ![r] = Idle]
Go(r, p) == req' = [req EXCEPT ![r].pc = p]

----------------------------------------------------------------------------
(* enable_user_wg.                                                         *)

(* The user exists and has no peer yet; with one, nothing would change.    *)
EnableStart(r, u, k) ==
  /\ Accepts(r, "enable")
  /\ u \in users /\ RowsOf(u) = {}
  /\ req' = [req EXCEPT ![r] = [Idle EXCEPT !.pc = "allocate", !.user = u, !.key = k]]
  /\ UNCHANGED <<db, mem, device, sync, fresh>>

Allocate(r) ==
  /\ req[r].pc = "allocate"
  /\ IF ipam # None /\ Free(ipam) # {}
     THEN /\ ipam' = Take(ipam, NextFree(ipam))
          /\ req' = [req EXCEPT ![r].pc = "insert", ![r].ip = NextFree(ipam)]
     ELSE Done(r) /\ UNCHANGED ipam
  /\ UNCHANGED <<db, subnet, started, device, sync, fresh>>

(* The client's public key, or that of a pair generated for it.            *)
KeyOf(r) == IF req[r].key = None THEN fresh + 1 ELSE req[r].key

(* users.get and WgRepo::enable_user: one transaction inserts the row and  *)
(* raises the flag, or fails on the user or on a UNIQUE column.            *)
InsertRow(r) ==
  /\ req[r].pc = "insert" /\ fresh < MaxFresh
  /\ LET u == req[r].user
         p == [id |-> fresh + 1, user |-> u, key |-> KeyOf(r), psk |-> fresh + 1,
               ip |-> req[r].ip]
     IN IF u \in users /\ p.key \notin KeysOf(peers) /\ p.ip \notin IpsOf(peers)
        THEN /\ peers' = peers \union {p}
             /\ enabled' = enabled \union {u}
             /\ fresh' = fresh + 1
             /\ req' = [req EXCEPT ![r].pc = "install", ![r].row = p]
        ELSE Go(r, "release") /\ UNCHANGED <<peers, enabled, fresh>>
  /\ UNCHANGED <<users, wanted, mem, device, sync>>

(* With the device live, install the row; an error of the backend makes    *)
(* the whole outcome an Err although the row is committed.                 *)
Install(r) ==
  /\ req[r].pc = "install"
  /\ \/ ~started /\ Done(r) /\ UNCHANGED dev
     \/ started /\ up /\ Done(r) /\ dev' = Put(dev, req[r].row)
     \/ started /\ (~up \/ MayFail) /\ Go(r, "release") /\ UNCHANGED dev
  /\ UNCHANGED <<db, mem, up, sync, fresh>>

(* Give the address back: enable's rollback and disable's last step.       *)
ReleaseIp(r) ==
  /\ req[r].pc = "release"
  /\ ipam' = IF ipam = None THEN None ELSE Release(ipam, req[r].ip)
  /\ Done(r)
  /\ UNCHANGED <<db, subnet, started, device, sync, fresh>>

----------------------------------------------------------------------------
(* disable_user_wg.                                                        *)

(* get_by_user (LIMIT 1) finds one row of the user, if there is any.       *)
DisableStart(r, u) ==
  /\ Accepts(r, "disable") /\ u \in users
  /\ \E row \in IF RowsOf(u) = {} THEN {None} ELSE RowsOf(u) :
       req' = [req EXCEPT ![r] = [Idle EXCEPT !.pc = "unplug", !.user = u, !.row = row]]
  /\ UNCHANGED <<db, mem, device, sync, fresh>>

(* The result of the backend's remove is ignored.                          *)
Unplug(r) ==
  /\ req[r].pc = "unplug"
  /\ IF req[r].row # None /\ started /\ up
     THEN dev' \in {Without(dev, req[r].row.key)} \union (IF MayFail THEN {dev} ELSE {})
     ELSE UNCHANGED dev
  /\ Go(r, "delete")
  /\ UNCHANGED <<db, mem, up, sync, fresh>>

(* Mutation: disable_user drops the rows and leaves the flag.              *)
DeleteRowsOnly(r) ==
  /\ req[r].pc = "delete"
  /\ peers' = {p \in peers : p.user # req[r].user}
  /\ IF req[r].row = None
     THEN Done(r)
     ELSE req' = [req EXCEPT ![r] = [Idle EXCEPT !.pc = "release", !.ip = req[r].row.ip]]
  /\ UNCHANGED <<users, enabled, wanted, mem, device, sync, fresh>>

(* WgRepo::disable_user: every row of the user goes, with the flag.        *)
DeleteRows(r) ==
  /\ req[r].pc = "delete"
  /\ peers' = {p \in peers : p.user # req[r].user}
  /\ enabled' = enabled \ {req[r].user}
  /\ IF req[r].row = None
     THEN Done(r)
     ELSE req' = [req EXCEPT ![r] = [Idle EXCEPT !.pc = "release", !.ip = req[r].row.ip]]
  /\ UNCHANGED <<users, wanted, mem, device, sync, fresh>>

----------------------------------------------------------------------------
(* rotate_user_wg.                                                         *)

RotateStart(r, u, k) ==
  /\ Accepts(r, "rotate")
  /\ u \in enabled
  /\ \E row \in RowsOf(u) :
       req' = [req EXCEPT ![r] = [Idle EXCEPT !.pc = "rekey", !.user = u, !.key = k,
                                              !.row = row]]
  /\ UNCHANGED <<db, mem, device, sync, fresh>>

(* UPDATE ... WHERE id = ?; a repeated key or a vanished row is an error.  *)
Rekey(r) ==
  /\ req[r].pc = "rekey" /\ fresh < MaxFresh
  /\ LET mine == {p \in peers : p.id = req[r].row.id}
     IN IF mine # {} /\ KeyOf(r) \notin KeysOf(peers \ mine)
        THEN /\ peers' = (peers \ mine) \union
                           {[p EXCEPT !.key = KeyOf(r), !.psk = fresh + 1] : p \in mine}
             /\ fresh' = fresh + 1
             /\ Go(r, "reread")
        ELSE Done(r) /\ UNCHANGED <<peers, fresh>>
  /\ UNCHANGED <<users, enabled, wanted, mem, device, sync>>

Reread(r) ==
  /\ req[r].pc = "reread"
  /\ IF \E p \in peers : p.id = req[r].row.id
     THEN \E p \in peers : /\ p.id = req[r].row.id
                           /\ req' = [req EXCEPT ![r].pc = "swap", ![r].new = p]
     ELSE Done(r)
  /\ UNCHANGED <<db, mem, device, sync, fresh>>

(* With the device live: remove the old key, then install the new row.     *)
SwapOut(r) ==
  /\ req[r].pc = "swap"
  /\ IF started
     THEN /\ Go(r, "replace")
          /\ dev' \in {IF up THEN Without(dev, req[r].row.key) ELSE dev}
                        \union (IF MayFail THEN {dev} ELSE {})
     ELSE Done(r) /\ UNCHANGED dev
  /\ UNCHANGED <<db, mem, up, sync, fresh>>

SwapIn(r) ==
  /\ req[r].pc = "replace"
  /\ dev' \in {IF up THEN Put(dev, req[r].new) ELSE dev} \union (IF MayFail THEN {dev} ELSE {})
  /\ Done(r)
  /\ UNCHANGED <<db, mem, up, sync, fresh>>

----------------------------------------------------------------------------
(* Mutation: the row goes, the flag stays behind.                          *)
DeleteUserKeepsFlag(u) ==
  /\ u \in users
  /\ users' = users \ {u}
  /\ peers' = {p \in peers : p.user # u}
  /\ UNCHANGED <<enabled, wanted, mem, device, req, sync, fresh>>

(* Users leave: the API's delete_user or the control poller.  The rows go  *)
(* by ON DELETE CASCADE, the device follows at the next sync.              *)
DeleteUser(u) ==
  /\ u \in users
  /\ users' = users \ {u} /\ enabled' = enabled \ {u}
  /\ peers' = {p \in peers : p.user # u}
  /\ UNCHANGED <<wanted, mem, device, req, sync, fresh>>

----------------------------------------------------------------------------
(* settings.wg_subnet.                                                     *)

(* peers_outside_subnet(s) is empty.                                       *)
Fits(rows, s) == \A p \in rows : s # None /\ Contains(s, p.ip)

(* PATCH /api/settings: read the row, refuse (409) when a peer does not fit. *)
PatchStart(r, s) ==
  /\ Accepts(r, "patch")
  /\ Fits(peers, s)
  /\ req' = [req EXCEPT ![r] = [Idle EXCEPT !.pc = "save", !.net = s, !.before = wanted]]
  /\ UNCHANGED <<db, mem, device, sync, fresh>>

SavePatch(r) ==
  /\ req[r].pc = "save"
  /\ wanted' = req[r].net
  /\ IF req[r].net = req[r].before THEN Done(r) ELSE Go(r, "subnet")
  /\ UNCHANGED <<users, enabled, peers, mem, device, sync, fresh>>

(* POST /api/reload applies whatever the settings row holds.               *)
Reload(r) ==
  /\ Accepts(r, "reload")
  /\ req' = [req EXCEPT ![r] = [Idle EXCEPT !.pc = "subnet", !.net = wanted]]
  /\ UNCHANGED <<db, mem, device, sync, fresh>>

(* The control center writes the settings row, and only the row.           *)
ControlPatch(s) ==
  /\ "control" \in scope.kinds
  /\ wanted' = s
  /\ UNCHANGED <<users, enabled, peers, mem, device, req, sync, fresh>>

SetSubnet(r) ==
  /\ req[r].pc = "subnet"
  /\ subnet' = req[r].net
  /\ Go(r, "seed")
  /\ UNCHANGED <<db, ipam, started, device, sync, fresh>>

(* seed_ipam: read the subnet, list the rows ...                           *)
AfterSeed(r) == IF req[r].spawn THEN Go(r, "list") ELSE Done(r)

SeedList(r) ==
  /\ req[r].pc = "seed"
  /\ IF subnet = None
     THEN ipam' = None /\ AfterSeed(r)
     ELSE /\ UNCHANGED ipam
          /\ IF ~Buildable(subnet)
             THEN Done(r)
             ELSE req' = [req EXCEPT ![r].pc = "store", ![r].net = subnet, ![r].rows = peers]
  /\ UNCHANGED <<db, subnet, started, device, sync, fresh>>

(* ... and replace the allocator by one built from that list.              *)
SeedStore(r) ==
  /\ req[r].pc = "store"
  /\ ipam' = Rebuilt(req[r].net, req[r].rows)
  /\ AfterSeed(r)
  /\ UNCHANGED <<db, subnet, started, device, sync, fresh>>

----------------------------------------------------------------------------
(* spawn_real and stop.                                                    *)
StartBegin(r) ==
  /\ Accepts(r, "start") /\ ~started
  /\ req' = [req EXCEPT ![r] = [Idle EXCEPT !.pc = "seed", !.spawn = TRUE]]
  /\ UNCHANGED <<db, mem, device, sync, fresh>>

SpawnList(r) ==
  /\ req[r].pc = "list"
  /\ req' = [req EXCEPT ![r].pc = "up", ![r].rows = peers]
  /\ UNCHANGED <<db, mem, device, sync, fresh>>

(* backend.up is a no-op on a device that is up.                           *)
BringUp(r) ==
  /\ req[r].pc = "up"
  /\ up' = TRUE
  /\ dev' = IF up THEN dev ELSE Installed(req[r].rows)
  /\ Go(r, "mark")
  /\ UNCHANGED <<db, mem, sync, fresh>>

MarkStarted(r) ==
  /\ req[r].pc = "mark"
  /\ started' = TRUE
  /\ Done(r)
  /\ UNCHANGED <<db, subnet, ipam, device, sync, fresh>>

(* Mutation: stop forgets to lower `started`.                              *)
StopBeginKeepsFlag(r) ==
  /\ Accepts(r, "stop") /\ started
  /\ req' = [req EXCEPT ![r] = [Idle EXCEPT !.pc = "down"]]
  /\ UNCHANGED <<db, mem, device, sync, fresh>>

StopBegin(r) ==
  /\ Accepts(r, "stop") /\ started
  /\ started' = FALSE
  /\ req' = [req EXCEPT ![r] = [Idle EXCEPT !.pc = "down"]]
  /\ UNCHANGED <<db, subnet, ipam, device, sync, fresh>>

Down(r) ==
  /\ req[r].pc = "down"
  /\ up' = FALSE /\ dev' = Installed({})
  /\ Done(r)
  /\ UNCHANGED <<db, mem, sync, fresh>>

(* `?` on a failed statement, or the client hangs up and the handler's     *)
(* future is dropped at its await.                                         *)
GiveUp(r) ==
  /\ "giveup" \in scope.kinds /\ req[r].pc # "idle"
  /\ Done(r)
  /\ UNCHANGED <<db, mem, device, sync, fresh>>

----------------------------------------------------------------------------
(* sync_from_db, run by the reconciler on a notify or on its 30 s tick.    *)

SyncDone == sync.gone = {} /\ sync.missing = {} /\ sync.pc = "work"

SyncList ==
  /\ "sync" \in scope.kinds /\ SyncDone /\ started
  /\ sync' = [NoSync EXCEPT !.pc = "live", !.rows = peers]
  /\ UNCHANGED <<db, mem, device, req, fresh>>

(* Mutation: live peers without a row are not looked for.                  *)
SyncLiveNoOrphans ==
  /\ sync.pc = "live"
  /\ sync' = [NoSync EXCEPT !.missing = {p \in sync.rows : ~up \/ p.key \notin DOMAIN dev}]
  /\ UNCHANGED <<db, mem, device, req, fresh>>

(* A device that is down lists no peer.                                    *)
SyncLive ==
  /\ sync.pc = "live"
  /\ LET live == IF up THEN DOMAIN dev ELSE {}
     IN sync' = [NoSync EXCEPT !.gone = live \ KeysOf(sync.rows),
                               !.missing = {p \in sync.rows : p.key \notin live}]
  /\ UNCHANGED <<db, mem, device, req, fresh>>

(* A failed add or remove is logged and the pass goes on.                  *)
SyncRemove(k) ==
  /\ k \in sync.gone
  /\ dev' \in {Without(dev, k)} \union (IF MayFail THEN {dev} ELSE {})
  /\ sync' = [sync EXCEPT !.gone = @ \ {k}]
  /\ UNCHANGED <<db, mem, up, req, fresh>>

SyncAdd(p) ==
  /\ sync.gone = {} /\ p \in sync.missing
  /\ dev' \in {IF up THEN Put(dev, p) ELSE dev} \union (IF MayFail THEN {dev} ELSE {})
  /\ sync' = [sync EXCEPT !.missing = @ \ {p}]
  /\ UNCHANGED <<db, mem, up, req, fresh>>

----------------------------------------------------------------------------
(* The process restarts: hydrate the subnet from the settings row, then    *)
(* spawn_real, or prepare when the device cannot be built.  When seed_ipam *)
(* fails so does prepare, and main returns: the process stays down.        *)
Restart ==
  /\ Buildable(Hydrated(wanted))
  /\ wanted' = Hydrated(wanted)
  /\ req' = [r \in Reqs |-> Idle] /\ sync' = NoSync
  /\ subnet' = wanted' /\ ipam' = Rebuilt(wanted', peers)
  /\ \E live \in BOOLEAN :
       /\ started' = live /\ up' = live
       /\ dev' = IF live THEN Installed(peers) ELSE Installed({})
  /\ UNCHANGED <<users, enabled, peers, fresh>>

Enable(r)  == Allocate(r) \/ InsertRow(r) \/ Install(r) \/ ReleaseIp(r)
Disable(r) == Unplug(r) \/ DeleteRows(r)
Rotate(r)  == Rekey(r) \/ Reread(r) \/ SwapOut(r) \/ SwapIn(r)
Resize(r)  == SavePatch(r) \/ Reload(r) \/ SetSubnet(r) \/ SeedList(r) \/ SeedStore(r)
Lifecycle(r) ==
  StartBegin(r) \/ SpawnList(r) \/ BringUp(r) \/ MarkStarted(r) \/ StopBegin(r) \/ Down(r)

Request(r) ==
  \/ Enable(r) \/ Disable(r) \/ Rotate(r) \/ Resize(r) \/ Lifecycle(r) \/ GiveUp(r)
  \/ \E u \in Users : DisableStart(r, u)
  \/ \E u \in Users, k \in scope.keys \union {None} : EnableStart(r, u, k) \/ RotateStart(r, u, k)
  \/ \E s \in scope.subnets \union {None} : PatchStart(r, s)

Sync ==
  \/ SyncList \/ SyncLive
  \/ \E k \in sync.gone : SyncRemove(k)
  \/ \E p \in sync.missing : SyncAdd(p)

Next ==
  \/ \E r \in Reqs : Request(r)
  \/ \E u \in Users : DeleteUser(u)
  \/ \E s \in scope.subnets \union {None} : ControlPatch(s)
  \/ Sync \/ Restart

Spec == Init /\ [][Next /\ UNCHANGED scope]_vars

(* The reconciler's loop keeps running; nothing is assumed of requests.    *)
FairSpec == Spec /\ WF_vars(Sync /\ UNCHANGED scope)

----------------------------------------------------------------------------
TypeOK ==
  /\ users \subseteq scope.users /\ enabled \subseteq users
  /\ peers \subseteq Row
  /\ {wanted, subnet} \subseteq Subnets \union {None}
  /\ ipam # None => ipam.subnet \in Subnets /\ ipam.used \subseteq HostRange(ipam.subnet)
  /\ started \in BOOLEAN /\ up \in BOOLEAN
  /\ DOMAIN dev \subseteq Keys /\ (~up => DOMAIN dev = {})
  /\ \A k \in DOMAIN dev : dev[k] \in [psk : 1 .. MaxFresh, ip : Nat]
  /\ \A r \in Reqs : req[r].row \in Row \union {None} /\ req[r].new \in Row \union {None}
  /\ sync.rows \subseteq Row /\ sync.missing \subseteq Row /\ sync.gone \subseteq Keys
  /\ fresh \in 0 .. MaxFresh /\ scope \in Scopes

(* users.wg_enabled and wg_peers are only written together: the flag is up *)
(* exactly when the user has a row, across every race of enable, disable,  *)
(* delete and crash (repo.rs 691-791).                                     *)
FlagMatchesRow == \A u \in Users : u \in enabled <=> RowsOf(u) # {}

(* Every leased address the allocator could hand out again is marked:      *)
(* otherwise allocate returns it, the UNIQUE column refuses the row, the   *)
(* rollback unmarks it, and every later enable fails the same way.         *)
LeasedAreMarked ==
  ipam # None =>
    \A p \in peers : InRange(ipam.subnet, p.ip) => p.ip \in ipam.used

(* An address handed out to a request that has not stored its row yet is   *)
(* nobody else's: no row has it and no other request.                      *)
HandoutsExclusive ==
  \A r \in Reqs : req[r].pc = "insert" =>
    /\ req[r].ip \notin IpsOf(peers)
    /\ \A other \in Reqs \ {r} : req[other].pc = "insert" => req[other].ip # req[r].ip

(* The allocator's state equals the table when nobody is at work:          *)
(* ipam.rs 3-5, "calls allocate / release as peers come and go".           *)
NothingLeaks ==
  ipam # None /\ (\A r \in Reqs : req[r].pc = "idle") => ipam.used \subseteq IpsOf(peers)

(* repo.rs 691-692: "A user can have at most one WG peer."                 *)
OnePeerPerUser == \A u \in Users : Cardinality(RowsOf(u)) <= 1

(* lib.rs 470-472: is_running is "whether the data plane is currently      *)
(* live"; once every lifecycle request has returned, started means up.     *)
StartedMeansUp ==
  started /\ (\A r \in Reqs : req[r].pc # "down") => up

(* settings.rs 100: the subnet is validated before it is committed, so the *)
(* process can always start again from its settings row.                   *)
SettingsBoot == Buildable(wanted)

(* main.rs 101-103: "Once a user has edited /api/settings the DB row takes *)
(* precedence over toml"; a restart does not change the settings.          *)
SettingsOutliveBoot == [][Restart => wanted' = wanted]_vars

(* lib.rs 271-276: every peer fits the subnet that set_subnet applies.     *)
PeersFitSubnet == subnet # None => Fits(peers, subnet)

(* Requests stop, the device stays up.                                     *)
Quiet == started /\ \A r \in Reqs : req[r].pc = "idle"

(* lib.rs 887-891: sync_from_db converges the device toward `wg_peers`:    *)
(* the same public keys ...                                                *)
KeysConverge == <>[](Quiet /\ "sync" \in scope.kinds) => <>[](DOMAIN dev = KeysOf(peers))

(* ... and the same peers, with their pre-shared keys and addresses.       *)
PeersConverge == <>[](Quiet /\ "sync" \in scope.kinds) => <>[](dev = Installed(peers))
=============================================================================
