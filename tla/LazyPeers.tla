----------------------------- MODULE LazyPeers -----------------------------
(***************************************************************************)
(* The lazy userspace backend (wg-driver/src/backend/lazy.rs and           *)
(* userspace.rs).  The device starts without peers; a handshake init from  *)
(* a key that is not installed starts a task that looks the key up and     *)
(* installs it, and a loop evicts the peers that have had no handshake for *)
(* three minutes.  A mirror of what is installed and a cache of unknown    *)
(* keys keep the receive path off the database.  Beside them run the calls *)
(* of the driver: enable, disable and rotate of a user, the reconciler's   *)
(* sync_from_db, start and stop.                                           *)
(*                                                                         *)
(* A row is known by its public key (UNIQUE).  A device call and the       *)
(* update of the mirror after it are two steps, as in the code.  gotatun   *)
(* itself is external: its table of peers, where the last peer installed   *)
(* for an address gets it, and its handshakes.                             *)
(***************************************************************************)
EXTENDS Integers, Sequences, FiniteSets, Functions

CONSTANTS
  Keys,       \* public keys of clients
  Ips,        \* allowed addresses
  IpOf,       \* the address a row with that key has
  Clients,    \* the keys whose client sends handshakes
  None,
  MaxWrites,  \* bound on requests that change rows
  MaxFaults,  \* bound on failing lookups, dropped requests and crashes
  Scopes      \* what takes part: one of these sets of "stop", "handshakes" and
              \* "pair" (requests for keys that are not in Clients)

ASSUME LazyAssumption ==
  /\ IpOf \in [Keys -> Ips] /\ Clients \subseteq Keys /\ None \notin Keys
  /\ MaxWrites \in Nat /\ MaxFaults \in Nat
  /\ Scopes \subseteq SUBSET {"stop", "handshakes", "pair"}

VARIABLES
  rows,      \* wg_peers
  started,   \* WgDriverInner.started
  device,    \* LazyState.device is Some
  ctx,       \* LazyState.ctx is Some
  evictor,   \* the eviction loop: "none"; "on", its handle in LazyState.eviction;
             \* "cancelled" while it slept; "last", cancelled and in its last pass
  tun,       \* a gotatun device exists in this process
  peers,     \* its peers, each with the age of its last handshake
  route,     \* its table of allowed addresses
  installed, \* LazyContext.installed
  negative,  \* LazyContext.negative, by age of the entry
  checked,   \* keys a receive task has found in neither
  task,      \* resolve_and_install, by key; "none" when not in_flight
  todo,      \* what sync_from_db and evict_idle still have to do, by caller
  calls,     \* calls into the backend that are under way, by caller
  life,      \* the steps that the start or the stop under way still has to take
  abandoned, \* history: a stop was dropped while it waited for the eviction
  writes, faults,
  scope

vars == <<rows, started, device, ctx, evictor, tun, peers, route, installed, negative, checked, task,
          todo, calls, life, abandoned, writes, faults, scope>>

table   == <<peers, route>>
slots   == <<device, ctx, evictor>>
driver  == <<started, slots, tun, life, abandoned>>
context == <<installed, negative, checked, task>>
bounds  == <<writes, faults>>

Callers == {"request", "sync", "evict"}
Quiet   == [out |-> {}, in |-> {}]
Absent  == "absent"
Stages  == {"none", "query", "found", "added"}
Call    == [do : {"insert", "plug", "note", "unplug", "forget", "erase"}, key : Keys]
C(do, k) == [do |-> do, key |-> k]

Live == {k \in Keys : peers[k] # Absent}

Init ==
  /\ rows = {} /\ started = FALSE /\ tun = FALSE
  /\ device = FALSE /\ ctx = FALSE /\ evictor = "none"
  /\ peers = [k \in Keys |-> Absent] /\ route = [a \in Ips |-> None]
  /\ installed = {} /\ negative = [k \in Keys |-> "none"] /\ checked = {}
  /\ task = [k \in Keys |-> "none"]
  /\ todo = [c \in Callers |-> Quiet] /\ calls = [c \in Callers |-> <<>>]
  /\ life = <<>> /\ abandoned = FALSE /\ writes = 0 /\ faults = 0 /\ scope \in Scopes

Fault == faults < MaxFaults /\ faults' = faults + 1

----------------------------------------------------------------------------
(* gotatun's table.                                                        *)

Plugged(k, age) ==
  /\ peers' = [peers EXCEPT ![k] = age]
  /\ route' = [route EXCEPT ![IpOf[k]] = k]

Unplugged(k) ==
  /\ peers' = [peers EXCEPT ![k] = Absent]
  /\ route' = [a \in Ips |-> IF route[a] = k THEN None ELSE route[a]]

----------------------------------------------------------------------------
(* The receive path.                                                       *)

(* try_register: the mirror and the cache are looked at first.             *)
Misses(k) == k \notin installed /\ negative[k] # "fresh"

TryRegister(k) == checked' = IF Misses(k) THEN checked \union {k} ELSE checked

(* LazyPeerUdpRecv::recv_from: a packet of a client is looked at, then      *)
(* goes on to gotatun, which answers a peer it has.                        *)
Receive(k) ==
  /\ "handshakes" \in scope /\ k \in Clients /\ tun
  /\ TryRegister(k)
  /\ peers' = [peers EXCEPT ![k] = IF @ = Absent THEN @ ELSE "recent"]
  /\ <<checked, peers>>' # <<checked, peers>>
  /\ UNCHANGED <<rows, driver, route, installed, negative, task, todo, calls, bounds>>

(* in_flight: one task per key.                                            *)
TakeFlight(k) ==
  /\ k \in checked /\ checked' = checked \ {k}
  /\ task' = [task EXCEPT ![k] = IF @ = "none" THEN "query" ELSE @]
  /\ UNCHANGED <<rows, driver, table, installed, negative, todo, calls, bounds>>

(* WgPeerRepo::get_by_public_key.                                           *)
Found(k) == k \in rows

(* resolve_and_install: an unknown key goes to the cache.                  *)
Lookup(k) ==
  /\ task[k] = "query"
  /\ IF Found(k)
       THEN task' = [task EXCEPT ![k] = "found"] /\ UNCHANGED negative
       ELSE task' = [task EXCEPT ![k] = "none"] /\ negative' = [negative EXCEPT ![k] = "fresh"]
  /\ UNCHANGED <<rows, driver, table, installed, checked, todo, calls, bounds>>

(* The query or add_peer fails: logged, not cached.                        *)
LookupFails(k) ==
  /\ task[k] \in {"query", "found"} /\ Fault
  /\ task' = [task EXCEPT ![k] = "none"]
  /\ UNCHANGED <<rows, driver, table, installed, negative, checked, todo, calls, writes>>

(* DeviceInstaller::add, on the device the context was made for.           *)
AddFound(k) ==
  /\ task[k] = "found" /\ task' = [task EXCEPT ![k] = "added"]
  /\ Plugged(k, "none")
  /\ UNCHANGED <<rows, driver, installed, negative, checked, todo, calls, bounds>>

NoteFound(k) ==
  /\ task[k] = "added" /\ task' = [task EXCEPT ![k] = "none"]
  /\ installed' = installed \union {k} /\ negative' = [negative EXCEPT ![k] = "none"]
  /\ UNCHANGED <<rows, driver, table, checked, todo, calls, bounds>>

Resolve(k) == TakeFlight(k) \/ Lookup(k) \/ AddFound(k) \/ NoteFound(k)

(* Time: a handshake gets older than EVICTION_IDLE, an entry of the cache  *)
(* older than NEGATIVE_TTL.                                                *)
Age(k) ==
  /\ \/ /\ peers[k] = "recent" /\ peers' = [peers EXCEPT ![k] = "old"] /\ UNCHANGED negative
     \/ /\ negative[k] = "fresh" /\ negative' = [negative EXCEPT ![k] = "expired"] /\ UNCHANGED peers
  /\ UNCHANGED <<rows, driver, route, installed, checked, task, todo, calls, bounds>>

----------------------------------------------------------------------------
(* Calls.  Each caller runs its own, one after the other.                  *)

Continue(c) == calls' = [calls EXCEPT ![c] = Tail(@)]
Drop(c)     == calls' = [calls EXCEPT ![c] = <<>>]

(* The driver asks a started backend only; sync_from_db has checked that   *)
(* before, and the eviction has its own handle of the device.              *)
Reaches(c) ==
  CASE c = "request" -> started /\ device
    [] c = "sync"    -> device
    [] c = "evict"   -> tun

(* add_or_update_peer; NotStarted ends the request.                        *)
Plug(c, k) ==
  /\ IF Reaches(c) THEN Plugged(k, "none") /\ Continue(c) ELSE Drop(c) /\ UNCHANGED table
  /\ UNCHANGED <<rows, installed>>

Note(c, k) ==
  /\ installed' = IF ctx THEN installed \union {k} ELSE installed
  /\ Continue(c) /\ UNCHANGED <<rows, table>>

(* remove_peer; its failure is ignored.                                    *)
Unplug(c, k) ==
  /\ IF Reaches(c)
       THEN Unplugged(k) /\ Continue(c)
       ELSE calls' = [calls EXCEPT ![c] = Tail(Tail(@))] /\ UNCHANGED table
  /\ UNCHANGED <<rows, installed>>

Forget(c, k) ==
  /\ installed' = IF ctx \/ c = "evict" THEN installed \ {k} ELSE installed
  /\ Continue(c) /\ UNCHANGED <<rows, table>>

InsertRow(c, k) ==
  /\ IF \A j \in rows : IpOf[j] # IpOf[k] /\ j # k
       THEN rows' = rows \union {k} /\ Continue(c) ELSE Drop(c) /\ UNCHANGED rows
  /\ UNCHANGED <<table, installed>>

EraseRow(c, k) == rows' = rows \ {k} /\ Continue(c) /\ UNCHANGED <<table, installed>>

Perform(c) ==
  /\ calls[c] # <<>>
  /\ LET k == Head(calls[c]).key IN
       CASE Head(calls[c]).do = "insert" -> InsertRow(c, k)
         [] Head(calls[c]).do = "plug"   -> Plug(c, k)
         [] Head(calls[c]).do = "note"   -> Note(c, k)
         [] Head(calls[c]).do = "unplug" -> Unplug(c, k)
         [] Head(calls[c]).do = "forget" -> Forget(c, k)
         [] Head(calls[c]).do = "erase"  -> EraseRow(c, k)
  /\ UNCHANGED <<driver, negative, checked, task, todo, bounds>>

(* One request at a time; it may be dropped at any await.                  *)
Ask(seq) ==
  /\ calls["request"] = <<>> /\ writes < MaxWrites /\ writes' = writes + 1
  /\ calls' = [calls EXCEPT !["request"] = seq]
  /\ UNCHANGED <<rows, driver, table, context, todo, faults>>

(* enable_user_wg and disable_user_wg.                                     *)
Enable(k)  == k \notin rows /\ Ask(<<C("insert", k), C("plug", k), C("note", k)>>)
Disable(k) == k \in rows /\ Ask(<<C("unplug", k), C("forget", k), C("erase", k)>>)

(* rotate_user_wg: the row first, then the device.                         *)
Rotate(k, new) ==
  /\ k \in rows /\ new \notin rows /\ IpOf[new] = IpOf[k]
  /\ calls["request"] = <<>> /\ writes < MaxWrites /\ writes' = writes + 1
  /\ rows' = (rows \ {k}) \union {new}
  /\ calls' = [calls EXCEPT !["request"] =
                 <<C("unplug", k), C("forget", k), C("plug", new), C("note", new)>>]
  /\ UNCHANGED <<driver, table, context, todo, faults>>

(* The control center or a deletion of the user: the row goes by cascade.  *)
Cascade(k) ==
  /\ k \in rows /\ writes < MaxWrites /\ writes' = writes + 1 /\ rows' = rows \ {k}
  /\ UNCHANGED <<driver, table, context, todo, calls, faults>>

GiveUp ==
  /\ calls["request"] # <<>> /\ Fault /\ Drop("request")
  /\ UNCHANGED <<rows, driver, table, context, todo, writes>>

----------------------------------------------------------------------------
(* sync_from_db and evict_idle.  Their lists are read once; a key is       *)
(* removed or installed some time later.                                   *)

Free(c) == calls[c] = <<>> /\ todo[c] = Quiet

(* Mutation: a key is taken to be live when the mirror has it.             *)
SyncListMirror ==
  /\ started /\ Free("sync")
  /\ todo' = [todo EXCEPT !["sync"] = [out |-> Live \ rows, in |-> rows \ installed]]
  /\ UNCHANGED <<rows, driver, table, context, calls, bounds>>

(* Mutation: nothing is removed.                                           *)
SyncListAdds ==
  /\ started /\ Free("sync")
  /\ todo' = [todo EXCEPT !["sync"] = [out |-> {}, in |-> rows \ Live]]
  /\ UNCHANGED <<rows, driver, table, context, calls, bounds>>

(* The live keys are the device's, and every missing row is installed,     *)
(* whatever eager_seed_peers says.                                         *)
SyncList ==
  /\ started /\ Free("sync")
  /\ todo' = [todo EXCEPT !["sync"] = [out |-> Live \ rows, in |-> rows \ Live]]
  /\ UNCHANGED <<rows, driver, table, context, calls, bounds>>

(* Every minute: whoever has had no handshake, or none lately.  Expired    *)
(* entries of the cache go.  A loop that was cancelled while it slept may  *)
(* still make a pass: select! picks any branch that is ready.              *)
EvictList ==
  /\ evictor \in {"on", "cancelled"} /\ Free("evict")
  /\ evictor' = IF evictor = "on" THEN "on" ELSE "last"
  /\ todo' = [todo EXCEPT !["evict"] = [out |-> {k \in Live : peers[k] # "recent"}, in |-> {}]]
  /\ negative' = [k \in Keys |-> IF negative[k] = "expired" THEN "none" ELSE negative[k]]
  /\ UNCHANGED <<rows, started, device, ctx, tun, table, installed, checked, task, calls, life, abandoned, bounds>>

(* After the pass it is in the loop breaks.                                *)
EvictionBreaks ==
  /\ evictor \in {"cancelled", "last"} /\ Free("evict") /\ evictor' = "none"
  /\ UNCHANGED <<rows, started, device, ctx, tun, table, context, todo, calls, life, abandoned, bounds>>

Pick(c) ==
  /\ calls[c] = <<>>
  /\ \/ \E k \in todo[c].out :
          /\ todo' = [todo EXCEPT ![c].out = @ \ {k}]
          /\ calls' = [calls EXCEPT ![c] = <<C("unplug", k), C("forget", k)>>]
     \/ \E k \in todo[c].in :
          /\ todo[c].out = {}
          /\ todo' = [todo EXCEPT ![c].in = @ \ {k}]
          /\ calls' = [calls EXCEPT ![c] = <<C("plug", k), C("note", k)>>]
  /\ UNCHANGED <<rows, driver, table, context, bounds>>

----------------------------------------------------------------------------
(* Lifecycle: one start or stop at a time, each a list of steps, and each  *)
(* may be dropped at any await between two of them.                        *)

EmptyTable == peers' = [k \in Keys |-> Absent] /\ route' = [a \in Ips |-> None]

(* LazyContext::new.                                                       *)
NewContext == installed' = {} /\ negative' = [k \in Keys |-> "none"]

Steps == {"hold", "place", "spawn", "start", "cancel", "await", "clear", "release"}
Bring == <<"hold", "place", "spawn", "start">>
Takes(step) == life # <<>> /\ Head(life) = step

(* Mutation: the eviction is cancelled and not awaited.                    *)
LeaveAtOnce == <<"cancel", "clear", "release">>
Leave == <<"cancel", "await", "clear", "release">>

(* spawn_real; up has nothing to do while there is a device.  Otherwise:   *)
(* no peers, a new context, its installer, then the key.  create_tun fails *)
(* while the interface is there.                                           *)
Start ==
  /\ life = <<>> /\ ~started
  /\ \/ /\ device /\ life' = <<"start">> /\ UNCHANGED <<tun, table, installed, negative>>
     \/ /\ ~device /\ ~tun /\ tun' = TRUE /\ life' = Bring /\ EmptyTable /\ NewContext
  /\ UNCHANGED <<rows, started, slots, checked, task, todo, calls, abandoned, bounds>>

(* stop: the flag first; a driver that is not started is left as it is.    *)
Stop ==
  /\ "stop" \in scope /\ life = <<>> /\ started /\ started' = FALSE /\ life' = Leave
  /\ UNCHANGED <<rows, slots, tun, table, context, todo, calls, abandoned, bounds>>

Fill ==
  /\ \/ Takes("hold") /\ ctx' = TRUE /\ UNCHANGED <<started, device, evictor>>
     \/ Takes("place") /\ device' = TRUE /\ UNCHANGED <<started, ctx, evictor>>
     \/ Takes("spawn") /\ evictor' = "on" /\ UNCHANGED <<started, device, ctx>>
     \/ Takes("start") /\ started' = TRUE /\ UNCHANGED slots
  /\ life' = Tail(life)

(* Whoever takes the handle out of its slot cancels the loop and waits for *)
(* it; a stop that finds the slot empty has nothing to wait for.           *)
Cancel ==
  /\ Takes("cancel")
  /\ IF evictor = "on"
       THEN evictor' = (IF Free("evict") THEN "cancelled" ELSE "last") /\ life' = Tail(life)
       ELSE life' = <<"clear", "release">> /\ UNCHANGED evictor
  /\ UNCHANGED <<started, device, ctx>>

(* The slots are emptied.  That drops neither: the context keeps an        *)
(* installer with the device, and the device's receive halves keep the     *)
(* context.  They go with the process.                                     *)
Empty ==
  /\ \/ Takes("await") /\ evictor = "none" /\ UNCHANGED <<device, ctx>>
     \/ Takes("clear") /\ device' = FALSE /\ UNCHANGED ctx
     \/ Takes("release") /\ ctx' = FALSE /\ UNCHANGED device
  /\ life' = Tail(life) /\ UNCHANGED <<started, evictor>>

Proceed ==
  /\ Fill \/ Cancel \/ Empty
  /\ UNCHANGED <<rows, tun, table, context, todo, calls, abandoned, bounds>>

(* The client of a start or a stop goes away, or set_private_key fails.    *)
Abandon ==
  /\ life # <<>> /\ Fault /\ life' = <<>>
  /\ abandoned' = (abandoned \/ Takes("await"))
  /\ UNCHANGED <<rows, started, slots, tun, table, context, todo, calls, writes>>

Crash ==
  /\ Fault
  /\ started' = FALSE /\ device' = FALSE /\ ctx' = FALSE /\ evictor' = "none" /\ tun' = FALSE
  /\ life' = <<>> /\ abandoned' = FALSE
  /\ EmptyTable /\ NewContext /\ checked' = {}
  /\ task' = [k \in Keys |-> "none"]
  /\ todo' = [c \in Callers |-> Quiet] /\ calls' = [c \in Callers |-> <<>>]
  /\ UNCHANGED <<rows, writes>>

----------------------------------------------------------------------------
Asked == IF "pair" \in scope THEN Keys ELSE Clients

Request ==
  \/ \E k \in Asked : Enable(k) \/ Disable(k) \/ Cascade(k)
  \/ \E k, new \in Asked : Rotate(k, new)
  \/ GiveUp

Next ==
  \/ \E k \in Keys : Receive(k) \/ Resolve(k) \/ LookupFails(k) \/ Age(k)
  \/ Request
  \/ \E c \in Callers : Perform(c) \/ Pick(c)
  \/ SyncList \/ EvictList \/ EvictionBreaks
  \/ Start \/ Stop \/ Proceed \/ Abandon \/ Crash

Spec == Init /\ [][Next /\ UNCHANGED scope]_vars

(* Tasks run to their end, the reconciler ticks every 30 s and the         *)
(* eviction every 60 s; a start or a stop that is not dropped goes on, and *)
(* a loop that was cancelled breaks.                                       *)
FairSpec ==
  /\ Spec
  /\ \A k \in Keys : WF_vars(Resolve(k) /\ UNCHANGED scope)
  /\ \A c \in Callers : WF_vars((Perform(c) \/ Pick(c)) /\ UNCHANGED scope)
  /\ WF_vars(SyncList /\ UNCHANGED scope)
  /\ WF_vars(EvictList /\ UNCHANGED scope)
  /\ WF_vars(EvictionBreaks /\ UNCHANGED scope)
  /\ WF_vars(Proceed /\ UNCHANGED scope)

----------------------------------------------------------------------------
TypeOK ==
  /\ rows \subseteq Keys /\ {started, device, ctx, tun, abandoned} \subseteq BOOLEAN
  /\ evictor \in {"none", "on", "cancelled", "last"}
  /\ peers \in [Keys -> {Absent, "none", "recent", "old"}] /\ route \in [Ips -> Keys \union {None}]
  /\ installed \subseteq Keys /\ checked \subseteq Keys
  /\ negative \in [Keys -> {"none", "fresh", "expired"}] /\ task \in [Keys -> Stages]
  /\ todo \in [Callers -> [out : SUBSET Keys, in : SUBSET Keys]]
  /\ \A c \in Callers : Len(calls[c]) <= 4 /\ \A n \in DOMAIN calls[c] : calls[c][n] \in Call
  /\ life \in Seq(Steps) /\ Len(life) <= 4 /\ scope \in Scopes
  /\ writes \in 0 .. MaxWrites /\ faults \in 0 .. MaxFaults
  /\ device => tun

(* userspace.rs 150-163, 331: wherever starts and stops are dropped, a      *)
(* driver without a device has no eviction loop that goes on; and nothing  *)
(* of the eviction is at work then, unless a stop was dropped while it     *)
(* waited for it: that loop is in its last pass at most.                   *)
EvictionEnds ==
  ~device => \/ evictor = "none" /\ Free("evict")
             \/ abandoned /\ evictor \in {"cancelled", "last"}

(* lib.rs:887 "Converge the live device toward the wg_peers table": a key   *)
(* that has lost its row leaves the device for good, although a lookup     *)
(* made before installs it later.                                          *)
RevokedLeaves ==
  \A k \in Keys : <>[](started /\ k \notin rows) => <>[](k \notin Live)

(* And a key with a row comes back whenever it was evicted, although the    *)
(* mirror may say that it is there and the cache that it is unknown.       *)
EnabledServed ==
  \A k \in Keys : <>[](started /\ k \in rows) => []<>(k \in Live)

(* lib.rs:210-212 "only the actively-handshaking subset stays resident on   *)
(* the device": a peer is installed for its handshake or by its request.   *)
OnDemandOnly ==
  [][\A k \in Keys : k \notin Live /\ k \in Live' =>
        \/ task[k] = "found"
        \/ calls["request"] # <<>> /\ Head(calls["request"]) = C("plug", k)]_vars

(* lib.rs:476-478 "Bring the data plane down and release any kernel         *)
(* resources."                                                             *)
StoppedMeansDown == ~started /\ life = <<>> => ~tun

(* userspace.rs:49-50 "How often the eviction loop runs in lazy mode."      *)
EvictsWhileUp == started => evictor = "on"

(* lazy.rs:33-36 "one DB lookup per unique forged pubkey per minute".       *)
OneLookup ==
  [][\A k \in Keys : task[k] = "none" /\ task'[k] = "query" => negative[k] # "fresh"]_vars

(* userspace.rs:53-57: what is evicted "has no live session".               *)
EvictsOnlyIdle ==
  [][\A k \in Keys : calls["evict"] # <<>> /\ Head(calls["evict"]) = C("unplug", k)
                        /\ calls'["evict"] # calls["evict"] => peers[k] # "recent"]_vars

(* lazy.rs:87-90 installed: "pubkeys we have already installed on the       *)
(* device", when nobody is at work on the key.                             *)
MirrorTrue ==
  \A k \in installed :
    device /\ task[k] = "none" /\ (\A c \in Callers : \A n \in DOMAIN calls[c] : calls[c][n].key # k)
      => k \in Live

(* An address in use is routed to the peer that has it.                    *)
RoutesConverge ==
  \A k \in Keys : <>[](started /\ k \in rows) => []<>(route[IpOf[k]] = k)
=============================================================================
