------------------------------ MODULE Runtime ------------------------------
(***************************************************************************)
(* The life of the process (crates/nsp/src/main.rs, server.rs) and of the  *)
(* reconciler in it (crates/core/src/reconciler.rs).  The drivers boot one *)
(* after the other, then the reconciler, the control-center poller and     *)
(* the listener; writers commit and wake the reconciler in separate steps; *)
(* a signal takes the drivers down and ends the process.                   *)
(*                                                                         *)
(* A change is its number.  `asked` remembers the newest change that was   *)
(* committed when a target was last asked to read the tables, which a      *)
(* target that is up does as it boots.                                     *)
(***************************************************************************)
EXTENDS Naturals

CONSTANTS
  Enabled,    \* the drivers the configuration enables
  Reqs,       \* API requests that may be in flight together
  Poller,     \* the task of the control-center poller
  MaxVersion  \* bound on the changes committed

(* The reconciler visits the drivers in this order, and so does shutdown.  *)
Ss == 1
Wg == 2
Proxy == 3
Drivers == 1 .. 3
Writers == Reqs \union {Poller}

ASSUME RuntimeAssumption ==
  Enabled \subseteq Drivers /\ MaxVersion \in Nat /\ Poller \notin Reqs

VARIABLES
  phase,    \* what main does next
  headless, \* security.api = "disabled": no listener
  plane,    \* driver -> "up" or "down"
  wired,    \* the drivers hold the reconciler's Notify
  loop,     \* what run_loop does next
  at,       \* the driver its pass has reached
  permit,   \* the permit of the Notify
  writer,   \* writer -> its position, and the change it has committed
  version, told, asked  \* as in Converge

life     == <<phase, headless, plane, wired>>
reconcile == <<loop, at, permit>>
vars     == <<life, reconcile, writer, version, told, asked>>

C == INSTANCE Converge WITH Targets <- Enabled

Idle == [pc |-> "idle", change |-> 0]

Larger(a, b) == IF a >= b THEN a ELSE b

Init ==
  /\ phase = "wg" /\ headless \in BOOLEAN /\ wired = FALSE
  /\ plane = [t \in Drivers |-> "down"]
  /\ loop = "off" /\ at = Ss /\ permit = FALSE
  /\ writer = [w \in Writers |-> Idle]
  /\ version = 0 /\ told = 0 /\ asked = [t \in Enabled |-> 0]

Running == phase \notin {"exited", "wg", "ss", "proxy"}

----------------------------------------------------------------------------
(* Boot.  A driver that comes up has read its table.                       *)
Brings(t, s) == plane' = [plane EXCEPT ![t] = s]
Reads(t)     == asked' = [asked EXCEPT ![t] = version]

(* The process ends: what the kernel holds for WireGuard stays, all else   *)
(* goes with it.                                                           *)
Exit ==
  /\ phase' = "exited" /\ loop' = "off" /\ at' = Ss /\ permit' = FALSE /\ wired' = FALSE
  /\ writer' = [w \in Writers |-> Idle] /\ told' = 0
  /\ UNCHANGED <<headless, version, asked>>

(* spawn_real, or prepare when that fails: the node then runs without      *)
(* WireGuard until somebody starts it.  A prepare that fails is fatal.     *)
BootWg ==
  /\ phase = "wg"
  /\ \/ /\ phase' = "ss"
        /\ IF Wg \in Enabled
           THEN \/ Brings(Wg, "up") /\ Reads(Wg)
                \/ Brings(Wg, "down") /\ UNCHANGED asked
           ELSE UNCHANGED <<plane, asked>>
        /\ UNCHANGED <<headless, wired, reconcile, writer, version, told>>
     \/ Wg \in Enabled /\ UNCHANGED plane /\ Exit

(* A Shadowsocks driver that does not start ends the process ...           *)
BootSs ==
  /\ phase = "ss"
  /\ \/ /\ phase' = "proxy"
        /\ IF Ss \in Enabled THEN Brings(Ss, "up") /\ Reads(Ss) ELSE UNCHANGED <<plane, asked>>
        /\ UNCHANGED <<headless, wired, reconcile, writer, version, told>>
     \/ Ss \in Enabled /\ UNCHANGED plane /\ Exit

(* ... and a proxy that does not start is registered stopped.              *)
BootProxy ==
  /\ phase = "proxy"
  /\ phase' = "reconciler"
  /\ IF Proxy \in Enabled
     THEN \/ Brings(Proxy, "up") /\ Reads(Proxy)
          \/ UNCHANGED <<plane, asked>>
     ELSE UNCHANGED <<plane, asked>>
  /\ UNCHANGED <<headless, wired, reconcile, writer, version, told>>

(* The loop is spawned; the drivers get its Notify when they are all up,   *)
(* so what they sent while booting went nowhere.                           *)
BootReconciler ==
  /\ phase = "reconciler"
  /\ loop' = "select" /\ wired' = TRUE
  /\ phase' = "listener"
  /\ UNCHANGED <<headless, plane, at, permit, writer, version, told, asked>>

(* The poller runs from here on.  Certificates that do not load end the    *)
(* process; without a listener there is nothing to set up.                 *)
BootListener ==
  /\ phase = "listener"
  /\ \/ /\ phase' = "serve"
        /\ UNCHANGED <<headless, plane, wired, reconcile, writer, version, told, asked>>
     \/ ~headless /\ UNCHANGED plane /\ Exit

----------------------------------------------------------------------------
(* Writers commit, then wake the reconciler.                               *)

Serving(w) == IF w = Poller THEN phase \notin {"exited", "wg", "ss", "proxy", "reconciler"}
                            ELSE phase = "serve" /\ ~headless

(* Enable, disable or rotate a credential, delete a user, patch the         *)
(* settings; or one tick of the poller.                                    *)
Commit(w) ==
  /\ Serving(w) /\ writer[w].pc = "idle" /\ version < MaxVersion
  /\ version' = version + 1
  /\ \E p \in IF w = Poller THEN {"notify"} ELSE {"driver", "notify"} :
       writer' = [writer EXCEPT ![w] = [pc |-> p, change |-> version + 1]]
  /\ UNCHANGED <<life, reconcile, told, asked>>

(* Mutation: notify_waiters wakes the loop only while it waits.            *)
NotifyWaiters(w) ==
  /\ permit' = (permit \/ loop = "select") /\ told' = Larger(told, writer[w].change)

(* notify_one: the permit stays until the loop comes to take it.           *)
Notify(w) == permit' = TRUE /\ told' = Larger(told, writer[w].change)

(* The driver has queued its own tick and wakes the reconciler ...         *)
DriverNotifies(w) ==
  /\ writer[w].pc = "driver"
  /\ IF wired THEN Notify(w) ELSE UNCHANGED <<permit, told>>
  /\ writer' = [writer EXCEPT ![w].pc = "notify"]
  /\ UNCHANGED <<life, loop, at, version, asked>>

(* ... and so does the handler.                                            *)
HandlerNotifies(w) ==
  /\ writer[w].pc = "notify"
  /\ Notify(w)
  /\ writer' = [writer EXCEPT ![w] = Idle]
  /\ UNCHANGED <<life, loop, at, version, asked>>

(* The handler is dropped or its driver fails; the poller's tick fails      *)
(* after it has written, or has changed no user: nobody is told.           *)
GiveUp(w) ==
  /\ writer[w].pc # "idle"
  /\ writer' = [writer EXCEPT ![w] = Idle]
  /\ UNCHANGED <<life, reconcile, version, told, asked>>

(* start reads the table as it brings the driver up, which then notifies;   *)
(* the handler does not.                                                   *)
Start(r, t) ==
  /\ Serving(r) /\ writer[r].pc = "idle" /\ t \in Enabled /\ plane[t] = "down"
  /\ Brings(t, "up") /\ Reads(t)
  /\ writer' = [writer EXCEPT ![r] = [pc |-> "notify", change |-> version]]
  /\ UNCHANGED <<phase, headless, wired, reconcile, version, told>>

Stop(r, t) ==
  /\ Serving(r) /\ writer[r].pc = "idle" /\ plane[t] = "up"
  /\ Brings(t, "down")
  /\ UNCHANGED <<phase, headless, wired, reconcile, writer, version, told, asked>>

----------------------------------------------------------------------------
(* run_loop.                                                               *)

(* select!: the permit, and after it the debounce ...                      *)
TakePermit ==
  /\ loop = "select" /\ permit
  /\ permit' = FALSE /\ loop' = "debounce"
  /\ UNCHANGED <<life, at, writer, version, told, asked>>

(* Mutation: the tick makes a pass only when a change was told of.         *)
TickOfTold ==
  /\ loop = "select" /\ \E t \in Enabled : asked[t] < told
  /\ loop' = "pass" /\ at' = Ss
  /\ UNCHANGED <<life, permit, writer, version, told, asked>>

(* ... or the tick.                                                        *)
Tick ==
  /\ loop = "select"
  /\ loop' = "pass" /\ at' = Ss
  /\ UNCHANGED <<life, permit, writer, version, told, asked>>

Debounced ==
  /\ loop = "debounce"
  /\ loop' = "pass" /\ at' = Ss
  /\ UNCHANGED <<life, permit, writer, version, told, asked>>

(* for target in &targets: sync_from_db is called ...                      *)
Visit ==
  /\ loop = "pass" /\ at \in Enabled
  /\ loop' = "sync" /\ Reads(at)
  /\ UNCHANGED <<life, at, permit, writer, version, told>>

(* Mutation: a permit that came during the pass is dropped after it.       *)
ReturnedClears ==
  /\ loop = "sync" \/ (loop = "pass" /\ at \notin Enabled)
  /\ IF at = Proxy THEN loop' = "select" /\ permit' = FALSE /\ UNCHANGED at
                   ELSE loop' = "pass" /\ at' = at + 1 /\ UNCHANGED permit
  /\ UNCHANGED <<life, writer, version, told, asked>>

(* ... and returns, with an error or without; disabled drivers are not     *)
(* on the list.                                                            *)
Returned ==
  /\ loop = "sync" \/ (loop = "pass" /\ at \notin Enabled)
  /\ IF at = Proxy THEN loop' = "select" /\ UNCHANGED at
                   ELSE loop' = "pass" /\ at' = at + 1
  /\ UNCHANGED <<life, permit, writer, version, told, asked>>

Loop == TakePermit \/ Debounced \/ Visit \/ Returned

----------------------------------------------------------------------------
(* SIGTERM, SIGINT or a listener that cannot bind: the listener stops and   *)
(* drops its requests after 10 s,                                          *)
(* the drivers are shut down in order, the pool is closed.  The reconciler *)
(* and the poller run until then.                                          *)
Signal ==
  /\ phase = "serve"
  /\ phase' = "stop ss"
  /\ writer' = [w \in Writers |-> IF w \in Reqs THEN Idle ELSE writer[w]]
  /\ UNCHANGED <<headless, plane, wired, reconcile, version, told, asked>>

Stopping == [p \in {"stop ss", "stop wg", "stop proxy"} |->
               CASE p = "stop ss" -> Ss [] p = "stop wg" -> Wg [] OTHER -> Proxy]

After(p) == CASE p = "stop ss" -> "stop wg" [] p = "stop wg" -> "stop proxy" [] OTHER -> "close"

(* Mutation: an error ends the teardown.                                   *)
ShutdownQuits ==
  /\ phase \in DOMAIN Stopping
  /\ \/ Brings(Stopping[phase], "down") /\ phase' = After(phase)
     \/ Stopping[phase] = Wg /\ UNCHANGED plane /\ phase' = "close"
  /\ UNCHANGED <<headless, wired, reconcile, writer, version, told, asked>>

(* An error is logged and the next driver follows; the one that can leave   *)
(* something standing is WireGuard, whose device does not go away.         *)
Shutdown ==
  /\ phase \in DOMAIN Stopping
  /\ \/ Brings(Stopping[phase], "down")
     \/ Stopping[phase] = Wg /\ UNCHANGED plane
  /\ phase' = After(phase)
  /\ UNCHANGED <<headless, wired, reconcile, writer, version, told, asked>>

ClosePool == phase = "close" /\ UNCHANGED plane /\ Exit

(* The process is killed.                                                  *)
Crash == phase # "exited" /\ Exit /\ UNCHANGED plane

(* The next process: the user-space planes are gone with the last one.     *)
Restart ==
  /\ phase = "exited"
  /\ phase' = "wg"
  /\ plane' = [t \in Drivers |-> IF t = Wg THEN plane[t] ELSE "down"]
  /\ UNCHANGED <<headless, wired, reconcile, writer, version, told, asked>>

Boot == BootWg \/ BootSs \/ BootProxy \/ BootReconciler \/ BootListener

Next ==
  \/ Boot \/ Signal \/ Shutdown \/ ClosePool \/ Crash \/ Restart
  \/ Loop \/ Tick
  \/ \E w \in Writers : Commit(w) \/ DriverNotifies(w) \/ HandlerNotifies(w) \/ GiveUp(w)
  \/ \E r \in Reqs, t \in Enabled : Start(r, t) \/ Stop(r, t)

Spec == Init /\ [][Next]_vars

(* The loop is a task of its own: a permit is taken, the debounce is a      *)
(* sleep, and a driver returns from sync_from_db.  The tick is left out on *)
(* purpose, so that what is shown of a notify does not rest on it.         *)
FairSpec == Spec /\ WF_vars(Loop)

----------------------------------------------------------------------------
Phases == {"wg", "ss", "proxy", "reconciler", "listener", "serve", "stop ss", "stop wg",
           "stop proxy", "close", "exited"}

TypeOK ==
  /\ phase \in Phases /\ headless \in BOOLEAN /\ wired \in BOOLEAN
  /\ plane \in [Drivers -> {"up", "down"}]
  /\ loop \in {"off", "select", "debounce", "pass", "sync"} /\ at \in Drivers
  /\ permit \in BOOLEAN
  /\ writer \in [Writers -> [pc : {"idle", "driver", "notify"}, change : 0 .. MaxVersion]]
  /\ version \in 0 .. MaxVersion /\ told \in 0 .. MaxVersion
  /\ asked \in [Enabled -> 0 .. MaxVersion]

Behind(t) == t \in Enabled /\ asked[t] < told

(* reconciler.rs 61-66, 92: no wake is lost.  Unless the permit is there    *)
(* for another pass, whatever a target has not been asked for yet is still *)
(* before it in the pass that is going on or coming.                       *)
NoLostWakeup ==
  ~permit => /\ loop \in {"off", "select"} => \A t \in Enabled : ~Behind(t)
             /\ loop = "pass" => \A t \in Enabled : Behind(t) => t >= at
             /\ loop = "sync" => \A t \in Enabled : Behind(t) => t > at

(* What NoLostWakeup rests on: nobody knows of a change that is not         *)
(* committed, and while there is no loop nobody has told of one.           *)
Known ==
  /\ told <= version /\ \A t \in Enabled : asked[t] <= version
  /\ \A w \in Writers : writer[w].change <= version
  /\ loop = "off" <=> phase \in {"wg", "ss", "proxy", "reconciler", "exited"}
  /\ loop = "off" => told = 0 /\ ~permit /\ \A w \in Writers : writer[w] = Idle

(* The loop implements the promise of Converge without the help of its      *)
(* tick: a change that was told of is followed by a visit to every target  *)
(* that begins after its commit.                                           *)
ImplementsConverge == C!Spec

(* With the tick nothing needs to be told: a change whose writer was        *)
(* dropped, or failed after its commit, reaches the targets as well, as    *)
(* long as the process lives.                                              *)
TickCatchesUp ==
  WF_vars(Tick) /\ <>[](loop # "off") => \A t \in Enabled : <>[](version = asked[t])

(* server.rs 70-97: no driver that reads the tables to let a client in is   *)
(* up when the pool is closed, though the WireGuard device may not go.     *)
PoolOutlivesDrivers == phase = "close" => plane[Ss] = "down" /\ plane[Proxy] = "down"

(* A boot that fails takes down what it has brought up (the same teardown   *)
(* as at the end of a process, server.rs 44-50).                           *)
FailedBootLeavesNothing == [][Boot /\ phase' = "exited" => plane[Wg] = "down"]_vars
=============================================================================
