------------------------------ MODULE SsDriver ------------------------------
(***************************************************************************)
(* The Shadowsocks driver (crates/ss-driver/src/driver.rs): requests       *)
(* commit a credential, then send a tick; an apply loop debounces ticks    *)
(* and swaps the running server for one built from the database.  start    *)
(* and stop run beside it, and the reconciler sends a tick of its own.     *)
(*                                                                         *)
(* An apply channel and the loop that consumes it are one entry of `loop`: *)
(* pc "slot" is a receiver still in ApplyChannel, "dead" one that was      *)
(* dropped, the others are the positions of the loop and of do_swap in it. *)
(***************************************************************************)
EXTENDS Naturals, FiniteSets

CONSTANTS
  Users,   \* the users that exist at first
  Ports,   \* values of settings.ss_listen_port
  Reqs,    \* API requests that may be in flight together
  Starters, \* the requests among them that may start and stop the driver
  Scopes,  \* what takes part: some of the ports and requests, and some of AllKinds
  Chans,   \* apply channels, used again once dead
  MaxPsk,  \* bound on the PSKs generated since boot; an older one is 0
  None

AllKinds == {"enable", "disable", "rotate", "patch", "reload", "delete", "start", "stop",
             "giveup", "failure", "contention"}

ASSUME SsAssumption ==
  /\ Scopes \subseteq [ports : SUBSET Ports, reqs : SUBSET Reqs, kinds : SUBSET AllKinds]
  /\ Starters \subseteq Reqs
  /\ Ports # {} /\ Chans # {} /\ MaxPsk \in Nat
  /\ None \notin Users \union Ports \union Chans \union Nat

VARIABLES
  \* SQLite
  users,    \* rows of `users`
  creds,    \* user -> PSK of its ss_credentials row, or None
  conf,     \* settings.ss_listen_port
  \* inner.listen, inner.state and inner.apply_ch
  listen,   \* the port of the next server
  running,  \* state.running
  slot,     \* state.task and state.cancel: the server they control, or None
  handle,   \* state.apply_task: the channel of the loop it controls, or None
  cur,      \* the current apply channel
  \* tasks
  loop,     \* channel -> its receiver, pending ticks and loop
  orphaned, \* a server runs that nobody can cancel any more
  req,      \* request -> its position in the handler
  permit,   \* the reconciler's Notify permit
  fresh,    \* last generated PSK
  scope     \* never changes: a behaviour belongs to one of Scopes

row   == <<users, creds, conf>>
state == <<listen, running, slot, handle, cur>>
vars  == <<row, state, loop, orphaned, req, permit, fresh, scope>>

Server == [users : [Users -> (0 .. MaxPsk) \union {None}], port : Ports]

NoLoop == [pc |-> "dead", pending |-> FALSE, aborted |-> FALSE, failed |-> FALSE, users |-> None,
           prev |-> FALSE, next |-> None]
Idle   == [pc |-> "idle", user |-> None, old |-> None, port |-> None, srv |-> FALSE, chan |-> None]

(* Dead channels are interchangeable: a new one takes the first free name. *)
First == CHOOSE c \in Chans : TRUE
IsFree(c) == c # cur /\ loop[c].pc = "dead"
Free == CHOOSE c \in Chans : IsFree(c)

(* ss.spawn() starts the apply loop and gives it a first tick.             *)
Spawned == [d \in Chans |-> IF d = First THEN [NoLoop EXCEPT !.pc = "recv", !.pending = TRUE]
                                         ELSE NoLoop]

(* The port comes from the settings row.                                   *)
Boot ==
  /\ listen' = conf
  /\ running' = TRUE /\ slot' = None /\ handle' = First /\ cur' = First
  /\ loop' = Spawned
  /\ orphaned' = FALSE /\ req' = [r \in Reqs |-> Idle] /\ permit' = FALSE

Init ==
  /\ scope \in Scopes
  /\ users = Users /\ creds \in [Users -> {0, None}] /\ conf \in scope.ports
  /\ listen = conf /\ running = TRUE /\ slot = None
  /\ cur = First /\ handle = First /\ loop = Spawned
  /\ orphaned = FALSE /\ req = [r \in Reqs |-> Idle] /\ permit = FALSE
  /\ fresh = 0

Accepts(r, kind) == kind \in scope.kinds /\ r \in scope.reqs /\ req[r].pc = "idle"
Go(r, p) == req' = [req EXCEPT ![r].pc = p]
Done(r)  == req' = [req EXCEPT ![r] = Idle]

(* apply_all: a send into the current channel, an error once its receiver  *)
(* is gone.  Ticks that wait in the channel are as good as one.            *)
Open == loop[cur].pc # "dead"
Tick == loop' = [loop EXCEPT ![cur].pending = TRUE]

----------------------------------------------------------------------------
(* Credentials and the listener.                                           *)

(* SsRepo: a transaction each; a credential needs its user (foreign key).  *)
SetPsk(u) == fresh < MaxPsk /\ fresh' = fresh + 1 /\ creds' = [creds EXCEPT ![u] = fresh']
UpsertPsk(u)  == u \in users /\ SetPsk(u)
UpdatePsk(u)  == creds[u] # None /\ SetPsk(u)
DropPsk(u)    == creds' = [creds EXCEPT ![u] = None]
ListUsers     == creds
GetUser(u)    == creds[u]

(* enable_user.                                                            *)
Enable(r, u) ==
  /\ Accepts(r, "enable") /\ UpsertPsk(u)
  /\ Go(r, "check")
  /\ UNCHANGED <<users, conf, state, loop, orphaned, permit>>

Disable(r, u) ==
  /\ Accepts(r, "disable") /\ u \in users
  /\ DropPsk(u)
  /\ Go(r, "check")
  /\ UNCHANGED <<users, conf, state, loop, orphaned, permit, fresh>>

(* rotate_user; the row is read again before the tick.                     *)
Rotate(r, u) ==
  /\ Accepts(r, "rotate") /\ UpdatePsk(u)
  /\ req' = [req EXCEPT ![r].pc = "reread", ![r].user = u]
  /\ UNCHANGED <<users, conf, state, loop, orphaned, permit>>

(* Another request may have removed the row by now.                        *)
Reread(r) ==
  /\ req[r].pc = "reread"
  /\ IF GetUser(req[r].user) = None
     THEN Done(r)
     ELSE req' = [req EXCEPT ![r].pc = "tick", ![r].user = None]
  /\ UNCHANGED <<row, state, loop, orphaned, permit, fresh>>

(* PATCH /api/settings: read the row, write it, and tell the driver of a   *)
(* port that differs from the one read.                                    *)
PatchRead(r, p) ==
  /\ Accepts(r, "patch")
  /\ req' = [req EXCEPT ![r].pc = "patch", ![r].old = conf, ![r].port = p]
  /\ UNCHANGED <<row, state, loop, orphaned, permit, fresh>>

PatchCommit(r) ==
  /\ req[r].pc = "patch"
  /\ conf' = req[r].port
  /\ req' = [req EXCEPT ![r].pc = IF req[r].old # req[r].port THEN "listen" ELSE "notify",
                        ![r].old = None]
  /\ UNCHANGED <<users, creds, state, loop, orphaned, permit, fresh>>

(* POST /api/reload tells the driver whatever the row says.                *)
Reload(r) ==
  /\ Accepts(r, "reload")
  /\ req' = [req EXCEPT ![r].pc = "listen", ![r].port = conf]
  /\ UNCHANGED <<row, state, loop, orphaned, permit, fresh>>

(* set_listen: a port that is already the listener's needs no tick.        *)
SetListen(r) ==
  /\ req[r].pc = "listen"
  /\ listen' = req[r].port
  /\ req' = [req EXCEPT ![r].pc = IF listen # req[r].port THEN "check" ELSE "notify",
                        ![r].port = None]
  /\ UNCHANGED <<row, running, slot, handle, cur, loop, orphaned, permit, fresh>>

(* A stopped driver needs no tick: the next start reads the database.      *)
CheckRunning(r) ==
  /\ req[r].pc = "check"
  /\ Go(r, IF running THEN "tick" ELSE "notify")
  /\ UNCHANGED <<row, state, loop, orphaned, permit, fresh>>

(* An error of apply_all ends the request before it wakes the reconciler.  *)
SendTick(r) ==
  /\ req[r].pc = "tick"
  /\ IF Open THEN Tick /\ Go(r, "notify") ELSE Done(r) /\ UNCHANGED loop
  /\ UNCHANGED <<row, state, orphaned, permit, fresh>>

WakeReconciler(r) ==
  /\ req[r].pc = "notify"
  /\ permit' = TRUE
  /\ Done(r)
  /\ UNCHANGED <<row, state, loop, orphaned, fresh>>

(* Mutation: the credential stays behind when its user goes.               *)
DeleteUserAlone(r, u) ==
  /\ Accepts(r, "delete") /\ u \in users
  /\ users' = users \ {u}
  /\ Go(r, "notify")
  /\ UNCHANGED <<creds, conf, state, loop, orphaned, permit, fresh>>

(* The user goes and ON DELETE CASCADE takes the credential; the handler   *)
(* (or the control poller) then wakes the reconciler.                      *)
DeleteUser(r, u) ==
  /\ Accepts(r, "delete") /\ u \in users
  /\ users' = users \ {u} /\ creds' = [creds EXCEPT ![u] = None]
  /\ Go(r, "notify")
  /\ UNCHANGED <<conf, state, loop, orphaned, permit, fresh>>

----------------------------------------------------------------------------
(* The apply loop.  Once aborted it is not polled again after its next     *)
(* await that has to wait: it may still run up to there, or be gone.       *)
Awaits(c) == ~loop[c].aborted
At(c, p)  == loop[c].pc = p

Recv(c) ==
  /\ At(c, "recv") /\ Awaits(c) /\ loop[c].pending
  /\ loop' = [loop EXCEPT ![c].pc = "debounce", ![c].pending = FALSE]
  /\ UNCHANGED <<row, state, orphaned, req, permit, fresh>>

(* Ticks within the debounce window join the first.                        *)
Absorb(c) ==
  /\ At(c, "debounce") /\ Awaits(c) /\ loop[c].pending
  /\ loop' = [loop EXCEPT ![c].pending = FALSE]
  /\ UNCHANGED <<row, state, orphaned, req, permit, fresh>>

Elapse(c) ==
  /\ At(c, "debounce") /\ Awaits(c)
  /\ loop' = [loop EXCEPT ![c].pc = "list"]
  /\ UNCHANGED <<row, state, orphaned, req, permit, fresh>>

(* recv returns None: every sender of a replaced channel is gone.          *)
Close(c) ==
  /\ loop[c].pc \in {"recv", "debounce"} /\ Awaits(c) /\ ~loop[c].pending /\ c # cur
  /\ loop' = [loop EXCEPT ![c] = NoLoop]
  /\ UNCHANGED <<row, state, orphaned, req, permit, fresh>>

(* Mutation: ticks that arrived before the listing finished are drained    *)
(* after it.                                                               *)
TakeServerDrains(c) ==
  /\ At(c, "take")
  /\ loop' = [loop EXCEPT ![c].pc = "wait", ![c].prev = slot # None, ![c].pending = FALSE,
                          ![c].users = None,
                          ![c].next = [users |-> loop[c].users, port |-> listen]]
  /\ slot' = None
  /\ UNCHANGED <<row, listen, running, handle, cur, orphaned, req, permit, fresh>>

(* do_swap: list the credentials ...                                       *)
List(c) ==
  /\ At(c, "list") /\ Awaits(c)
  /\ loop' = [loop EXCEPT ![c].pc = "take", ![c].users = ListUsers]
  /\ UNCHANGED <<row, state, orphaned, req, permit, fresh>>

(* ... a failure is logged and leaves the old server as it is.             *)
ListFails(c) ==
  /\ "failure" \in scope.kinds /\ At(c, "list") /\ Awaits(c)
  /\ loop' = [loop EXCEPT ![c].pc = "recv", ![c].failed = TRUE]
  /\ UNCHANGED <<row, state, orphaned, req, permit, fresh>>

(* Mutation: the new server does not wait for the old one to be gone.      *)
TakeServerNoWait(c) ==
  /\ At(c, "take")
  /\ loop' = [loop EXCEPT ![c].pc = "store", ![c].prev = slot # None,
                          ![c].users = None,
                          ![c].next = [users |-> loop[c].users, port |-> listen]]
  /\ slot' = None
  /\ UNCHANGED <<row, listen, running, handle, cur, orphaned, req, permit, fresh>>

(* Build the configuration, take the old server out of the state, cancel   *)
(* it ...                                                                  *)
TakeServer(c) ==
  /\ At(c, "take")
  /\ loop' = [loop EXCEPT ![c].pc = "wait", ![c].prev = slot # None,
                          ![c].users = None,
                          ![c].next = [users |-> loop[c].users, port |-> listen]]
  /\ slot' = None
  /\ UNCHANGED <<row, listen, running, handle, cur, orphaned, req, permit, fresh>>

(* ... wait for it, spawn the new one ...                                  *)
Spawn(c) ==
  /\ At(c, "wait") /\ (loop[c].prev => Awaits(c))
  /\ loop' = [loop EXCEPT ![c].pc = "store", ![c].prev = FALSE]
  /\ UNCHANGED <<row, state, orphaned, req, permit, fresh>>

(* ... and store it, which makes the driver running.                       *)
Store(c) ==
  /\ At(c, "store")
  /\ slot' = loop[c].next /\ running' = TRUE
  /\ orphaned' = (orphaned \/ slot # None)
  /\ loop' = [loop EXCEPT ![c].pc = "recv", ![c].failed = FALSE, ![c].next = None]
  /\ UNCHANGED <<row, listen, handle, cur, req, permit, fresh>>

(* An aborted loop is dropped at an await.  The lock before Store makes it *)
(* wait only under contention; the new server then outlives the loop.      *)
Die(c) ==
  /\ loop[c].aborted /\ loop[c].pc # "dead"
  /\ At(c, "store") => "contention" \in scope.kinds
  /\ orphaned' = (orphaned \/ At(c, "store"))
  /\ loop' = [loop EXCEPT ![c] = NoLoop]
  /\ UNCHANGED <<row, state, req, permit, fresh>>

----------------------------------------------------------------------------
(* start.                                                                  *)
StartCheck(r) ==
  /\ r \in Starters /\ Accepts(r, "start") /\ ~running
  /\ Go(r, "mark")
  /\ UNCHANGED <<row, state, loop, orphaned, permit, fresh>>

(* The server PSK is loaded, the desire to run recorded.                   *)
StartMark(r) ==
  /\ req[r].pc = "mark"
  /\ running' = TRUE
  /\ Go(r, "loop")
  /\ UNCHANGED <<row, listen, slot, handle, cur, loop, orphaned, permit, fresh>>

(* spawn_apply_loop; without a receiver start fails and stays running.     *)
StartLoop(r) ==
  /\ req[r].pc = "loop"
  /\ IF loop[cur].pc = "slot"
     THEN /\ loop' = [loop EXCEPT ![cur].pc = "recv"]
          /\ req' = [req EXCEPT ![r].pc = "handle", ![r].chan = cur]
     ELSE Done(r) /\ UNCHANGED loop
  /\ UNCHANGED <<row, state, orphaned, permit, fresh>>

StoreHandle(r) ==
  /\ req[r].pc = "handle"
  /\ handle' = req[r].chan
  /\ req' = [req EXCEPT ![r].pc = "tick", ![r].chan = None]
  /\ UNCHANGED <<row, listen, running, slot, cur, loop, orphaned, permit, fresh>>

(* stop: the API refuses it when the driver is not running.                *)
StopCheck(r) ==
  /\ r \in Starters /\ Accepts(r, "stop") /\ running
  /\ Go(r, "stop")
  /\ UNCHANGED <<row, state, loop, orphaned, permit, fresh>>

(* Mutation: stop drops the handle of the server without cancelling it.    *)
StopTakeNoCancel(r) ==
  /\ req[r].pc = "stop"
  /\ running' = FALSE /\ slot' = None /\ handle' = None
  /\ req' = [req EXCEPT ![r].pc = "join", ![r].chan = handle]
  /\ orphaned' = (orphaned \/ slot # None)
  /\ UNCHANGED <<row, listen, cur, loop, permit, fresh>>

StopTake(r) ==
  /\ req[r].pc = "stop"
  /\ running' = FALSE /\ slot' = None /\ handle' = None
  /\ req' = [req EXCEPT ![r].pc = "join", ![r].srv = slot # None, ![r].chan = handle]
  /\ UNCHANGED <<row, listen, cur, loop, orphaned, permit, fresh>>

(* The cancelled server is gone; abort the loop ...                        *)
StopAbort(r) ==
  /\ req[r].pc = "join"
  /\ req' = [req EXCEPT ![r].pc = "reap", ![r].srv = FALSE]
  /\ LET c == req[r].chan
     IN loop' = IF c # None /\ loop[c].pc # "dead" THEN [loop EXCEPT ![c].aborted = TRUE]
                                                   ELSE loop
  /\ UNCHANGED <<row, state, orphaned, permit, fresh>>

(* ... wait for its end, replace the channel.                              *)
StopFresh(r) ==
  /\ req[r].pc = "reap"
  /\ req[r].chan # None => loop[req[r].chan].pc = "dead"
  /\ \E c \in Chans : IsFree(c)
  /\ cur' = Free
  /\ loop' = [loop EXCEPT ![Free] = [NoLoop EXCEPT !.pc = "slot"],
                          ![cur] = IF @.pc = "slot" THEN NoLoop ELSE @]
  /\ Done(r)
  /\ UNCHANGED <<row, listen, running, slot, handle, orphaned, permit, fresh>>

(* The client hangs up while the handler waits for the database or a task. *)
GiveUp(r) ==
  /\ "giveup" \in scope.kinds /\ req[r].pc \in {"patch", "listen", "check", "reread", "mark", "join", "reap"}
  /\ Done(r)
  /\ UNCHANGED <<row, state, loop, orphaned, permit, fresh>>

----------------------------------------------------------------------------
(* Mutation: the reconciler has no tick of its own and waits to be woken.  *)
ReconcileWhenWoken ==
  /\ permit /\ permit' = FALSE
  /\ IF running /\ Open THEN Tick ELSE UNCHANGED loop
  /\ UNCHANGED <<row, state, orphaned, req, fresh>>

(* The reconciler's pass, on a permit or on its 30 s tick.                 *)
Reconcile ==
  /\ permit' = FALSE
  /\ IF running /\ Open THEN Tick ELSE UNCHANGED loop
  /\ UNCHANGED <<row, state, orphaned, req, fresh>>

Restart ==
  /\ Boot
  /\ UNCHANGED <<row, fresh>>

Swap(c) == TakeServer(c) \/ Spawn(c) \/ Store(c)

Loop(c) == Recv(c) \/ Elapse(c) \/ Close(c) \/ List(c) \/ Swap(c) \/ Die(c)

Write(r) ==
  \/ \E u \in Users : Enable(r, u) \/ Disable(r, u) \/ Rotate(r, u) \/ DeleteUser(r, u)
  \/ (\E p \in scope.ports : PatchRead(r, p)) \/ PatchCommit(r) \/ Reload(r) \/ SetListen(r)

Start(r) == StartCheck(r) \/ StartMark(r) \/ StartLoop(r) \/ StoreHandle(r)
Stop(r)  == StopCheck(r) \/ StopTake(r) \/ StopAbort(r) \/ StopFresh(r)

Request(r) ==
  \/ Write(r) \/ Reread(r) \/ CheckRunning(r) \/ SendTick(r) \/ WakeReconciler(r)
  \/ Start(r) \/ Stop(r) \/ GiveUp(r)

Next ==
  \/ \E r \in Reqs : Request(r)
  \/ \E c \in Chans : Loop(c) \/ Absorb(c) \/ ListFails(c)
  \/ Reconcile \/ Restart

Spec == Init /\ [][Next /\ UNCHANGED scope]_vars

(* The reconciler ticks, the loop's awaits end, the debounce has a         *)
(* deadline however many ticks it absorbs; requests may be dropped.        *)
FairSpec ==
  /\ Spec /\ WF_vars(Reconcile /\ UNCHANGED scope)
  /\ \A c \in Chans : WF_vars(Loop(c) /\ UNCHANGED scope)

----------------------------------------------------------------------------
TypeOK ==
  /\ users \subseteq Users /\ creds \in [Users -> (0 .. MaxPsk) \union {None}]
  /\ \A u \in Users : creds[u] # None => u \in users
  /\ conf \in Ports /\ listen \in Ports /\ running \in BOOLEAN /\ permit \in BOOLEAN
  /\ slot \in Server \union {None} /\ orphaned \in BOOLEAN
  /\ cur \in Chans /\ handle \in Chans \union {None}
  /\ \A c \in Chans :
       /\ loop[c].pc \in {"slot", "recv", "debounce", "list", "take", "wait", "store", "dead"}
       /\ loop[c].prev \in BOOLEAN /\ loop[c].next \in Server \union {None}
  /\ fresh \in 0 .. MaxPsk /\ scope \in Scopes
  /\ \A r \in Reqs : req[r].pc = "reread" <=> req[r].user # None

(* The server processes that hold a port: the stored one, those being      *)
(* cancelled, the one about to be stored, the forgotten ones.              *)
Live ==
  {<<"slot", s>> : s \in {slot} \ {None}}
    \union {<<"prev", c>> : c \in {d \in Chans : loop[d].prev}}
    \union {<<"next", c>> : c \in {d \in Chans : At(d, "store")}}
    \union {<<"stop", r>> : r \in {q \in Reqs : req[q].srv}}
    \union {<<"orphan", o>> : o \in {orphaned} \ {FALSE}}

(* No request is dropped half-way.  A dropped stop leaves its loop running, *)
(* handle gone, beside that of the next start.                             *)
Kept == "giveup" \notin scope.kinds

(* A swap never binds the port while another server of ours still holds it *)
(* (driver.rs 678-679), unless a stop has taken that one and waits for it.  *)
OneServer == Kept /\ (\A r \in Reqs : ~req[r].srv) => Cardinality(Live) <= 1

Quiet == \A r \in Reqs : req[r].pc = "idle"

(* Nothing is on its way to the loop, and the loop waits for a tick.       *)
Settled == Quiet /\ ~permit /\ \A c \in Chans : loop[c].pc \in {"slot", "recv", "dead"}
                                               /\ ~loop[c].pending

Current == slot = [users |-> creds, port |-> listen]

(* No committed change is lost between the debounce, the listing and the   *)
(* swap: when no tick is left, a loop whose last swap did not fail has      *)
(* brought up the server that the database and the listener describe.  A   *)
(* request that was dropped before its tick is the reconciler's to repair. *)
SettledMeansApplied ==
  Kept /\ Settled /\ running /\ At(cur, "recv") /\ ~loop[cur].failed => Current

(* driver.rs 592: stop is to "Cancel the running server task": with the    *)
(* driver down and everything settled, nothing serves.                     *)
DownMeansDown == Kept /\ Settled /\ ~running => Live = {}

(* driver.rs 558-561: "`is_running` tracks the most recent API-driven      *)
(* `start` / `stop`"; a running driver has a loop that applies changes.    *)
RunningHasLoop == Settled /\ running => At(cur, "recv")

(* driver.rs 387-390: start "starts the apply loop" and may be called again *)
(* after a stop: a driver that says it runs serves, or has a loop to bring  *)
(* a server up.                                                            *)
RunningServes == Settled /\ running => slot # None \/ At(cur, "recv")

(* settings.rs 3-4: the API "drives hot reload of the SS / WG drivers       *)
(* whenever a reload-critical field changes": when nothing is in flight,    *)
(* the driver listens where the row says.                                  *)
ListensAsSet == Quiet => listen = conf

(* Requests stop and leave the driver running with a loop.                 *)
AtRest == Quiet /\ running /\ loop[cur].pc \notin {"slot", "dead"}

(* When requests, restarts and failing listings end, the server ends up    *)
(* with the database's credentials and port, even if the last requests were dropped before     *)
(* they sent their tick; a revoked credential is not served for ever.      *)
Trouble == Restart \/ \E c \in Chans : ListFails(c)

EventuallyCurrent ==
  <>[]AtRest /\ <>[][~Trouble]_vars => []<>(slot # None) /\ <>[](slot # None => Current)
=============================================================================
