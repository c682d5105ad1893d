---------------------------- MODULE ProxyDriver ----------------------------
(***************************************************************************)
(* The SOCKS5 and HTTP CONNECT driver (crates/proxy-driver): requests      *)
(* commit a credential and send a tick, and three kinds of task rebuild    *)
(* the one shared authentication map from the table: the debounced apply   *)
(* loop, the reconciler and start itself.  start and stop bind and cancel  *)
(* the two listeners, whose connections outlive both.                      *)
(*                                                                         *)
(* The listeners of one spawn_listeners share a cancellation token and     *)
(* fail or end together: they are one generation, a member of Gens.  An    *)
(* apply channel and its loop are one entry of `loop`, as in SsDriver.     *)
(***************************************************************************)
EXTENDS Naturals, FiniteSets

CONSTANTS
  Users,    \* the users that exist at first
  Reqs,     \* API requests that may be in flight together
  Starters, \* the requests among them that may start and stop the driver
  Writers,  \* those that may write credentials
  Scopes,   \* the sets of endpoints and mishaps that a run exercises together
  Chans,    \* apply channels, used again once dead
  Gens,     \* listener generations, used again once gone
  Conns,    \* client connections
  MaxInflight, \* config.max_inflight
  MaxPass,  \* bound on the passwords generated since boot; an older one is 0
  Recon,    \* the reconciler's task
  None

AllKinds == {"enable", "disable", "rotate", "delete", "start", "stop", "connect",
             "giveup", "failure", "contention", "restart"}

ASSUME ProxyAssumption ==
  /\ Scopes \subseteq SUBSET AllKinds /\ Starters \union Writers \subseteq Reqs
  /\ IsFiniteSet(Users) /\ IsFiniteSet(Conns) /\ Chans # {}
  /\ MaxPass \in Nat /\ MaxInflight \in Nat \ {0}
  /\ Recon \notin Reqs \union Chans /\ Reqs \intersect Chans = {}
  /\ None \notin Users \union Chans \union Gens \union Nat

VARIABLES
  scope,    \* the member of Scopes this behaviour keeps to
  users,    \* rows of `users`
  creds,    \* user -> password of its proxy_credentials row, or None
  running,  \* state.running
  active,   \* state.active_users, the `users` field of the status
  slot,     \* state.cancel and the two listener handles: a generation, or None
  handle,   \* state.apply_task: the channel of the loop it controls, or None
  cur,      \* the current apply channel
  auth,     \* the authentication map: user -> password, or None
  lst,      \* generation -> "none", "up" or "cancelled"; the last two hold the ports
  loop,     \* channel -> its receiver, pending ticks and loop
  sync,     \* task -> its position in sync_from_db and the rows it listed
  older,    \* auxiliary: task -> the tasks that hold an older listing than it
  late,     \* auxiliary: the tasks whose listing a newer one has overtaken
  behind,   \* auxiliary: since the map was last replaced by a listing that was not
            \* overtaken, one was, a refresh failed or a change sent no tick
  req,      \* request -> its position in the handler
  conn,     \* connection -> its stage and its generation, None once cancelled
  permit,   \* the reconciler's Notify permit
  fresh     \* last generated password

row   == <<scope, users, creds>>
state == <<running, active, slot, handle, cur>>
syncs == <<sync, older, late, behind>>
vars  == <<row, state, auth, lst, loop, syncs, req, conn, permit, fresh>>

Tasks     == Reqs \union Chans \union {Recon}
Passwords == 0 .. MaxPass
NoAuth    == [u \in Users |-> None]
Count(m)  == Cardinality({u \in Users : m[u] # None})

NoLoop == [pc |-> "dead", pending |-> FALSE, aborted |-> FALSE]
NoSync == [pc |-> "idle", rows |-> NoAuth]
Idle   == [pc |-> "idle", gen |-> None, chan |-> None]
Closed == [pc |-> "closed", gen |-> None]

(* main.rs: start runs before anything else can call the driver; when it   *)
(* fails the driver is registered stopped, in "paused state".              *)
Booted(c, g, ok) ==
  [active |-> IF ok THEN Count(creds) ELSE 0, slot |-> IF ok THEN g ELSE None,
   handle |-> IF ok THEN c ELSE None, auth |-> IF ok THEN creds ELSE NoAuth,
   lst |-> [h \in Gens |-> IF ok /\ h = g THEN "up" ELSE "none"],
   loop |-> [d \in Chans |-> IF d = c THEN [NoLoop EXCEPT !.pc = IF ok THEN "recv" ELSE "slot"]
                                     ELSE NoLoop]]

AnyChan == CHOOSE c \in Chans : TRUE

Init ==
  /\ scope \in Scopes
  /\ users = Users /\ creds \in [Users -> {0, None}] /\ fresh = 0
  /\ running \in BOOLEAN /\ cur = AnyChan
  /\ \E g \in Gens : LET boot == Booted(cur, g, running)
                     IN /\ active = boot.active /\ slot = boot.slot /\ handle = boot.handle
                        /\ auth = boot.auth /\ lst = boot.lst /\ loop = boot.loop
  /\ sync = [t \in Tasks |-> NoSync] /\ older = [t \in Tasks |-> {}] /\ late = {} /\ behind = FALSE
  /\ req = [r \in Reqs |-> Idle] /\ conn = [c \in Conns |-> Closed] /\ permit = FALSE

Accepts(r, kind) == kind \in scope /\ req[r].pc = "idle"
Go(r, p) == req' = [req EXCEPT ![r].pc = p]
Done(r)  == req' = [req EXCEPT ![r] = Idle]

(* apply_all: an error once the receiver of the current channel is gone.   *)
Open == loop[cur].pc # "dead"

----------------------------------------------------------------------------
(* Credentials.                                                            *)

(* ProxyRepo: a transaction each; a credential needs its user (foreign     *)
(* key), and an upsert of one that is there replaces its password.         *)
SetPassword(u) == fresh < MaxPass /\ fresh' = fresh + 1 /\ creds' = [creds EXCEPT ![u] = fresh']
UpsertCredential(u) == u \in users /\ SetPassword(u)
UpdatePassword(u)   == creds[u] # None /\ SetPassword(u)
DropCredential(u)   == creds' = [creds EXCEPT ![u] = None]
ListCredentials     == creds

(* enable_user, also for a user that has a credential.                     *)
Enable(r, u) ==
  /\ Accepts(r, "enable") /\ UpsertCredential(u)
  /\ Go(r, "tick")
  /\ UNCHANGED <<scope, users, state, auth, lst, loop, syncs, conn, permit>>

Disable(r, u) ==
  /\ Accepts(r, "disable") /\ u \in users
  /\ DropCredential(u)
  /\ Go(r, "tick")
  /\ UNCHANGED <<scope, users, state, auth, lst, loop, syncs, conn, permit, fresh>>

(* rotate_user.                                                            *)
Rotate(r, u) ==
  /\ Accepts(r, "rotate") /\ UpdatePassword(u)
  /\ Go(r, "tick")
  /\ UNCHANGED <<scope, users, state, auth, lst, loop, syncs, conn, permit>>

(* Mutation: the credential stays behind when its user goes.               *)
DeleteUserAlone(r, u) ==
  /\ Accepts(r, "delete") /\ u \in users
  /\ users' = users \ {u}
  /\ Go(r, "notify")
  /\ UNCHANGED <<scope, creds, state, auth, lst, loop, syncs, conn, permit, fresh>>

(* Mutation: nobody is told of the cascade.                                *)
DeleteUserUntold(r, u) ==
  /\ Accepts(r, "delete") /\ u \in users
  /\ users' = users \ {u} /\ creds' = [creds EXCEPT ![u] = None]
  /\ UNCHANGED <<scope, state, auth, lst, loop, syncs, req, conn, permit, fresh>>

(* The user goes, ON DELETE CASCADE takes the credential, and the driver   *)
(* is not told: only the reconciler is woken.                              *)
DeleteUser(r, u) ==
  /\ Accepts(r, "delete") /\ u \in users
  /\ users' = users \ {u} /\ creds' = [creds EXCEPT ![u] = None]
  /\ Go(r, "notify")
  /\ UNCHANGED <<scope, state, auth, lst, loop, syncs, conn, permit, fresh>>

Holders == {t \in Tasks : sync[t].pc = "install"}
Untold  == behind' = TRUE /\ late' = late \union Holders

(* An error of apply_all ends the request before it wakes the reconciler.  *)
SendTick(r) ==
  /\ req[r].pc = "tick"
  /\ IF Open
     THEN loop' = [loop EXCEPT ![cur].pending = TRUE] /\ Go(r, "notify") /\ UNCHANGED <<late, behind>>
     ELSE UNCHANGED loop /\ Done(r) /\ Untold
  /\ UNCHANGED <<row, state, auth, lst, sync, older, conn, permit, fresh>>

WakeReconciler(r) ==
  /\ req[r].pc = "notify"
  /\ permit' = TRUE
  /\ Done(r)
  /\ UNCHANGED <<row, state, auth, lst, loop, syncs, conn, fresh>>

----------------------------------------------------------------------------
(* sync_from_db, run by a loop, by start and by the reconciler.            *)

Forget(t) == older' = [x \in Tasks |-> IF x = t THEN {} ELSE older[x] \ {t}]

Enter(t) == sync' = [sync EXCEPT ![t] = [NoSync EXCEPT !.pc = "list"]]

(* The table is read in one statement.                                     *)
SyncList(t) ==
  /\ sync[t].pc = "list" /\ (t \in Chans => ~loop[t].aborted)
  /\ sync' = [sync EXCEPT ![t] = [pc |-> "install", rows |-> ListCredentials]]
  /\ older' = [older EXCEPT ![t] = Holders]
  /\ UNCHANGED <<row, state, auth, lst, loop, late, behind, req, conn, permit, fresh>>

(* The statement fails, or one row cannot be decrypted or has the wrong    *)
(* length: nothing at all is refreshed.                                    *)
SyncFail(t) ==
  /\ "failure" \in scope
  /\ sync[t].pc = "list" /\ (t \in Chans => ~loop[t].aborted)
  /\ sync' = [sync EXCEPT ![t] = NoSync]
  /\ loop' = IF t \in Chans THEN [loop EXCEPT ![t].pc = "recv"] ELSE loop
  /\ IF t \in Reqs THEN Done(t) ELSE UNCHANGED req
  /\ Untold
  /\ UNCHANGED <<row, state, auth, lst, older, conn, permit, fresh>>

(* The map is replaced wholesale ...                                       *)
SyncInstall(t) ==
  /\ sync[t].pc = "install"
  /\ auth' = sync[t].rows
  /\ behind' = (t \in late)
  /\ late' = (late \union older[t]) \ {t} /\ Forget(t)
  /\ sync' = [sync EXCEPT ![t].pc = "count"]
  /\ UNCHANGED <<row, state, lst, loop, req, conn, permit, fresh>>

(* ... and then the number of users.                                       *)
SyncCount(t) ==
  /\ sync[t].pc = "count"
  /\ active' = Count(sync[t].rows)
  /\ sync' = [sync EXCEPT ![t] = NoSync]
  /\ loop' = IF t \in Chans THEN [loop EXCEPT ![t].pc = "recv"] ELSE loop
  /\ IF t \in Reqs THEN Go(t, "bind") ELSE UNCHANGED req
  /\ UNCHANGED <<row, running, slot, handle, cur, auth, lst, older, late, behind, conn,
                 permit, fresh>>

(* Mutation: the reconciler has no tick of its own and waits to be woken.  *)
ReconcileWhenWoken ==
  /\ sync[Recon].pc = "idle" /\ permit
  /\ permit' = FALSE
  /\ Enter(Recon)
  /\ UNCHANGED <<row, state, auth, lst, loop, older, late, behind, req, conn, fresh>>

(* The reconciler, on a permit or on its 30 s tick; it asks a stopped      *)
(* driver too.                                                             *)
Reconcile ==
  /\ sync[Recon].pc = "idle"
  /\ permit' = FALSE
  /\ Enter(Recon)
  /\ UNCHANGED <<row, state, auth, lst, loop, older, late, behind, req, conn, fresh>>

----------------------------------------------------------------------------
(* The apply loop.                                                         *)
Recv(c) ==
  /\ loop[c].pc = "recv" /\ loop[c].pending /\ ~loop[c].aborted
  /\ loop' = [loop EXCEPT ![c].pc = "debounce", ![c].pending = FALSE]
  /\ UNCHANGED <<row, state, auth, lst, syncs, req, conn, permit, fresh>>

(* Ticks within the debounce window join the first.                        *)
Absorb(c) ==
  /\ loop[c].pc = "debounce" /\ loop[c].pending /\ ~loop[c].aborted
  /\ loop' = [loop EXCEPT ![c].pending = FALSE]
  /\ UNCHANGED <<row, state, auth, lst, syncs, req, conn, permit, fresh>>

Elapse(c) ==
  /\ loop[c].pc = "debounce" /\ ~loop[c].aborted
  /\ loop' = [loop EXCEPT ![c].pc = "sync"]
  /\ Enter(c)
  /\ UNCHANGED <<row, state, auth, lst, older, late, behind, req, conn, permit, fresh>>

(* recv returns None: every sender of a replaced channel is gone.          *)
Close(c) ==
  /\ loop[c].pc \in {"recv", "debounce"} /\ ~loop[c].pending /\ c # cur
  /\ loop' = [loop EXCEPT ![c] = NoLoop]
  /\ UNCHANGED <<row, state, auth, lst, syncs, req, conn, permit, fresh>>

(* An aborted loop is dropped at an await.                                 *)
Die(c) ==
  /\ loop[c].aborted /\ loop[c].pc # "dead"
  /\ loop' = [loop EXCEPT ![c] = NoLoop]
  /\ sync' = [sync EXCEPT ![c] = NoSync] /\ Forget(c) /\ late' = late \ {c}
  /\ UNCHANGED <<row, state, auth, lst, behind, req, conn, permit, fresh>>

----------------------------------------------------------------------------
(* start.                                                                  *)

Ports(gs) == \E g \in gs : lst[g] # "none"

(* The API has probed the ports (or a cached answer of the last 10 s says   *)
(* they are free) and the driver does not run: read the table first.       *)
StartCheck(r) ==
  /\ r \in Starters /\ Accepts(r, "start") /\ ~running
  /\ Go(r, "sync") /\ Enter(r)
  /\ UNCHANGED <<row, state, auth, lst, loop, older, late, behind, conn, permit, fresh>>

(* spawn_listeners binds both ports and spawns the two tasks; a port that  *)
(* another generation still holds, or another program, fails the start.    *)
StartBind(r) ==
  /\ req[r].pc = "bind"
  /\ \/ \E g \in Gens :
          /\ ~Ports(Gens)
          /\ lst' = [lst EXCEPT ![g] = "up"]
          /\ req' = [req EXCEPT ![r].pc = "store", ![r].gen = g]
     \/ /\ Ports(Gens) \/ "failure" \in scope
        /\ Go(r, "take") /\ UNCHANGED lst
  /\ UNCHANGED <<row, state, auth, loop, syncs, conn, permit, fresh>>

(* A generation that was stored before is dropped, not cancelled.          *)
StoreListeners(r) ==
  /\ req[r].pc = "store"
  /\ slot' = req[r].gen
  /\ req' = [req EXCEPT ![r].pc = "loop", ![r].gen = None]
  /\ UNCHANGED <<row, running, active, handle, cur, auth, lst, loop, syncs, conn, permit, fresh>>

(* spawn_apply_loop takes the receiver out of the current channel; without  *)
(* one ("apply loop already started") the start is rolled back.            *)
StartLoop(r) ==
  /\ req[r].pc = "loop"
  /\ IF loop[cur].pc = "slot"
     THEN /\ loop' = [loop EXCEPT ![cur].pc = "recv"]
          /\ req' = [req EXCEPT ![r].pc = "handle", ![r].chan = cur]
     ELSE Go(r, "take") /\ UNCHANGED loop
  /\ UNCHANGED <<row, state, auth, lst, syncs, conn, permit, fresh>>

StoreHandle(r) ==
  /\ req[r].pc = "handle"
  /\ handle' = req[r].chan
  /\ req' = [req EXCEPT ![r].pc = "mark", ![r].chan = None]
  /\ UNCHANGED <<row, running, active, slot, cur, auth, lst, loop, syncs, conn, permit, fresh>>

(* Last of all the driver is marked as running; the reconciler is woken.   *)
StartMark(r) ==
  /\ req[r].pc = "mark"
  /\ running' = TRUE
  /\ Go(r, "notify")
  /\ UNCHANGED <<row, active, slot, handle, cur, auth, lst, loop, syncs, conn, permit, fresh>>

----------------------------------------------------------------------------
(* stop, and rollback_start, which has the same body.                      *)
StopCheck(r) ==
  /\ r \in Starters /\ Accepts(r, "stop") /\ running
  /\ Go(r, "take")
  /\ UNCHANGED <<row, state, auth, lst, loop, syncs, conn, permit, fresh>>

(* The tunnels of a cancelled generation see its token at their next poll. *)
Cut(g) == conn' = [c \in Conns |-> IF conn[c].gen = g THEN [conn[c] EXCEPT !.gen = None]
                                                     ELSE conn[c]]

(* Mutation: the handles are dropped, which cancels nothing.               *)
TakeNoCancel(r) ==
  /\ req[r].pc = "take"
  /\ running' = FALSE /\ active' = 0 /\ slot' = None /\ handle' = None
  /\ req' = [req EXCEPT ![r].pc = "join", ![r].gen = slot, ![r].chan = handle]
  /\ UNCHANGED <<row, cur, auth, lst, loop, syncs, conn, permit, fresh>>

(* Everything is taken out of the state, whoever put it there, and the     *)
(* listeners are cancelled.                                                *)
Take(r) ==
  /\ req[r].pc = "take"
  /\ running' = FALSE /\ active' = 0 /\ slot' = None /\ handle' = None
  /\ req' = [req EXCEPT ![r].pc = "join", ![r].gen = slot, ![r].chan = handle]
  /\ IF slot = None THEN UNCHANGED <<lst, conn>>
     ELSE Cut(slot) /\ lst' = [lst EXCEPT ![slot] = IF @ = "up" THEN "cancelled" ELSE @]
  /\ UNCHANGED <<row, cur, auth, loop, syncs, permit, fresh>>

(* A cancelled listener leaves its accept loop and releases its port.      *)
ListenerExit(g) ==
  /\ lst[g] = "cancelled"
  /\ lst' = [lst EXCEPT ![g] = "none"]
  /\ req' = [r \in Reqs |-> IF req[r].pc = "join" /\ req[r].gen = g
                             THEN [req[r] EXCEPT !.gen = None] ELSE req[r]]
  /\ UNCHANGED <<row, state, auth, loop, syncs, conn, permit, fresh>>

(* Both listeners are gone: abort the apply loop ...                       *)
Abort(r) ==
  /\ req[r].pc = "join" /\ req[r].gen = None
  /\ Go(r, "reap")
  /\ LET c == req[r].chan
     IN loop' = IF c # None /\ loop[c].pc # "dead" THEN [loop EXCEPT ![c].aborted = TRUE]
                                                   ELSE loop
  /\ UNCHANGED <<row, state, auth, lst, syncs, conn, permit, fresh>>

(* Mutation: the old channel stays, with a receiver nobody holds.          *)
FreshOmitted(r, c) ==
  /\ req[r].pc = "reap" /\ c = cur
  /\ req[r].chan # None => loop[req[r].chan].pc = "dead"
  /\ req' = [req EXCEPT ![r].pc = "clear", ![r].chan = None]
  /\ UNCHANGED <<row, state, auth, lst, loop, syncs, conn, permit, fresh>>

(* ... wait for its end, replace the channel ...                           *)
Fresh(r, c) ==
  /\ req[r].pc = "reap"
  /\ req[r].chan # None => loop[req[r].chan].pc = "dead"
  /\ c # cur /\ loop[c].pc = "dead"
  /\ cur' = c
  /\ loop' = [loop EXCEPT ![c] = [NoLoop EXCEPT !.pc = "slot"],
                          ![cur] = IF @.pc = "slot" THEN NoLoop ELSE @]
  /\ req' = [req EXCEPT ![r].pc = "clear", ![r].chan = None]
  /\ UNCHANGED <<row, running, active, slot, handle, auth, lst, syncs, conn, permit, fresh>>

(* ... and forget the credentials.                                         *)
Clear(r) ==
  /\ req[r].pc = "clear"
  /\ auth' = NoAuth
  /\ Done(r)
  /\ UNCHANGED <<row, state, lst, loop, syncs, conn, permit, fresh>>

(* The client hangs up: a handler is dropped where it waits for the        *)
(* database or a task, and where it waits for a lock only under contention. *)
GiveUp(r) ==
  /\ "giveup" \in scope
  /\ req[r].pc \in {"tick", "sync", "join", "reap"}
       \union IF "contention" \in scope THEN {"store", "loop", "handle", "mark", "clear"} ELSE {}
  /\ Done(r)
  /\ sync' = [sync EXCEPT ![r] = NoSync] /\ Forget(r)
  /\ IF req[r].pc = "tick" THEN Untold ELSE late' = late \ {r} /\ UNCHANGED behind
  /\ UNCHANGED <<row, state, auth, lst, loop, conn, permit, fresh>>

----------------------------------------------------------------------------
(* Connections.  Each holds one permit of the semaphore until its task     *)
(* ends, through stops and starts; the permits left are                    *)
(* MaxInflight - Cardinality(Inflight).                                    *)
Inflight == {c \in Conns : conn[c].pc # "closed"}

(* accept with try_acquire_owned; without a permit the socket is dropped.  *)
(* A cancelled listener may accept once more before it sees its token.     *)
Accept(c, g) ==
  /\ "connect" \in scope /\ conn[c].pc = "closed" /\ lst[g] # "none"
  /\ Cardinality(Inflight) < MaxInflight
  /\ conn' = [conn EXCEPT ![c] = [pc |-> "hello", gen |-> IF lst[g] = "up" THEN g ELSE None]]
  /\ UNCHANGED <<row, state, auth, lst, loop, syncs, req, permit, fresh>>

(* check_creds: the client offers the password the map has for a user.     *)
(* SOCKS5 then reads the request, HTTP has already read it.                *)
Authenticate(c) ==
  /\ conn[c].pc = "hello" /\ \E u \in Users : auth[u] # None
  /\ \E p \in {"request", "connect"} : conn' = [conn EXCEPT ![c].pc = p]
  /\ UNCHANGED <<row, state, auth, lst, loop, syncs, req, permit, fresh>>

(* The SOCKS5 request is read, under the same 10 s as the greeting.        *)
Request(c) ==
  /\ conn[c].pc = "request"
  /\ conn' = [conn EXCEPT ![c].pc = "connect"]
  /\ UNCHANGED <<row, state, auth, lst, loop, syncs, req, permit, fresh>>

Connected(c) ==
  /\ conn[c].pc = "connect"
  /\ conn' = [conn EXCEPT ![c].pc = "tunnel"]
  /\ UNCHANGED <<row, state, auth, lst, loop, syncs, req, permit, fresh>>

(* Bad credentials, an unsupported request, a blocked destination, a        *)
(* timeout of the handshake or of the connect, or either side closing.     *)
HangUp(c) ==
  /\ conn[c].pc # "closed"
  /\ conn' = [conn EXCEPT ![c] = Closed]
  /\ UNCHANGED <<row, state, auth, lst, loop, syncs, req, permit, fresh>>

(* Mutation: the token is watched only while the driver runs.             *)
CancelledWhileUp(c) ==
  /\ conn[c].pc = "tunnel" /\ conn[c].gen = None /\ running
  /\ conn' = [conn EXCEPT ![c] = Closed]
  /\ UNCHANGED <<row, state, auth, lst, loop, syncs, req, permit, fresh>>

(* The tunnel's select! sees the token; the earlier stages do not look.    *)
Cancelled(c) ==
  /\ conn[c].pc = "tunnel" /\ conn[c].gen = None
  /\ conn' = [conn EXCEPT ![c] = Closed]
  /\ UNCHANGED <<row, state, auth, lst, loop, syncs, req, permit, fresh>>

----------------------------------------------------------------------------
Restart ==
  /\ "restart" \in scope
  /\ running' \in BOOLEAN /\ cur' = AnyChan
  /\ \E g \in Gens : LET boot == Booted(cur', g, running')
                     IN /\ active' = boot.active /\ slot' = boot.slot /\ handle' = boot.handle
                        /\ auth' = boot.auth /\ lst' = boot.lst /\ loop' = boot.loop
  /\ sync' = [t \in Tasks |-> NoSync] /\ older' = [t \in Tasks |-> {}] /\ late' = {} /\ behind' = FALSE
  /\ req' = [r \in Reqs |-> Idle] /\ conn' = [c \in Conns |-> Closed] /\ permit' = FALSE
  /\ UNCHANGED <<row, fresh>>

Write(r) == r \in Writers /\ \E u \in Users : Enable(r, u) \/ Disable(r, u) \/ Rotate(r, u) \/ DeleteUser(r, u)

Start(r) ==
  StartCheck(r) \/ StartBind(r) \/ StoreListeners(r) \/ StartLoop(r) \/ StoreHandle(r) \/ StartMark(r)

Down(r) == Take(r) \/ Abort(r) \/ (\E c \in Chans : Fresh(r, c)) \/ Clear(r)

Sync(t) == SyncList(t) \/ SyncFail(t) \/ SyncInstall(t) \/ SyncCount(t)

Loop(c) == Recv(c) \/ Elapse(c) \/ Close(c) \/ Die(c)

Handshake(c) == conn[c].pc \in {"hello", "request"} /\ (Authenticate(c) \/ Request(c) \/ HangUp(c))
Dial(c)      == conn[c].pc = "connect" /\ (Connected(c) \/ HangUp(c))

Serve(c) == (\E g \in Gens : Accept(c, g)) \/ Authenticate(c) \/ Request(c) \/ Connected(c)
              \/ HangUp(c) \/ Cancelled(c)

Next ==
  \/ \E r \in Reqs : Write(r) \/ SendTick(r) \/ WakeReconciler(r) \/ Start(r) \/ StopCheck(r)
                     \/ Down(r) \/ GiveUp(r)
  \/ \E c \in Chans : Loop(c) \/ Absorb(c)
  \/ \E t \in Tasks : Sync(t)
  \/ \E g \in Gens : ListenerExit(g)
  \/ \E c \in Conns : Serve(c)
  \/ Reconcile \/ Restart

Spec == Init /\ [][Next]_vars

(* The reconciler ticks; the waits of its pass and of the loops end;        *)
(* cancelled listeners and tunnels are polled; the handshake has 10 s and   *)
(* each address 20 s.  Nothing makes a request go on, nor a client.         *)
FairSpec ==
  /\ Spec /\ WF_vars(Reconcile) /\ WF_vars(Sync(Recon))
  /\ \A c \in Chans : WF_vars(Loop(c)) /\ WF_vars(Sync(c))
  /\ \A g \in Gens : WF_vars(ListenerExit(g))
  /\ \A c \in Conns : WF_vars(Cancelled(c)) /\ WF_vars(Handshake(c)) /\ WF_vars(Dial(c))

----------------------------------------------------------------------------
TypeOK ==
  /\ users \subseteq Users /\ creds \in [Users -> Passwords \union {None}]
  /\ \A u \in Users : creds[u] # None => u \in users
  /\ auth \in [Users -> Passwords \union {None}]
  /\ running \in BOOLEAN /\ active \in 0 .. Cardinality(Users) /\ permit \in BOOLEAN
  /\ slot \in Gens \union {None} /\ handle \in Chans \union {None} /\ cur \in Chans
  /\ lst \in [Gens -> {"none", "up", "cancelled"}]
  /\ \A c \in Chans : /\ loop[c].pc \in {"slot", "recv", "debounce", "sync", "dead"}
                       /\ loop[c].pc = "sync" <=> sync[c].pc # "idle"
  /\ \A t \in Tasks : /\ sync[t].pc \in {"idle", "list", "install", "count"}
                       /\ older[t] \subseteq Holders /\ (t \notin Holders => older[t] = {})
  /\ \A c \in Conns : conn[c].pc \in {"closed", "hello", "request", "connect", "tunnel"}
  /\ Cardinality(Inflight) <= MaxInflight
  /\ fresh \in Passwords

Quiet == \A r \in Reqs : req[r].pc = "idle"

(* Nothing is on its way to the map.                                       *)
Settled == /\ Quiet /\ ~permit /\ \A t \in Tasks : sync[t].pc = "idle"
           /\ \A g \in Gens : lst[g] # "cancelled"
           /\ \A c \in Chans : loop[c].pc \in {"slot", "recv", "dead"} /\ ~loop[c].pending

(* No committed change is lost between the ticks, the debounce and the      *)
(* listing: when nothing is left to do, a driver whose last refresh neither *)
(* failed nor was overtaken by a newer one authenticates by the table.     *)
SettledMeansApplied ==
  Settled /\ running /\ ~behind => auth = creds

(* driver.rs 529-533: a failed start leaves no "running but unreachable"    *)
(* driver; a driver that says it runs has its listeners, and one that says  *)
(* it does not has none.                                                   *)
RunningMeansListening ==
  Settled => (running <=> slot # None) /\ \A g \in Gens : slot = g <=> lst[g] = "up"

(* driver.rs 531-532: after a stop or a failed start, "callers can retry":  *)
(* whatever earlier requests left behind, no port stays with a listener     *)
(* nobody will cancel, and the receiver of the apply loop is there to take. *)
DownMeansStartable ==
  [][\A r \in Reqs : Clear(r) => /\ ~running /\ slot = None
                                 /\ \A g \in Gens : lst[g] # "up"
                                 /\ loop[cur].pc = "slot"]_vars

(* When requests end, with the driver up and the refreshes succeeding, the  *)
(* map and the reported number of users end up as the table says: a revoked *)
(* password is not accepted for ever, whatever was dropped or overtaken.    *)
EventuallyCurrent ==
  <>[](Quiet /\ running) /\ <>[][~Restart /\ \A t \in Tasks : ~SyncFail(t)]_vars
    => <>[](auth = creds /\ active = Count(creds))

(* Every connection of a cancelled generation ends, whatever stage it was   *)
(* in when the driver stopped, and gives its permit back.                  *)
StopEndsConnections ==
  \A c \in Conns : (conn[c].pc # "closed" /\ conn[c].gen = None) ~> conn[c].pc = "closed"

(* driver.rs 622-624: the map is cleared "so a stopped driver doesn't        *)
(* accidentally serve cached creds".                                       *)
StoppedForgets == Settled /\ ~running => auth = NoAuth
=============================================================================
