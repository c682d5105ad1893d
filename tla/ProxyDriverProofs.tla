-------------------------- MODULE ProxyDriverProofs --------------------------
(* TLAPS proofs about ProxyDriver, for every set of users, requests,       *)
(* channels, generations and connections.                                  *)
EXTENDS ProxyDriver, FiniteSetTheorems, TLAPS

(* At most one request may start and stop the driver.                      *)
OneStarter == \A r, s \in Starters : r = s

(* No handler is dropped while it waits for a lock.                        *)
Uncontended == \A s \in Scopes : "contention" \notin s

Starting == {"sync", "bind", "store", "loop", "handle", "mark"}
Stopping == {"take", "join", "reap", "clear"}

Rows     == [Users -> Passwords \union {None}]
Syncs    == [pc : {"idle", "list", "install", "count"}, rows : Rows]
Loops    == [pc : {"slot", "recv", "debounce", "sync", "dead"}, pending : BOOLEAN, aborted : BOOLEAN]
Requests == [pc : {"idle", "tick", "notify"} \union Starting \union Stopping,
             gen : Gens \union {None}, chan : Chans \union {None}]
Stages   == [pc : {"closed", "hello", "request", "connect", "tunnel"}, gen : Gens \union {None}]

(* Types, and who is where: a loop or a start is in sync_from_db exactly   *)
(* while it says so, and only a starter starts or stops.                   *)
Table   == /\ scope \in Scopes /\ users \subseteq Users /\ creds \in Rows /\ fresh \in Passwords
           /\ \A u \in Users : creds[u] # None => u \in users
State   == /\ running \in BOOLEAN /\ active \in 0 .. Cardinality(Users) /\ permit \in BOOLEAN
           /\ slot \in Gens \union {None} /\ handle \in Chans \union {None} /\ cur \in Chans
           /\ auth \in Rows /\ lst \in [Gens -> {"none", "up", "cancelled"}]
Workers == /\ loop \in [Chans -> Loops]
           /\ \A c \in Chans : loop[c].pc = "sync" <=> sync[c].pc # "idle"
Serving == /\ req \in [Reqs -> Requests]
           /\ \A r \in Reqs : /\ req[r].pc = "sync" <=> sync[r].pc # "idle"
                              /\ req[r].pc \in Starting \union Stopping => r \in Starters
Listing == /\ sync \in [Tasks -> Syncs] /\ older \in [Tasks -> SUBSET Tasks]
           /\ \A t \in Tasks : older[t] \subseteq Holders /\ (t \notin Holders => older[t] = {})
           /\ late \subseteq Holders /\ behind \in BOOLEAN
Clients == conn \in [Conns -> Stages] /\ Cardinality(Inflight) <= MaxInflight

Types == Table /\ State /\ Workers /\ Serving /\ Listing /\ Clients

----------------------------------------------------------------------------
(* With one starter the driver does not run while it is being started, nor *)
(* once a stop has taken its parts; a channel that has been replaced keeps *)
(* its receiver for the next start.                                        *)
Alone ==
  \A r \in Reqs :
    /\ req[r].pc \in (Starting \union Stopping) \ {"take"} => ~running
    /\ req[r].pc = "clear" => loop[cur].pc = "slot" /\ ~loop[cur].aborted

(* The reconciler is going to list the table.                              *)
Pending == permit \/ sync[Recon].pc = "list" \/ \E r \in Reqs : req[r].pc \in {"tick", "notify"}

(* It has listed the table as it is, and nothing newer has been installed. *)
Current == Recon \in Holders \ late /\ sync[Recon].rows = creds

(* The map matters: the driver runs, or a start has replaced the map.      *)
Serves ==
  \/ running
  \/ \E r \in Reqs : \/ req[r].pc \in Starting \ {"sync"}
                     \/ req[r].pc = "sync" /\ sync[r].pc = "count"

(* What is older than the reconciler's listing is older than all newer     *)
(* ones, and overtaken with it.                                            *)
Aging ==
  /\ \A t \in Tasks : Recon \in older[t] => older[Recon] \subseteq older[t] /\ t \notin older[Recon]
  /\ Recon \in late => older[Recon] \subseteq late

(* A listing that can still be installed in good order is the table, or    *)
(* the reconciler has a newer one that is, or is going to have.            *)
Listed ==
  Pending \/ \A t \in Holders \ late : sync[t].rows = creds \/ (Current /\ t \in older[Recon])
Applied ==
  Serves => Pending \/ behind \/ auth = creds \/ Current

Kept == Alone /\ Aging /\ Listed /\ Applied

----------------------------------------------------------------------------
Matched == \A g \in Gens : slot = g <=> lst[g] = "up"
Even    == (running <=> slot # None) /\ Matched
Bare    == ~running /\ slot = None /\ \A g \in Gens : lst[g] # "up"

(* Where a start or a stop stands is what it has done to the listeners.    *)
Bound ==
  /\ (\A r \in Reqs : req[r].pc \notin Starting \union Stopping) => Even
  /\ \A r \in Reqs :
       /\ req[r].pc \in {"sync", "bind", "join", "reap", "clear"} => Bare
       /\ req[r].pc = "store" => /\ ~running /\ slot = None /\ req[r].gen # None
                                 /\ \A g \in Gens : req[r].gen = g <=> lst[g] = "up"
       /\ req[r].pc \in {"loop", "handle", "mark"} => ~running /\ slot # None /\ Matched
       /\ req[r].pc = "take" => Matched

----------------------------------------------------------------------------
(* Types.                                                                  *)

LEMMA Nones ==
  /\ None \notin Users /\ None \notin Chans /\ None \notin Gens /\ None \notin Nat
  /\ AnyChan \in Chans /\ NoAuth \in Rows
  /\ NoLoop \in Loops /\ [NoLoop EXCEPT !.pc = "slot"] \in Loops
  /\ NoSync \in Syncs /\ Idle \in Requests /\ Closed \in Stages
<1>1. AnyChan \in Chans
  BY ProxyAssumption DEF AnyChan
<1> QED
  BY <1>1, ProxyAssumption DEF NoAuth, Rows, NoLoop, Loops, NoSync, Syncs, Idle, Requests, Closed, Stages

LEMMA Kinds ==
  /\ Reqs \subseteq Tasks /\ Chans \subseteq Tasks /\ Recon \in Tasks
  /\ Recon \notin Reqs /\ Recon \notin Chans /\ Reqs \intersect Chans = {}
BY ProxyAssumption DEF Tasks

LEMMA Counts ==
  ASSUME NEW m
  PROVE  Count(m) \in 0 .. Cardinality(Users)
<1> DEFINE S == {u \in Users : m[u] # None}
<1>1. IsFiniteSet(Users) /\ S \subseteq Users
  BY ProxyAssumption
<1>2. IsFiniteSet(S) /\ Cardinality(S) <= Cardinality(Users)
  BY <1>1, FS_Subset
<1>3. Cardinality(S) \in Nat /\ Cardinality(Users) \in Nat
  BY <1>1, <1>2, FS_CardinalityType
<1> QED
  BY <1>2, <1>3 DEF Count

(* What a boot leaves, whether or not start has succeeded.                 *)
Sound(b, ok) ==
  /\ b.active \in 0 .. Cardinality(Users) /\ b.slot \in Gens \union {None}
  /\ b.handle \in Chans \union {None} /\ b.auth \in Rows
  /\ b.lst \in [Gens -> {"none", "up", "cancelled"}] /\ b.loop \in [Chans -> Loops]
  /\ \A d \in Chans : b.loop[d].pc \in {"slot", "recv", "dead"}
  /\ \A h \in Gens : b.slot = h <=> b.lst[h] = "up"
  /\ ok <=> b.slot # None
  /\ ok => b.auth = creds
LEMMA Boots ==
  ASSUME NEW c \in Chans, NEW g \in Gens, NEW ok \in BOOLEAN, creds \in Rows
  PROVE  Sound(Booted(c, g, ok), ok)
<1>1. Count(creds) \in 0 .. Cardinality(Users) /\ 0 \in 0 .. Cardinality(Users)
  <2>1. Cardinality(Users) \in Nat
    BY ProxyAssumption, FS_CardinalityType
  <2> QED
    BY <2>1, Counts
<1>2. \A d \in Chans : \A p \in {"slot", "recv"} : [NoLoop EXCEPT !.pc = p] \in Loops
  BY DEF NoLoop, Loops
<1> QED
  BY <1>1, <1>2, Nones DEF Sound, Booted, NoLoop, Loops

LEMMA InitTypes == Init => Types
<1> SUFFICES ASSUME Init PROVE Types
  OBVIOUS
<1>1. Table
  BY ProxyAssumption DEF Init, Table, Rows, Passwords
<1>2. PICK g \in Gens : LET boot == Booted(cur, g, running)
                        IN /\ active = boot.active /\ slot = boot.slot /\ handle = boot.handle
                           /\ auth = boot.auth /\ lst = boot.lst /\ loop = boot.loop
  BY DEF Init
<1>3. cur \in Chans /\ running \in BOOLEAN /\ creds \in Rows
  BY <1>1, Nones DEF Init, Table
<1>10. Sound(Booted(cur, g, running), running)
  BY <1>3, Boots
<1>4. State /\ loop \in [Chans -> Loops] /\ \A d \in Chans : loop[d].pc # "sync"
  BY <1>2, <1>3, <1>10 DEF Init, State, Sound
<1>5. \A t \in Tasks : sync[t].pc = "idle"
  BY DEF Init, NoSync
<1>6. Workers
  BY <1>4, <1>5, Kinds DEF Workers
<1>7. Serving
  BY <1>5, Kinds, Nones DEF Init, Serving, Idle, Starting, Stopping
<1>8. Listing
  BY Nones DEF Init, Listing
<1>9. Clients
  <2>1. Inflight = {} /\ conn \in [Conns -> Stages]
    BY Nones DEF Init, Inflight, Closed
  <2> QED
    BY <2>1, FS_EmptySet, ProxyAssumption DEF Clients
<1> QED
  BY <1>1, <1>4, <1>6, <1>7, <1>8, <1>9 DEF Types

(* The handler of one request has come to p, and no other has moved.       *)
Stands(r, p) ==
  req' \in [Reqs -> Requests] /\ req'[r].pc = p /\ \A x \in Reqs : x # r => req'[x] = req[x]
Positions == {"idle", "tick", "notify"} \union Starting \union Stopping

LEMMA Goes ==
  ASSUME Types, NEW r \in Reqs, NEW p \in Positions, Go(r, p)
  PROVE  Stands(r, p) /\ req'[r].gen = req[r].gen /\ req'[r].chan = req[r].chan
BY DEF Types, Serving, Go, Stands, Requests, Positions

LEMMA Ends ==
  ASSUME Types, NEW r \in Reqs, Done(r)
  PROVE  Stands(r, "idle")
<1>1. Idle.pc = "idle"
  BY DEF Idle
<1> QED
  BY <1>1, Nones DEF Types, Serving, Done, Stands

(* Where each step of start and of stop leaves its handler.                *)
LEMMA Moves ==
  ASSUME Types, NEW r \in Reqs
  PROVE  /\ StartCheck(r) => Stands(r, "sync")
         /\ StartBind(r) => Stands(r, "store") \/ Stands(r, "take")
         /\ StoreListeners(r) => Stands(r, "loop")
         /\ StartLoop(r) => Stands(r, "handle") \/ Stands(r, "take")
         /\ StoreHandle(r) => Stands(r, "mark")
         /\ StartMark(r) => Stands(r, "notify")
         /\ StopCheck(r) => Stands(r, "take")
         /\ Take(r) => Stands(r, "join")
         /\ Abort(r) => Stands(r, "reap")
         /\ (\E c \in Chans : Fresh(r, c)) => Stands(r, "clear")
         /\ Clear(r) => Stands(r, "idle")
<1>1. req[r] \in Requests /\ cur \in Chans /\ slot \in Gens \union {None} /\ handle \in Chans \union {None}
  BY DEF Types, Serving, State
<1>2. ASSUME NEW p \in {"sync", "take", "notify", "reap"}, Go(r, p) PROVE Stands(r, p)
  BY <1>2, Goes DEF Positions, Starting, Stopping
<1>3. ASSUME NEW g \in Gens, req' = [req EXCEPT ![r].pc = "store", ![r].gen = g] PROVE Stands(r, "store")
  BY <1>1, <1>3 DEF Stands, Types, Serving, Requests, Starting
<1>4. ASSUME StoreListeners(r) PROVE Stands(r, "loop")
  BY <1>1, <1>4 DEF StoreListeners, Stands, Types, Serving, Requests, Starting
<1>5. ASSUME req' = [req EXCEPT ![r].pc = "handle", ![r].chan = cur] PROVE Stands(r, "handle")
  BY <1>1, <1>5 DEF Stands, Types, Serving, Requests, Starting
<1>6. ASSUME StoreHandle(r) PROVE Stands(r, "mark")
  BY <1>1, <1>6 DEF StoreHandle, Stands, Types, Serving, Requests, Starting
<1>7. ASSUME Take(r) PROVE Stands(r, "join")
  BY <1>1, <1>7 DEF Take, Stands, Types, Serving, Requests, Stopping
<1>8. ASSUME req' = [req EXCEPT ![r].pc = "clear", ![r].chan = None] PROVE Stands(r, "clear")
  BY <1>1, <1>8 DEF Stands, Types, Serving, Requests, Stopping
<1>9. (\E c \in Chans : Fresh(r, c)) => Stands(r, "clear")
  BY <1>8 DEF Fresh
<1>10. StartCheck(r) => Stands(r, "sync")
  BY <1>2 DEF StartCheck
<1>11. StartBind(r) => Stands(r, "store") \/ Stands(r, "take")
  BY <1>2, <1>3 DEF StartBind
<1>12. StartLoop(r) => Stands(r, "handle") \/ Stands(r, "take")
  BY <1>2, <1>5 DEF StartLoop
<1>13. (StartMark(r) => Stands(r, "notify")) /\ (StopCheck(r) => Stands(r, "take"))
       /\ (Abort(r) => Stands(r, "reap")) /\ (Clear(r) => Stands(r, "idle"))
  BY <1>2, Ends DEF StartMark, StopCheck, Abort, Clear
<1> QED
  BY <1>4, <1>6, <1>7, <1>9, <1>10, <1>11, <1>12, <1>13

(* ... and it says so of sync_from_db.                                     *)
LEMMA Attended ==
  ASSUME Types, NEW r \in Reqs, NEW p, Stands(r, p),
         p \in Starting \union Stopping => r \in Starters,
         p = "sync" <=> sync'[r].pc # "idle",
         \A x \in Reqs : x # r => sync'[x] = sync[x]
  PROVE  Serving'
BY DEF Types, Serving, Stands

LEMMA Listings ==
  ASSUME Types, UNCHANGED <<sync, older>>, late' \subseteq Holders, behind' \in BOOLEAN
  PROVE  Listing'
BY DEF Types, Listing, Holders

LEMMA Untolds ==
  ASSUME Types, Untold
  PROVE  late' \subseteq Holders /\ behind' /\ Holders \subseteq late'
BY DEF Types, Listing, Untold

(* A loop, or what waits in its channel, moves.                            *)
LEMMA LoopMoved ==
  ASSUME Types, NEW c \in Chans, NEW l \in Loops, loop' = [loop EXCEPT ![c] = l],
         l.pc = "sync" <=> sync'[c].pc # "idle",
         \A d \in Chans : d # c => sync'[d] = sync[d]
  PROVE  Workers'
BY DEF Types, Workers

LEMMA WriteTypes ==
  ASSUME Types, NEW r \in Reqs, Write(r)
  PROVE  Types' /\ \E p \in {"tick", "notify"} : Stands(r, p)
<1>1. PICK u \in Users : Enable(r, u) \/ Disable(r, u) \/ Rotate(r, u) \/ DeleteUser(r, u)
  BY DEF Write
<1>2. PICK p \in {"tick", "notify"} : Go(r, p)
  BY <1>1 DEF Enable, Disable, Rotate, DeleteUser
<1>3. Stands(r, p)
  BY <1>2, Goes DEF Positions
<1>4. Table'
  <2>1. CASE Enable(r, u) \/ Rotate(r, u)
    <3>1. SetPassword(u) /\ u \in users /\ UNCHANGED <<scope, users>>
      BY <2>1 DEF Enable, Rotate, UpsertCredential, UpdatePassword, Types, Table
    <3>2. fresh' \in Passwords /\ creds' = [creds EXCEPT ![u] = fresh']
      BY <3>1, ProxyAssumption DEF SetPassword, Passwords, Types, Table
    <3> QED
      BY <3>1, <3>2 DEF Types, Table, Rows
  <2>2. CASE Disable(r, u) \/ DeleteUser(r, u)
    BY <2>2 DEF Disable, DeleteUser, DropCredential, Types, Table, Rows
  <2> QED
    BY <1>1, <2>1, <2>2
<1>5. UNCHANGED <<state, auth, lst, loop, syncs, conn, permit>>
  BY <1>1 DEF Enable, Disable, Rotate, DeleteUser
<1>6. Serving'
  <2>1. sync[r].pc = "idle"
    BY <1>1 DEF Enable, Disable, Rotate, DeleteUser, Accepts, Types, Serving
  <2> QED
    BY <1>3, <1>5, <2>1, Attended DEF Starting, Stopping, syncs
<1> QED
  BY <1>2, <1>3, <1>4, <1>5, <1>6
     DEF Types, State, Workers, Listing, Clients, Holders, Inflight, state, syncs

LEMMA NotifyTypes ==
  ASSUME Types, NEW r \in Reqs, SendTick(r) \/ WakeReconciler(r)
  PROVE  Types'
<1>1. PICK p \in {"idle", "notify"} : Stands(r, p)
  BY Goes, Ends DEF SendTick, WakeReconciler, Positions
<1>2. UNCHANGED <<row, state, auth, lst, sync, older, conn, fresh>> /\ permit' \in BOOLEAN
  BY DEF SendTick, WakeReconciler, syncs, Types, State
<1>3. Serving'
  BY <1>1, <1>2, Attended DEF Types, Serving, Starting, Stopping, SendTick, WakeReconciler
<1>4. Workers'
  <2>1. CASE loop' = [loop EXCEPT ![cur].pending = TRUE]
    <3> DEFINE l == [loop[cur] EXCEPT !.pending = TRUE]
    <3>1. cur \in Chans /\ loop[cur] \in Loops
      BY DEF Types, State, Workers
    <3>2. l \in Loops /\ l.pc = loop[cur].pc
      BY <3>1 DEF Loops
    <3>3. loop' = [loop EXCEPT ![cur] = l]
      BY <2>1 DEF Types, Workers
    <3> HIDE DEF l
    <3> QED
      BY <1>2, <3>1, <3>2, <3>3, LoopMoved DEF Types, Workers
  <2>2. CASE UNCHANGED loop
    BY <1>2, <2>2 DEF Types, Workers
  <2> QED
    BY <2>1, <2>2 DEF SendTick, WakeReconciler
<1>5. Listing'
  BY <1>2, Untolds, Listings DEF SendTick, WakeReconciler, syncs, Types, Listing
<1> QED
  BY <1>2, <1>3, <1>4, <1>5 DEF Types, Table, State, Clients, Inflight, row, state

(* A connection's stage says nothing of the permits while it is open.      *)
LEMMA CutTypes ==
  ASSUME Types, conn' \in [Conns -> Stages], \A c \in Conns : conn'[c].pc = conn[c].pc
  PROVE  Clients'
<1>1. Inflight' = Inflight
  BY DEF Inflight
<1> QED
  BY <1>1 DEF Types, Clients

LEMMA StartTypes ==
  ASSUME Types, NEW r \in Reqs, Start(r) \/ StopCheck(r)
  PROVE  Types'
<1>1. Table' /\ Clients'
  BY DEF Types, Table, Clients, Inflight, Start, StopCheck, StartCheck, StartBind, StoreListeners, StartLoop,
         StoreHandle, StartMark, row
<1>2. State'
  <2>1. CASE StoreListeners(r)
    BY <2>1 DEF Types, State, Serving, Requests, StoreListeners
  <2>2. CASE StoreHandle(r)
    <3>1. handle' \in Chans \union {None}
      BY <2>2 DEF Types, Serving, Requests, StoreHandle
    <3> QED
      BY <2>2, <3>1 DEF Types, State, StoreHandle
  <2>3. CASE StartMark(r)
    BY <2>3 DEF Types, State, StartMark
  <2>4. CASE StartCheck(r) \/ StartBind(r) \/ StartLoop(r) \/ StopCheck(r)
    BY <2>4 DEF Types, State, StopCheck, StartCheck, StartBind, StartLoop, state
  <2> QED
    BY <2>1, <2>2, <2>3, <2>4 DEF Start
<1>3. CASE StartCheck(r)
  <2>1. Stands(r, "sync") /\ r \in Starters
    BY <1>3, Goes DEF StartCheck, Positions, Starting
  <2>2. sync' = [sync EXCEPT ![r] = [NoSync EXCEPT !.pc = "list"]] /\ UNCHANGED <<loop, older, late, behind>>
    BY <1>3 DEF StartCheck, Enter
  <2>3. sync[r].pc = "idle"
    BY <1>3 DEF StartCheck, Accepts, Types, Serving
  <2>4. [NoSync EXCEPT !.pc = "list"] \in Syncs /\ r \in Tasks
    BY Nones, Kinds DEF Syncs, NoSync
  <2>5. sync' \in [Tasks -> Syncs] /\ sync'[r].pc = "list" /\ \A t \in Tasks : t # r => sync'[t] = sync[t]
    BY <2>2, <2>4 DEF Types, Listing, NoSync
  <2>6. Holders' = Holders
    BY <2>3, <2>5 DEF Holders
  <2>7. Listing'
    BY <2>2, <2>5, <2>6 DEF Types, Listing
  <2>8. Serving'
    BY <2>1, <2>5, Kinds, Attended
  <2>9. Workers'
    BY <2>2, <2>5, Kinds DEF Types, Workers
  <2> QED
    BY <1>1, <1>2, <2>7, <2>8, <2>9 DEF Types
<1>4. CASE ~StartCheck(r)
  <2>1. UNCHANGED syncs
    BY <1>4 DEF Start, StopCheck, StartBind, StoreListeners, StartLoop, StoreHandle, StartMark
  <2>2. Listing'
    BY <2>1 DEF Types, Listing, Holders, syncs
  <2>3. Workers'
    <3>1. CASE loop' = [loop EXCEPT ![cur].pc = "recv"] /\ loop[cur].pc = "slot"
      <4> DEFINE l == [loop[cur] EXCEPT !.pc = "recv"]
      <4>1. cur \in Chans /\ loop[cur] \in Loops
        BY DEF Types, State, Workers
      <4>2. l \in Loops /\ l.pc = "recv" /\ sync[cur].pc = "idle"
        BY <3>1, <4>1 DEF Loops, Types, Workers
      <4>3. loop' = [loop EXCEPT ![cur] = l]
        BY <3>1 DEF Types, Workers
      <4> HIDE DEF l
      <4> QED
        BY <2>1, <4>1, <4>2, <4>3, LoopMoved DEF syncs
    <3>2. CASE UNCHANGED loop
      BY <2>1, <3>2 DEF Types, Workers, syncs
    <3> QED
      BY <1>4, <3>1, <3>2 DEF Start, StopCheck, StartBind, StoreListeners, StartLoop, StoreHandle, StartMark
  <2>4. Serving'
    <3>2. \E p \in {"store", "take", "loop", "handle", "mark", "notify"} : Stands(r, p)
      BY <1>4, Moves DEF Start
    <3>3. r \in Starters /\ sync[r].pc = "idle"
      BY <1>4 DEF Types, Serving, Start, StopCheck, StartBind, StoreListeners, StartLoop, StoreHandle, StartMark,
                  Accepts, Starting
    <3> QED
      BY <2>1, <3>2, <3>3, Attended DEF syncs
  <2> QED
    BY <1>1, <1>2, <2>2, <2>3, <2>4 DEF Types
<1> QED
  BY <1>3, <1>4

LEMMA DownTypes ==
  ASSUME Types, NEW r \in Reqs, Down(r)
  PROVE  Types'
<1> DEFINE h == req[r]
<1>1. UNCHANGED <<row, fresh, permit, syncs>>
  BY DEF Down, Take, Abort, Fresh, Clear, row, state, syncs
<1>2. Table' /\ Listing'
  BY <1>1 DEF Types, Table, Listing, Holders, row, syncs
<1>3. h \in Requests /\ h.pc \in Stopping /\ r \in Starters /\ sync[r].pc = "idle" /\ cur \in Chans
  BY DEF Types, Serving, State, Down, Take, Abort, Fresh, Clear, Starting, Stopping
<1>4. State'
  <2>1. 0 \in 0 .. Cardinality(Users)
    BY ProxyAssumption, FS_CardinalityType
  <2> QED
    BY <2>1, Nones DEF Types, State, Down, Take, Abort, Fresh, Clear, state
<1>5. Clients'
  <2>1. CASE \E g : Cut(g)
    BY <2>1, CutTypes DEF Cut, Types, Clients, Stages
  <2>2. CASE UNCHANGED conn
    BY <2>2 DEF Types, Clients, Inflight
  <2> QED
    BY <2>1, <2>2 DEF Down, Take, Abort, Fresh, Clear
<1>6. Serving'
  <2>1. \E p \in {"join", "reap", "clear", "idle"} : Stands(r, p)
    BY Moves DEF Down
  <2> QED
    BY <1>1, <1>3, <2>1, Attended DEF syncs, Starting
<1>7. Workers'
  <2>1. CASE Abort(r)
    <3> DEFINE c == h.chan
               l == [loop[c] EXCEPT !.aborted = TRUE]
    <3>1. CASE UNCHANGED loop
      BY <1>1, <3>1 DEF Types, Workers, syncs
    <3>2. CASE ~UNCHANGED loop
      <4>1. c \in Chans /\ loop' = [loop EXCEPT ![c] = l] /\ loop[c] \in Loops
        BY <1>3, <2>1, <3>2 DEF Abort, Types, Workers, Requests
      <4>2. l \in Loops /\ l.pc = loop[c].pc
        BY <4>1 DEF Loops
      <4> HIDE DEF l
      <4> QED
        BY <1>1, <4>1, <4>2, LoopMoved DEF syncs, Types, Workers
    <3> QED
      BY <3>1, <3>2
  <2>2. ASSUME NEW c \in Chans, Fresh(r, c) PROVE Workers'
    <3>1. loop' \in [Chans -> Loops]
      BY <1>3, <2>2, Nones DEF Fresh, Types, Workers
    <3>2. \A d \in Chans : loop'[d].pc = loop[d].pc
                           \/ (loop[d].pc \in {"slot", "dead"} /\ loop'[d].pc \in {"slot", "dead"})
      BY <1>3, <2>2 DEF Fresh, Types, Workers, NoLoop
    <3> QED
      BY <1>1, <3>1, <3>2 DEF Types, Workers, syncs
  <2>3. CASE UNCHANGED loop
    BY <1>1, <2>3 DEF Types, Workers, syncs
  <2> QED
    BY <2>1, <2>2, <2>3 DEF Down, Take, Clear
<1> QED
  BY <1>2, <1>4, <1>5, <1>6, <1>7 DEF Types

(* A task that is not, or no longer, in sync_from_db has no listing.       *)
LEMMA Forgotten ==
  ASSUME Types, NEW t \in Tasks, sync' = [sync EXCEPT ![t] = NoSync], Forget(t),
         late' \subseteq Holders \ {t}, behind' \in BOOLEAN
  PROVE  Listing' /\ Holders' = Holders \ {t}
<1>1. sync' \in [Tasks -> Syncs] /\ sync'[t].pc = "idle" /\ \A u \in Tasks : u # t => sync'[u] = sync[u]
  BY Nones DEF Types, Listing, NoSync
<1>2. Holders' = Holders \ {t}
  BY <1>1 DEF Holders
<1>3. older' \in [Tasks -> SUBSET Tasks]
  BY DEF Forget, Types, Listing
<1>4. \A u \in Tasks : older'[u] \subseteq Holders' /\ (u \notin Holders' => older'[u] = {})
  BY <1>2 DEF Forget, Types, Listing
<1> QED
  BY <1>1, <1>2, <1>3, <1>4 DEF Listing

LEMMA GiveUpTypes ==
  ASSUME Types, NEW r \in Reqs, GiveUp(r)
  PROVE  Types'
<1>1. Table' /\ State' /\ Clients'
  BY DEF Types, Table, State, Clients, Inflight, GiveUp, row, state
<1>2. Stands(r, "idle") /\ r \in Tasks
  BY Ends, Kinds DEF GiveUp
<1>3. sync' = [sync EXCEPT ![r] = NoSync] /\ Forget(r) /\ UNCHANGED loop
  BY DEF GiveUp
<1>4. late' \subseteq Holders \ {r} /\ behind' \in BOOLEAN
  <2>1. CASE req[r].pc = "tick"
    <3>1. r \notin Holders
      BY <2>1 DEF Holders, Types, Serving
    <3> QED
      BY <2>1, <3>1, Untolds DEF GiveUp
  <2>2. CASE req[r].pc # "tick"
    BY <2>2 DEF GiveUp, Types, Listing
  <2> QED
    BY <2>1, <2>2
<1>5. Listing'
  BY <1>2, <1>3, <1>4, Forgotten
<1>6. sync'[r].pc = "idle" /\ \A t \in Tasks : t # r => sync'[t] = sync[t]
  BY <1>2, <1>3 DEF Types, Listing, NoSync
<1>7. Serving'
  BY <1>2, <1>6, Kinds, Attended DEF Starting, Stopping
<1>8. Workers'
  BY <1>3, <1>6, Kinds DEF Types, Workers
<1> QED
  BY <1>1, <1>5, <1>7, <1>8 DEF Types

Background(c) == Loop(c) \/ Absorb(c)

LEMMA BackgroundTypes ==
  ASSUME Types, NEW c \in Chans, Background(c)
  PROVE  Types'
<1>1. UNCHANGED <<row, fresh, state, permit, auth, lst, req, conn>>
  BY DEF Background, Loop, Absorb, Recv, Elapse, Close, Die
<1>2. Table' /\ State' /\ Clients'
  BY <1>1 DEF Types, Table, State, Clients, Inflight, row, state
<1>3. loop[c] \in Loops /\ c \in Tasks /\ c \notin Reqs
  BY Kinds DEF Types, Workers
<1>4. CASE Elapse(c)
  <2> DEFINE l == [loop[c] EXCEPT !.pc = "sync"]
             y == [NoSync EXCEPT !.pc = "list"]
  <2>1. loop' = [loop EXCEPT ![c] = l] /\ sync' = [sync EXCEPT ![c] = y] /\ UNCHANGED <<older, late, behind>>
    BY <1>4 DEF Elapse, Enter, Types, Workers
  <2>2. l \in Loops /\ l.pc = "sync" /\ y \in Syncs /\ y.pc = "list" /\ sync[c].pc = "idle"
    BY <1>3, <1>4, Nones DEF Elapse, Loops, Syncs, NoSync, Types, Workers
  <2> HIDE DEF l, y
  <2>3. sync' \in [Tasks -> Syncs] /\ sync'[c].pc = "list" /\ \A t \in Tasks : t # c => sync'[t] = sync[t]
    BY <1>3, <2>1, <2>2 DEF Types, Listing
  <2>4. Holders' = Holders
    BY <2>2, <2>3 DEF Holders
  <2>5. Listing'
    BY <2>1, <2>3, <2>4 DEF Types, Listing
  <2>6. Workers'
    BY <2>1, <2>2, <2>3, Kinds, LoopMoved
  <2>7. Serving'
    BY <1>1, <1>3, <2>3, Kinds DEF Types, Serving
  <2> QED
    BY <1>2, <2>5, <2>6, <2>7 DEF Types
<1>5. CASE Recv(c) \/ Absorb(c) \/ Close(c)
  <2>1. UNCHANGED syncs
    BY <1>5 DEF Recv, Absorb, Close
  <2>2. Listing' /\ Serving'
    BY <1>1, <2>1 DEF Types, Listing, Serving, Holders, syncs
  <2>3. \E l \in Loops : loop' = [loop EXCEPT ![c] = l] /\ (l.pc = "sync" <=> loop[c].pc = "sync")
    <3>1. CASE Recv(c)
      <4> DEFINE l == [loop[c] EXCEPT !.pc = "debounce", !.pending = FALSE]
      <4>1. l \in Loops /\ l.pc = "debounce" /\ loop[c].pc = "recv"
        BY <1>3, <3>1 DEF Loops, Recv
      <4>2. loop' = [loop EXCEPT ![c] = l]
        BY <3>1 DEF Recv, Types, Workers
      <4> QED
        BY <4>1, <4>2
    <3>2. CASE Absorb(c)
      <4> DEFINE l == [loop[c] EXCEPT !.pending = FALSE]
      <4>1. l \in Loops /\ l.pc = loop[c].pc
        BY <1>3 DEF Loops
      <4>2. loop' = [loop EXCEPT ![c] = l]
        BY <3>2 DEF Absorb, Types, Workers
      <4> QED
        BY <4>1, <4>2
    <3>3. CASE Close(c)
      BY <3>3, Nones DEF Close, NoLoop
    <3> QED
      BY <1>5, <3>1, <3>2, <3>3
  <2>4. Workers'
    BY <2>1, <2>3, LoopMoved DEF syncs, Types, Workers
  <2> QED
    BY <1>2, <2>2, <2>4 DEF Types
<1>6. CASE Die(c)
  <2>1. Listing'
    BY <1>3, <1>6, Forgotten DEF Die, Types, Listing
  <2>2. sync'[c].pc = "idle" /\ \A t \in Tasks : t # c => sync'[t] = sync[t]
    BY <1>3, <1>6 DEF Die, Types, Listing, NoSync
  <2>3. Serving'
    BY <1>1, <1>3, <2>2, Kinds DEF Types, Serving
  <2>4. NoLoop.pc = "dead"
    BY DEF NoLoop
  <2>5. Workers'
    BY <1>6, <2>2, <2>4, Kinds, Nones, LoopMoved DEF Die
  <2> QED
    BY <1>2, <2>1, <2>3, <2>5 DEF Types
<1> QED
  BY <1>4, <1>5, <1>6 DEF Background, Loop

(* What has left sync_from_db: a loop waits again, a start goes on or ends,*)
(* and a pass of the reconciler is over.                                   *)
LEMMA Leaves ==
  ASSUME Types, NEW t \in Tasks, sync[t].pc # "idle", sync' = [sync EXCEPT ![t] = NoSync],
         loop' = IF t \in Chans THEN [loop EXCEPT ![t].pc = "recv"] ELSE loop,
         IF t \in Reqs THEN Go(t, "bind") \/ Done(t) ELSE UNCHANGED req
  PROVE  Workers' /\ Serving'
<1>1. sync'[t].pc = "idle" /\ \A u \in Tasks : u # t => sync'[u] = sync[u]
  BY DEF Types, Listing, NoSync
<1>2. Workers'
  <2>1. CASE t \in Chans
    <3> DEFINE l == [loop[t] EXCEPT !.pc = "recv"]
    <3>1. loop[t] \in Loops
      BY <2>1 DEF Types, Workers
    <3>2. l \in Loops /\ l.pc = "recv"
      BY <3>1 DEF Loops
    <3>3. loop' = [loop EXCEPT ![t] = l]
      BY <2>1 DEF Types, Workers
    <3> HIDE DEF l
    <3>4. sync'[t].pc = "idle" /\ \A d \in Chans : d # t => sync'[d] = sync[d]
      BY <1>1, Kinds
    <3> QED
      BY <2>1, <3>2, <3>3, <3>4, LoopMoved
  <2>2. CASE t \notin Chans
    BY <1>1, <2>2, Kinds DEF Types, Workers
  <2> QED
    BY <2>1, <2>2
<1>3. Serving'
  <2>1. CASE t \in Reqs
    <3>1. \E p \in {"bind", "idle"} : Stands(t, p)
      BY <2>1, Goes, Ends DEF Positions, Starting
    <3>2. t \in Starters
      BY <2>1 DEF Types, Serving, Starting
    <3> QED
      BY <1>1, <2>1, <3>1, <3>2, Kinds, Attended
  <2>2. CASE t \notin Reqs
    BY <1>1, <2>2, Kinds DEF Types, Serving
  <2> QED
    BY <2>1, <2>2
<1> QED
  BY <1>2, <1>3

LEMMA SyncTypes ==
  ASSUME Types, NEW t \in Tasks, Sync(t)
  PROVE  Types'
<1>1. Table' /\ Clients'
  BY DEF Types, Table, Clients, Inflight, Sync, SyncList, SyncFail, SyncInstall, SyncCount, row
<1>2. sync[t] \in Syncs /\ sync[t].rows \in Rows
  BY DEF Types, Listing, Syncs
<1>3. State'
  <2>1. Count(sync[t].rows) \in 0 .. Cardinality(Users)
    BY Counts
  <2> QED
    BY <1>2, <2>1 DEF Types, State, Sync, SyncList, SyncFail, SyncInstall, SyncCount, state
<1>4. CASE SyncList(t) \/ SyncInstall(t)
  <2>1. PICK y \in Syncs : y.pc \in {"install", "count"} /\ sync' = [sync EXCEPT ![t] = y]
                           /\ (SyncList(t) => y.pc = "install") /\ (SyncInstall(t) => y.pc = "count")
    <3>1. CASE SyncList(t)
      <4> DEFINE y == [pc |-> "install", rows |-> creds]
      <4>1. y \in Syncs /\ y.pc = "install" /\ sync[t].pc = "list"
        BY <3>1 DEF Types, Table, Syncs, SyncList
      <4> QED
        BY <3>1, <4>1 DEF SyncList, ListCredentials, SyncInstall
    <3>2. CASE SyncInstall(t)
      <4> DEFINE y == [sync[t] EXCEPT !.pc = "count"]
      <4>1. y \in Syncs /\ y.pc = "count" /\ sync[t].pc = "install"
        BY <1>2, <3>2 DEF Syncs, SyncInstall
      <4>2. sync' = [sync EXCEPT ![t] = y]
        BY <3>2 DEF SyncInstall, Types, Listing
      <4> QED
        BY <4>1, <4>2 DEF SyncList
    <3> QED
      BY <1>4, <3>1, <3>2
  <2>2. sync' \in [Tasks -> Syncs] /\ sync'[t] = y /\ \A u \in Tasks : u # t => sync'[u] = sync[u]
    BY <2>1 DEF Types, Listing
  <2>3. UNCHANGED <<loop, req>> /\ sync[t].pc # "idle"
    BY <1>4 DEF SyncList, SyncInstall
  <2>4. Workers' /\ Serving'
    BY <2>1, <2>2, <2>3, Kinds DEF Types, Workers, Serving
  <2>5. CASE SyncList(t)
    <3>1. Holders' = Holders \union {t} /\ t \notin Holders
      BY <2>1, <2>2, <2>5 DEF Holders, SyncList
    <3>2. older' = [older EXCEPT ![t] = Holders] /\ UNCHANGED <<late, behind>>
      BY <2>5 DEF SyncList
    <3>3. older' \in [Tasks -> SUBSET Tasks]
      BY <3>2 DEF Types, Listing, Holders
    <3> QED
      BY <1>1, <1>3, <2>2, <2>4, <3>1, <3>2, <3>3 DEF Types, Listing
  <2>6. CASE SyncInstall(t)
    <3>1. Holders' = Holders \ {t}
      BY <2>1, <2>2, <2>6 DEF Holders
    <3>2. late' = (late \union older[t]) \ {t} /\ behind' \in BOOLEAN /\ Forget(t)
      BY <2>6 DEF SyncInstall
    <3>3. older' \in [Tasks -> SUBSET Tasks] /\ late' \subseteq Holders'
          /\ \A u \in Tasks : older'[u] \subseteq Holders' /\ (u \notin Holders' => older'[u] = {})
      BY <3>1, <3>2 DEF Forget, Types, Listing
    <3> QED
      BY <1>1, <1>3, <2>2, <2>4, <3>2, <3>3 DEF Types, Listing
  <2> QED
    BY <1>4, <2>5, <2>6
<1>5. CASE SyncFail(t) \/ SyncCount(t)
  <2>1. sync[t].pc \in {"list", "count"} /\ sync' = [sync EXCEPT ![t] = NoSync] /\ UNCHANGED older
    BY <1>5 DEF SyncFail, SyncCount
  <2>2. Workers' /\ Serving'
    BY <1>5, <2>1, Leaves DEF SyncFail, SyncCount
  <2>3. sync' \in [Tasks -> Syncs] /\ Holders' = Holders
    BY <2>1, Nones DEF Types, Listing, Holders, NoSync
  <2>4. late' \subseteq Holders /\ behind' \in BOOLEAN
    BY <1>5, Untolds DEF SyncFail, SyncCount, Types, Listing
  <2>5. Listing'
    BY <2>1, <2>3, <2>4 DEF Types, Listing
  <2> QED
    BY <1>1, <1>3, <2>2, <2>5 DEF Types
<1> QED
  BY <1>4, <1>5 DEF Sync

(* The permits are never more than taken: accept counts before it takes.   *)
LEMMA ServeTypes ==
  ASSUME Types, NEW c \in Conns, Serve(c)
  PROVE  Types'
<1>1. UNCHANGED <<row, fresh, state, permit, auth, lst, loop, req, syncs>>
  BY DEF Serve, Accept, Authenticate, Request, Connected, HangUp, Cancelled
<1>2. Table' /\ State' /\ Workers' /\ Serving' /\ Listing'
  BY <1>1 DEF Types, Table, State, Workers, Serving, Listing, Holders, row, state, syncs
<1>3. conn' \in [Conns -> Stages]
  BY Nones DEF Types, Clients, Stages, Serve, Accept, Authenticate, Request, Connected, HangUp, Cancelled
<1>4. IsFiniteSet(Inflight) /\ Cardinality(Inflight) \in Nat
  BY ProxyAssumption, FS_Subset, FS_CardinalityType DEF Inflight
<1>5. Cardinality(Inflight') <= MaxInflight
  <2>1. CASE \E g \in Gens : Accept(c, g)
    <3>1. Inflight' = Inflight \union {c} /\ c \notin Inflight
      BY <2>1 DEF Accept, Inflight, Types, Clients
    <3>2. Cardinality(Inflight') = Cardinality(Inflight) + 1
      BY <1>4, <3>1, FS_AddElement
    <3> QED
      BY <1>4, <2>1, <3>2, ProxyAssumption DEF Accept
  <2>2. CASE ~\E g \in Gens : Accept(c, g)
    <3>1. Inflight' \subseteq Inflight
      BY <2>2 DEF Types, Clients, Inflight, Closed, Serve, Authenticate, Request, Connected, HangUp, Cancelled
    <3>2. Cardinality(Inflight') <= Cardinality(Inflight) /\ Cardinality(Inflight') \in Nat
      BY <1>4, <3>1, FS_Subset, FS_CardinalityType
    <3> QED
      BY <1>4, <3>2, ProxyAssumption DEF Types, Clients
  <2> QED
    BY <2>1, <2>2
<1> QED
  BY <1>2, <1>3, <1>5 DEF Types, Clients

LEMMA ExitTypes ==
  ASSUME Types, NEW g \in Gens, ListenerExit(g)
  PROVE  Types'
<1>1. UNCHANGED <<row, fresh, state, permit, auth, loop, conn, syncs>>
  BY DEF ListenerExit
<1>2. lst' \in [Gens -> {"none", "up", "cancelled"}]
  BY DEF ListenerExit, Types, State
<1>3. req' \in [Reqs -> Requests] /\ \A r \in Reqs : req'[r].pc = req[r].pc
  BY DEF ListenerExit, Types, Serving, Requests
<1> QED
  BY <1>1, <1>2, <1>3 DEF Types, Table, State, Workers, Serving, Listing, Clients, Holders, Inflight, row, state, syncs

LEMMA ReconcileTypes ==
  ASSUME Types, Reconcile
  PROVE  Types'
<1> DEFINE y == [NoSync EXCEPT !.pc = "list"]
<1>1. sync' = [sync EXCEPT ![Recon] = y] /\ y \in Syncs /\ y.pc = "list" /\ sync[Recon].pc = "idle"
  BY Nones DEF Reconcile, Enter, Syncs, NoSync
<1>2. UNCHANGED <<row, state, auth, lst, loop, older, late, behind, req, conn, fresh>> /\ permit' \in BOOLEAN
  BY DEF Reconcile
<1> HIDE DEF y
<1>3. sync' \in [Tasks -> Syncs] /\ sync'[Recon].pc = "list" /\ \A t \in Tasks : t # Recon => sync'[t] = sync[t]
  BY <1>1, Kinds DEF Types, Listing
<1>4. Holders' = Holders
  BY <1>1, <1>3 DEF Holders
<1>5. Listing' /\ Workers' /\ Serving'
  BY <1>2, <1>3, <1>4, Kinds DEF Types, Listing, Workers, Serving
<1> QED
  BY <1>2, <1>5 DEF Types, Table, State, Clients, Inflight, row, state

LEMMA RestartTypes ==
  ASSUME Types, Restart
  PROVE  Types'
<1>1. cur' \in Chans /\ running' \in BOOLEAN /\ creds \in Rows /\ UNCHANGED <<row, fresh>>
  BY Nones DEF Restart, Types, Table
<1>2. PICK g \in Gens : LET boot == Booted(cur', g, running')
                        IN /\ active' = boot.active /\ slot' = boot.slot /\ handle' = boot.handle
                           /\ auth' = boot.auth /\ lst' = boot.lst /\ loop' = boot.loop
  BY DEF Restart
<1>10. Sound(Booted(cur', g, running'), running')
  BY <1>1, Boots
<1>3. State' /\ loop' \in [Chans -> Loops] /\ \A d \in Chans : loop'[d].pc # "sync"
  BY <1>1, <1>2, <1>10 DEF Restart, State, Sound
<1>4. sync' \in [Tasks -> Syncs] /\ \A t \in Tasks : sync'[t].pc = "idle"
  BY Nones DEF Restart, NoSync
<1>5. Workers'
  BY <1>3, <1>4, Kinds DEF Workers
<1>6. Serving'
  BY <1>4, Kinds, Nones DEF Restart, Serving, Idle, Starting, Stopping
<1>7. Listing'
  BY <1>4, Nones DEF Restart, Listing, Holders
<1>8. Clients'
  <2>1. Inflight' = {} /\ conn' \in [Conns -> Stages]
    BY Nones DEF Restart, Inflight, Closed
  <2> QED
    BY <2>1, FS_EmptySet, ProxyAssumption DEF Clients
<1>9. Table'
  BY <1>1 DEF Types, Table, row
<1> QED
  BY <1>3, <1>5, <1>6, <1>7, <1>8, <1>9 DEF Types

LEMMA StepTypes == Types /\ [Next]_vars => Types'
<1> SUFFICES ASSUME Types, [Next]_vars PROVE Types'
  OBVIOUS
<1>1. CASE UNCHANGED vars
  BY <1>1 DEF Types, Table, State, Workers, Serving, Listing, Clients, Holders, Inflight, vars, row, state, syncs
<1> QED
  BY <1>1, WriteTypes, NotifyTypes, StartTypes, DownTypes, GiveUpTypes, BackgroundTypes, SyncTypes,
     ExitTypes, ServeTypes, ReconcileTypes, RestartTypes DEF Next, Background

(* Every variable keeps its type: in particular a loop, a start and a pass *)
(* of the reconciler are in sync_from_db exactly while they say so, a      *)
(* credential has its user, and no more connections are open than          *)
(* max_inflight, through any starts, stops and restarts.                   *)
THEOREM ProxyTypes == Spec => []TypeOK
<1>1. Types => TypeOK
  BY DEF Types, Table, State, Workers, Serving, Listing, Clients, TypeOK, Rows, Loops, Syncs, Stages
<1> QED
  BY <1>1, InitTypes, StepTypes, PTL DEF Spec

----------------------------------------------------------------------------
(* The map and the table.                                                  *)

LEMMA Lonely ==
  ASSUME OneStarter, Types, NEW q \in Reqs, NEW r \in Reqs,
         req[q].pc \in Starting \union Stopping, req[r].pc \in Starting \union Stopping
  PROVE  q = r
BY DEF OneStarter, Types, Serving

(* A listing that is given up.                                             *)
LEMMA Drops ==
  ASSUME Types, Aging, NEW t \in Tasks, Forget(t),
         late' = late \ {t} \/ late' = late \union Holders
  PROVE  Aging'
<1>1. \A u \in Tasks : older'[u] \subseteq older[u] /\ (u # t => older'[u] = older[u] \ {t})
                       /\ (u = t => older'[u] = {})
  BY DEF Forget
<1>2. \A u \in Tasks : Recon \in older'[u] => older'[Recon] \subseteq older'[u] /\ u \notin older'[Recon]
  BY <1>1, Kinds DEF Aging
<1>3. Recon \in late' => older'[Recon] \subseteq late'
  BY <1>1, Kinds DEF Aging, Types, Listing
<1> QED
  BY <1>2, <1>3 DEF Aging

LEMMA AgingStep == Types /\ Aging /\ [Next]_vars => Aging'
<1> SUFFICES ASSUME Types, Aging, [Next]_vars PROVE Aging'
  OBVIOUS
<1>1. CASE UNCHANGED <<older, late>>
  BY <1>1 DEF Aging
<1>2. CASE Untold /\ UNCHANGED older
  BY <1>2, Untolds, Kinds DEF Aging, Types, Listing, Untold
<1>3. ASSUME NEW t \in Tasks, Sync(t) PROVE Aging'
  <2>1. CASE SyncList(t)
    <3>1. older' = [older EXCEPT ![t] = Holders] /\ UNCHANGED late /\ t \notin Holders
      BY <2>1 DEF SyncList, Holders
    <3>2. older'[t] = Holders /\ \A u \in Tasks : u # t => older'[u] = older[u]
      BY <3>1 DEF Types, Listing
    <3>3. \A u \in Tasks : older[u] \subseteq Holders
      BY DEF Types, Listing
    <3>4. CASE t = Recon
      BY <3>1, <3>2, <3>3, <3>4, Kinds DEF Aging, Types, Listing
    <3>5. CASE t # Recon
      BY <3>1, <3>2, <3>3, <3>5, Kinds DEF Aging
    <3> QED
      BY <3>4, <3>5
  <2>2. CASE SyncInstall(t)
    <3>1. late' = (late \union older[t]) \ {t} /\ Forget(t)
      BY <2>2 DEF SyncInstall
    <3>2. \A u \in Tasks : older'[u] \subseteq older[u] /\ (u # t => older'[u] = older[u] \ {t})
                           /\ (u = t => older'[u] = {})
      BY <3>1 DEF Forget
    <3>3. \A u \in Tasks : Recon \in older'[u] => older'[Recon] \subseteq older'[u] /\ u \notin older'[Recon]
      BY <3>2, Kinds DEF Aging
    <3>4. Recon \in late' => older'[Recon] \subseteq late'
      BY <3>1, <3>2, Kinds DEF Aging
    <3> QED
      BY <3>3, <3>4 DEF Aging
  <2>3. CASE SyncFail(t)
    BY <1>2, <2>3 DEF SyncFail
  <2>4. CASE SyncCount(t)
    BY <1>1, <2>4 DEF SyncCount
  <2> QED
    BY <1>3, <2>1, <2>2, <2>3, <2>4 DEF Sync
<1>4. ASSUME NEW r \in Reqs, Write(r) \/ SendTick(r) \/ WakeReconciler(r) \/ Start(r) \/ StopCheck(r) \/ Down(r)
      PROVE  Aging'
  BY <1>1, <1>2, <1>4 DEF Write, Enable, Disable, Rotate, DeleteUser, SendTick, WakeReconciler, Start, StopCheck,
     StartCheck, StartBind, StoreListeners, StartLoop, StoreHandle, StartMark, Down, Take, Abort, Fresh, Clear, syncs
<1>5. ASSUME NEW r \in Reqs, GiveUp(r) PROVE Aging'
  BY <1>5, Kinds, Drops DEF GiveUp, Untold
<1>6. ASSUME NEW c \in Chans, Loop(c) \/ Absorb(c) PROVE Aging'
  <2>1. CASE Die(c)
    BY <2>1, Kinds, Drops DEF Die
  <2> QED
    BY <1>1, <1>6, <2>1 DEF Loop, Absorb, Recv, Elapse, Close, syncs
<1>7. CASE (\E g \in Gens : ListenerExit(g)) \/ (\E c \in Conns : Serve(c)) \/ Reconcile \/ UNCHANGED vars
  BY <1>1, <1>7 DEF ListenerExit, Serve, Accept, Authenticate, Request, Connected, HangUp, Cancelled, Reconcile,
     syncs, vars
<1>8. CASE Restart
  BY <1>8, Kinds DEF Restart, Aging
<1> QED
  BY <1>3, <1>4, <1>5, <1>6, <1>7, <1>8 DEF Next

(* A step that changes neither table nor map, and at most drops listings   *)
(* that are not the reconciler's.                                          *)
LEMMA Steady ==
  ASSUME Types, Listed, Applied, UNCHANGED <<creds, auth, behind>>, Pending => Pending', Serves' => Serves,
         NEW S, Recon \notin S, Holders' = Holders \ S, late' = late \ S, older'[Recon] = older[Recon] \ S,
         \A t \in Holders' : sync'[t] = sync[t]
  PROVE  Listed' /\ Applied'
<1>1. Current => Current'
  BY DEF Current
<1>2. ASSUME ~Pending, NEW t \in Holders', t \notin late'
      PROVE  sync'[t].rows = creds' \/ (Current' /\ t \in older'[Recon])
  BY <1>1, <1>2 DEF Listed
<1>3. Listed'
  BY <1>2 DEF Listed
<1>4. Applied'
  BY <1>1 DEF Applied
<1> QED
  BY <1>3, <1>4

LEMMA Still ==
  ASSUME Types, Listed, Applied, UNCHANGED <<creds, auth, behind, late, older>>, Pending => Pending',
         Serves' => Serves, Holders' = Holders, \A t \in Holders : sync'[t] = sync[t]
  PROVE  Listed' /\ Applied'
<1>1. PICK S : S = {}
  OBVIOUS
<1>2. Recon \notin S /\ Holders' = Holders \ S /\ late' = late \ S /\ older'[Recon] = older[Recon] \ S
  BY <1>1
<1>3. \A t \in Holders' : sync'[t] = sync[t]
  OBVIOUS
<1> QED
  BY <1>2, <1>3, Steady

(* Once a change or its loss is known, nothing more is asked of the rest.  *)
LEMMA Asked ==
  ASSUME Pending'
  PROVE  Listed' /\ Applied'
BY DEF Listed, Applied

LEMMA Overtaken ==
  ASSUME Holders' \subseteq late', behind'
  PROVE  Listed' /\ Applied'
BY DEF Listed, Applied

LEMMA ListStep ==
  ASSUME Types, Aging, Listed, Applied, NEW t \in Tasks, SyncList(t)
  PROVE  Listed' /\ Applied'
<1>1. /\ UNCHANGED <<creds, auth, behind, late, req, running, permit>> /\ sync[t].pc = "list"
      /\ sync' = [sync EXCEPT ![t] = [pc |-> "install", rows |-> creds]]
      /\ older' = [older EXCEPT ![t] = Holders]
  BY DEF SyncList, ListCredentials, row, state
<1>2. /\ sync'[t].pc = "install" /\ sync'[t].rows = creds /\ \A u \in Tasks : u # t => sync'[u] = sync[u]
      /\ older'[t] = Holders /\ \A u \in Tasks : u # t => older'[u] = older[u]
  BY <1>1 DEF Types, Listing
<1>3. Holders' = Holders \union {t} /\ t \notin Holders
  BY <1>1, <1>2 DEF Holders
<1>4. Serves' => Serves
  <2>1. \A r \in Reqs : sync'[r].pc = "count" => sync[r].pc = "count"
    BY <1>2, Kinds
  <2> QED
    BY <1>1, <2>1 DEF Serves
<1>5. CASE t = Recon
  <2>1. Current'
    BY <1>1, <1>2, <1>3, <1>5 DEF Current, Types, Listing
  <2>2. \A u \in Holders' \ late' : sync'[u].rows = creds' \/ (Current' /\ u \in older'[Recon])
    BY <1>1, <1>2, <1>3, <1>5, <2>1
  <2> QED
    BY <2>1, <2>2 DEF Listed, Applied
<1>6. CASE t # Recon
  <2>1. (Pending => Pending') /\ (Current => Current') /\ older'[Recon] = older[Recon]
    BY <1>1, <1>2, <1>3, <1>6, Kinds DEF Pending, Current
  <2>2. ASSUME ~Pending, NEW u \in Holders' \ late'
        PROVE  sync'[u].rows = creds' \/ (Current' /\ u \in older'[Recon])
    <3>1. u \in Tasks
      BY <2>2, <1>3 DEF Holders
    <3> QED
      BY <1>1, <1>2, <1>3, <2>1, <2>2, <3>1 DEF Listed
  <2> QED
    BY <1>1, <1>4, <2>1, <2>2 DEF Listed, Applied
<1> QED
  BY <1>5, <1>6

(* A listing that is not the table and has not been overtaken is installed *)
(* under a newer one of the reconciler's that is.                          *)
LEMMA InstallStep ==
  ASSUME Types, Aging, Listed, Applied, NEW t \in Tasks, SyncInstall(t)
  PROVE  Listed' /\ Applied'
<1>1. /\ UNCHANGED <<creds, req, permit>> /\ sync[t].pc = "install" /\ sync' = [sync EXCEPT ![t].pc = "count"]
      /\ auth' = sync[t].rows /\ behind' = (t \in late) /\ late' = (late \union older[t]) \ {t} /\ Forget(t)
  BY DEF SyncInstall, row
<1>2. sync'[t].pc = "count" /\ \A u \in Tasks : u # t => sync'[u] = sync[u]
  <2>1. sync[t] \in Syncs
    BY DEF Types, Listing
  <2> QED
    BY <1>1, <2>1 DEF Types, Listing, Syncs
<1>3. Holders' = Holders \ {t} /\ t \in Holders
  BY <1>1, <1>2 DEF Holders
<1>4. Pending => Pending'
  BY <1>1, <1>2, Kinds DEF Pending
<1>5. ASSUME Recon # t, Current, Recon \notin older[t]
      PROVE  Current' /\ older'[Recon] = older[Recon] \ {t}
  BY <1>1, <1>2, <1>3, <1>5, Kinds DEF Current, Forget
<1>6. ASSUME ~Pending, NEW u \in Holders' \ late'
      PROVE  sync'[u].rows = creds' \/ (Current' /\ u \in older'[Recon])
  <2>1. u \in Holders \ late /\ u # t /\ u \notin older[t] /\ sync'[u] = sync[u]
    BY <1>1, <1>2, <1>3, <1>6 DEF Holders
  <2>2. CASE Current /\ u \in older[Recon]
    <3>1. Recon # t /\ Recon \notin older[t]
      BY <2>1, <2>2 DEF Aging
    <3> QED
      BY <1>5, <2>1, <2>2, <3>1
  <2> QED
    BY <1>1, <1>6, <2>1, <2>2 DEF Listed
<1>7. ASSUME ~Pending, t \notin late PROVE auth' = creds' \/ Current'
  <2>1. CASE Current /\ t \in older[Recon]
    <3>1. Recon # t /\ Recon \notin older[t]
      BY <2>1, Kinds DEF Aging
    <3> QED
      BY <1>5, <2>1, <3>1
  <2> QED
    BY <1>1, <1>3, <1>7, <2>1 DEF Listed
<1>8. Listed'
  BY <1>4, <1>6 DEF Listed
<1>9. Applied'
  BY <1>1, <1>4, <1>7 DEF Applied
<1> QED
  BY <1>8, <1>9

LEMMA StartApplied ==
  ASSUME Types, Listed, Applied, NEW r \in Reqs, Start(r) \/ StopCheck(r)
  PROVE  Listed' /\ Applied'
<1>1. UNCHANGED <<creds, auth, older, late, behind, permit>>
  BY DEF Start, StopCheck, StartCheck, StartBind, StoreListeners, StartLoop, StoreHandle, StartMark, row, syncs
<1>2. /\ req[r].pc \notin {"tick", "notify"} /\ \A x \in Reqs : x # r => req'[x] = req[x]
  BY Moves DEF Start, StopCheck, StartCheck, StartBind, StoreListeners, StartLoop, StoreHandle, StartMark,
               Accepts, Stands
<1>3. CASE StartCheck(r)
  <2>1. sync' = [sync EXCEPT ![r] = [NoSync EXCEPT !.pc = "list"]] /\ UNCHANGED running /\ r \in Tasks
    BY <1>3, Kinds DEF StartCheck, Enter, state
  <2>2. sync[r].pc = "idle" /\ sync'[r].pc = "list" /\ \A t \in Tasks : t # r => sync'[t] = sync[t]
    BY <1>3, <2>1 DEF StartCheck, Accepts, Types, Serving, Listing, NoSync
  <2>3. Holders' = Holders /\ \A t \in Holders : sync'[t] = sync[t]
    BY <2>2 DEF Holders
  <2>4. req'[r].pc = "sync"
    BY <1>3, Moves DEF Stands
  <2>5. Serves' => Serves
    BY <1>2, <2>1, <2>2, <2>4, Kinds DEF Serves
  <2>6. Pending => Pending'
    BY <1>1, <1>2, <2>2, Kinds DEF Pending
  <2> QED
    BY <1>1, <2>3, <2>5, <2>6, Still
<1>4. CASE ~StartCheck(r)
  <2>1. UNCHANGED sync /\ Serves
    BY <1>4 DEF Start, StopCheck, StartBind, StoreListeners, StartLoop, StoreHandle, StartMark, syncs, Serves,
                Starting
  <2>2. Holders' = Holders /\ (Pending => Pending')
    BY <1>1, <1>2, <2>1 DEF Holders, Pending
  <2> QED
    BY <1>1, <2>1, <2>2, Still
<1> QED
  BY <1>3, <1>4

LEMMA DownApplied ==
  ASSUME OneStarter, Types, Alone, Listed, Applied, NEW r \in Reqs, Down(r)
  PROVE  Listed' /\ Applied'
<1>1. UNCHANGED <<creds, sync, older, late, behind, permit>>
  BY DEF Down, Take, Abort, Fresh, Clear, row, syncs
<1>2. /\ req[r].pc \in Stopping /\ \A x \in Reqs : x # r => req'[x] = req[x]
      /\ req'[r].pc \in {"join", "reap", "clear", "idle"}
  BY Moves DEF Down, Take, Abort, Fresh, Clear, Stopping, Stands
<1>3. Holders' = Holders /\ (Pending => Pending')
  BY <1>1, <1>2 DEF Holders, Pending, Stopping
<1>4. running' => running
  BY DEF Down, Take, Abort, Fresh, Clear, state
<1>5. Serves' => Serves
  BY <1>1, <1>2, <1>4 DEF Serves, Starting
<1>6. CASE Clear(r)
  <2>1. ~running' /\ req[r].pc = "clear"
    BY <1>2, <1>4, <1>6 DEF Alone, Clear, Starting, Stopping
  <2>2. \A x \in Reqs : req'[x].pc \notin Starting
    BY <1>2, Lonely DEF Starting, Stopping
  <2>3. ~Serves'
    BY <2>1, <2>2 DEF Serves, Starting
  <2> QED
    BY <1>1, <1>3, <2>3 DEF Listed, Applied, Current
<1>7. CASE ~Clear(r)
  <2>1. UNCHANGED auth
    BY <1>7 DEF Down, Take, Abort, Fresh
  <2> QED
    BY <1>1, <1>3, <1>5, <2>1, Still
<1> QED
  BY <1>6, <1>7

LEMMA AppliedStep == OneStarter /\ Types /\ Kept /\ [Next]_vars => Listed' /\ Applied'
<1> SUFFICES ASSUME OneStarter, Types, Kept, [Next]_vars PROVE Listed' /\ Applied'
  OBVIOUS
<1> USE DEF Kept
<1>1. CASE UNCHANGED vars
  BY <1>1 DEF vars, Listed, Applied, Serves, Pending, Current, Holders, row, state, syncs
<1>2. ASSUME NEW r \in Reqs, Write(r) PROVE Pending'
  BY <1>2, WriteTypes DEF Pending, Stands
<1>3. ASSUME NEW r \in Reqs, SendTick(r) PROVE Listed' /\ Applied'
  <2>1. CASE Go(r, "notify")
    <3>1. Pending'
      BY <2>1, Goes DEF Pending, Stands, Positions
    <3> QED
      BY <3>1, Asked
  <2>2. CASE Untold
    <3>1. Holders' = Holders
      BY <1>3 DEF SendTick, Holders
    <3> QED
      BY <2>2, <3>1, Untolds, Overtaken
  <2> QED
    BY <1>3, <2>1, <2>2 DEF SendTick
<1>4. ASSUME NEW r \in Reqs, WakeReconciler(r) PROVE Pending'
  BY <1>4 DEF WakeReconciler, Pending
<1>5. ASSUME NEW r \in Reqs, GiveUp(r) PROVE Listed' /\ Applied'
  <2>1. sync'[r].pc = "idle" /\ (\A t \in Tasks : t # r => sync'[t] = sync[t]) /\ r \in Tasks /\ r # Recon
    BY <1>5, Kinds DEF GiveUp, Types, Listing, NoSync
  <2>2. Holders' = Holders \ {r}
    BY <2>1 DEF Holders
  <2>3. CASE req[r].pc = "tick"
    BY <1>5, <2>2, <2>3, Untolds, Overtaken DEF GiveUp
  <2>4. CASE req[r].pc # "tick"
    <3>1. late' = late \ {r} /\ older'[Recon] = older[Recon] \ {r} /\ UNCHANGED <<creds, auth, behind, permit, running>>
      BY <1>5, <2>1, <2>4, Kinds DEF GiveUp, Forget, row, state
    <3>2. req'[r].pc = "idle" /\ (\A x \in Reqs : x # r => req'[x] = req[x]) /\ req[r].pc \notin {"tick", "notify"}
      BY <1>5, <2>4, Ends DEF GiveUp, Stands
    <3>3. Pending => Pending'
      BY <2>1, <3>1, <3>2, Kinds DEF Pending
    <3>4. Serves' => Serves
      BY <2>1, <3>1, <3>2, Kinds DEF Serves, Starting
    <3>5. \A t \in Holders' : sync'[t] = sync[t]
      BY <2>1, <2>2 DEF Holders
    <3> QED
      BY <2>1, <2>2, <3>1, <3>3, <3>4, <3>5, Steady
  <2> QED
    BY <2>3, <2>4
<1>6. ASSUME NEW c \in Chans, Loop(c) \/ Absorb(c) PROVE Listed' /\ Applied'
  <2>1. UNCHANGED <<creds, auth, behind, permit, req, running>> /\ c \in Tasks /\ c # Recon /\ c \notin Reqs
    BY <1>6, Kinds DEF Loop, Absorb, Recv, Elapse, Close, Die, row, state, syncs
  <2>2. CASE Die(c)
    <3>1. sync'[c].pc = "idle" /\ (\A t \in Tasks : t # c => sync'[t] = sync[t])
      BY <2>1, <2>2 DEF Die, Types, Listing, NoSync
    <3>2. Holders' = Holders \ {c} /\ \A t \in Holders' : sync'[t] = sync[t]
      BY <3>1 DEF Holders
    <3>3. late' = late \ {c} /\ older'[Recon] = older[Recon] \ {c}
      BY <2>1, <2>2, Kinds DEF Die, Forget
    <3>4. (Pending => Pending') /\ (Serves' => Serves)
      BY <2>1, <3>1, Kinds DEF Pending, Serves
    <3> QED
      BY <2>1, <3>2, <3>3, <3>4, Steady
  <2>3. CASE Elapse(c)
    <3>1. sync[c].pc = "idle" /\ sync'[c].pc = "list" /\ \A t \in Tasks : t # c => sync'[t] = sync[t]
      BY <2>1, <2>3 DEF Elapse, Enter, Types, Workers, Listing, NoSync
    <3>2. Holders' = Holders /\ (\A t \in Holders : sync'[t] = sync[t]) /\ UNCHANGED <<late, older>>
      BY <2>3, <3>1 DEF Holders, Elapse
    <3>3. (Pending => Pending') /\ (Serves' => Serves)
      BY <2>1, <3>1, Kinds DEF Pending, Serves
    <3> QED
      BY <2>1, <3>2, <3>3, Still
  <2>4. CASE Recv(c) \/ Close(c) \/ Absorb(c)
    BY <2>1, <2>4 DEF Recv, Close, Absorb, syncs, Listed, Applied, Serves, Pending, Current, Holders
  <2> QED
    BY <1>6, <2>2, <2>3, <2>4 DEF Loop
<1>7. ASSUME NEW t \in Tasks, Sync(t) PROVE Listed' /\ Applied'
  <2>1. CASE SyncFail(t)
    <3>1. Holders' = Holders
      BY <2>1 DEF SyncFail, Types, Listing, Holders, NoSync
    <3> QED
      BY <2>1, <3>1, Untolds, Overtaken DEF SyncFail
  <2>2. CASE SyncCount(t)
    <3>1. /\ UNCHANGED <<creds, auth, behind, permit, late, older, running>>
          /\ sync[t].pc = "count" /\ sync'[t].pc = "idle" /\ \A u \in Tasks : u # t => sync'[u] = sync[u]
      BY <2>2 DEF SyncCount, row, Types, Listing, NoSync
    <3>2. Holders' = Holders /\ \A u \in Holders : sync'[u] = sync[u]
      BY <3>1 DEF Holders
    <3>3. CASE t \in Reqs
      <4>1. Stands(t, "bind") /\ req[t].pc = "sync"
        BY <2>2, <3>1, <3>3, Goes DEF SyncCount, Types, Serving, Positions, Starting
      <4>2. (Pending => Pending') /\ (Serves' => Serves)
        BY <3>1, <3>3, <4>1, Kinds DEF Pending, Serves, Stands
      <4> QED
        BY <3>1, <3>2, <4>2, Still
    <3>4. CASE t \notin Reqs
      <4>1. UNCHANGED req
        BY <2>2, <3>4 DEF SyncCount
      <4>2. (Pending => Pending') /\ (Serves' => Serves)
        BY <3>1, <3>4, <4>1, Kinds DEF Pending, Serves
      <4> QED
        BY <3>1, <3>2, <4>2, Still
    <3> QED
      BY <3>3, <3>4
  <2> QED
    BY <1>7, <2>1, <2>2, ListStep, InstallStep DEF Sync
<1>8. ASSUME NEW g \in Gens, ListenerExit(g) PROVE Listed' /\ Applied'
  <2>1. \A x \in Reqs : req'[x].pc = req[x].pc
    BY <1>8 DEF ListenerExit, Types, Serving, Requests
  <2> QED
    BY <1>8, <2>1 DEF ListenerExit, row, state, syncs, Listed, Applied, Serves, Pending, Current, Holders
<1>9. ASSUME NEW c \in Conns, Serve(c) PROVE Listed' /\ Applied'
  <2>1. UNCHANGED <<creds, auth, behind, permit, req, running, sync, late, older>>
    BY <1>9 DEF Serve, Accept, Authenticate, Request, Connected, HangUp, Cancelled, row, state, syncs
  <2> QED
    BY <2>1 DEF Listed, Applied, Serves, Pending, Current, Holders
<1>10. CASE Reconcile
  <2>1. sync'[Recon].pc = "list"
    BY <1>10, Kinds DEF Reconcile, Enter, Types, Listing, NoSync
  <2> QED
    BY <2>1, Asked DEF Pending
<1>11. CASE Restart
  <2>1. Holders' = {}
    BY <1>11 DEF Restart, Holders, NoSync
  <2>2. Serves' => running'
    BY <1>11 DEF Restart, Serves, Idle, Starting
  <2>3. running' => auth' = creds'
    <3>1. creds \in Rows /\ UNCHANGED creds /\ cur' \in Chans /\ running' \in BOOLEAN
      BY <1>11, Nones DEF Restart, Types, Table, row
    <3>2. PICK g \in Gens : auth' = Booted(cur', g, running').auth
      BY <1>11 DEF Restart
    <3>3. Sound(Booted(cur', g, running'), running')
      BY <3>1, Boots
    <3> QED
      BY <3>1, <3>2, <3>3 DEF Sound
  <2> QED
    BY <2>1, <2>2, <2>3 DEF Listed, Applied
<1> QED
  BY <1>1, <1>2, <1>3, <1>4, <1>5, <1>6, <1>7, <1>8, <1>9, <1>10, <1>11, Asked, StartApplied, DownApplied DEF Next

LEMMA AloneStep == OneStarter /\ Types /\ Alone /\ [Next]_vars => Alone'
<1> SUFFICES ASSUME OneStarter, Types, Alone, [Next]_vars PROVE Alone'
  OBVIOUS
<1>1. ASSUME \A x \in Reqs : req'[x].pc = req[x].pc, UNCHANGED <<running, cur>>,
             loop[cur].pc = "slot" /\ ~loop[cur].aborted => loop'[cur].pc = "slot" /\ ~loop'[cur].aborted
      PROVE  Alone'
  BY <1>1 DEF Alone
<1>2. ASSUME NEW r \in Reqs, Write(r) \/ SendTick(r) \/ WakeReconciler(r) \/ GiveUp(r) PROVE Alone'
  <2>1. \E p \in {"tick", "notify", "idle"} : Stands(r, p)
    BY <1>2, WriteTypes, Goes, Ends DEF SendTick, WakeReconciler, GiveUp, Positions
  <2>2. UNCHANGED <<running, cur>>
    BY <1>2 DEF Write, Enable, Disable, Rotate, DeleteUser, SendTick, WakeReconciler, GiveUp, state
  <2>3. loop'[cur].pc = loop[cur].pc /\ loop'[cur].aborted = loop[cur].aborted
    <3>1. CASE loop' = [loop EXCEPT ![cur].pending = TRUE]
      BY <3>1 DEF Types, State, Workers, Loops
    <3> QED
      BY <1>2, <3>1 DEF Write, Enable, Disable, Rotate, DeleteUser, SendTick, WakeReconciler, GiveUp
  <2> QED
    BY <2>1, <2>2, <2>3 DEF Alone, Stands, Starting, Stopping
<1>3. ASSUME NEW r \in Reqs, Start(r) \/ StopCheck(r) PROVE Alone'
  <2>1. r \in Starters /\ \A x \in Reqs : x # r => req[x].pc \notin Starting \union Stopping
    <3>1. r \in Starters
      BY <1>3 DEF Start, StopCheck, StartCheck, StartBind, StoreListeners, StartLoop, StoreHandle, StartMark,
                  Types, Serving, Starting
    <3> QED
      BY <3>1 DEF OneStarter, Types, Serving
  <2>2. PICK p \in (Starting \union Stopping \union {"notify"}) : Stands(r, p)
    BY <1>3, Moves DEF Start, Starting, Stopping
  <2>3. CASE StartMark(r)
    BY <2>1, <2>3, Moves DEF Alone, Stands, Starting, Stopping
  <2>4. CASE StopCheck(r)
    BY <2>1, <2>4, Moves DEF Alone, Stands, Starting, Stopping
  <2>5. CASE Start(r) /\ ~StartMark(r)
    <3>1. ~running /\ UNCHANGED running
      BY <2>5 DEF Alone, Start, StartCheck, StartBind, StoreListeners, StartLoop, StoreHandle, state,
                  Starting
    <3>2. p # "clear"
      BY <2>2, <2>5, Moves DEF Start, Stands
    <3> QED
      BY <2>1, <2>2, <3>1, <3>2 DEF Alone, Stands, Starting, Stopping
  <2> QED
    BY <1>3, <2>3, <2>4, <2>5
<1>4. ASSUME NEW r \in Reqs, Down(r) PROVE Alone'
  <2>1. \A x \in Reqs : x # r => req[x].pc \notin Starting \union Stopping
    BY <1>4, Lonely DEF Down, Take, Abort, Fresh, Clear, Stopping
  <2>2. \E p \in {"join", "reap", "clear", "idle"} : Stands(r, p)
    BY <1>4, Moves DEF Down
  <2>3. ~running'
    BY <1>4 DEF Alone, Down, Take, Abort, Fresh, Clear, state, Starting, Stopping
  <2>4. req'[r].pc = "clear" => loop'[cur'].pc = "slot" /\ ~loop'[cur'].aborted
    <3>1. ASSUME NEW c \in Chans, Fresh(r, c) PROVE loop'[cur'].pc = "slot" /\ ~loop'[cur'].aborted
      BY <3>1 DEF Fresh, Types, State, Workers, NoLoop
    <3> QED
      BY <1>4, <3>1, Moves DEF Down, Stands
  <2> QED
    BY <2>1, <2>2, <2>3, <2>4 DEF Alone, Stands, Starting, Stopping
<1>5. ASSUME NEW c \in Chans, Loop(c) \/ Absorb(c) PROVE Alone'
  <2>1. UNCHANGED <<req, running, cur>>
    BY <1>5 DEF Loop, Absorb, Recv, Elapse, Close, Die, state
  <2>2. loop[cur].pc = "slot" /\ ~loop[cur].aborted => loop'[cur] = loop[cur]
    BY <1>5 DEF Loop, Absorb, Recv, Elapse, Close, Die, Types, Workers, State
  <2> QED
    BY <1>1, <2>1, <2>2
<1>6. ASSUME NEW t \in Tasks, Sync(t) PROVE Alone'
  <2>1. UNCHANGED <<running, cur>>
    BY <1>6 DEF Sync, SyncList, SyncFail, SyncInstall, SyncCount, state
  <2>2. loop[cur].pc = "slot" => loop'[cur] = loop[cur]
    BY <1>6 DEF Sync, SyncList, SyncFail, SyncInstall, SyncCount, Types, Workers, State
  <2>3. CASE UNCHANGED req
    BY <1>1, <2>1, <2>2, <2>3
  <2>4. CASE t \in Reqs /\ (Go(t, "bind") \/ Done(t))
    <3>1. \E p \in {"bind", "idle"} : Stands(t, p)
      BY <2>4, Goes, Ends DEF Positions, Starting
    <3>2. ~running
      BY <1>6, <2>4 DEF Alone, Types, Serving, Sync, SyncList, SyncFail, SyncInstall, SyncCount, Starting, Stopping
    <3> QED
      BY <2>1, <2>2, <3>1, <3>2 DEF Alone, Stands
  <2> QED
    BY <1>6, <2>3, <2>4 DEF Sync, SyncList, SyncFail, SyncInstall, SyncCount
<1>7. ASSUME NEW g \in Gens, ListenerExit(g) PROVE Alone'
  <2>1. \A x \in Reqs : req'[x].pc = req[x].pc
    BY <1>7 DEF ListenerExit, Types, Serving, Requests
  <2> QED
    BY <1>1, <1>7, <2>1 DEF ListenerExit, state
<1>8. CASE (\E c \in Conns : Serve(c)) \/ Reconcile \/ UNCHANGED vars
  BY <1>1, <1>8 DEF Serve, Accept, Authenticate, Request, Connected, HangUp, Cancelled, Reconcile, state, vars
<1>9. CASE Restart
  BY <1>9 DEF Restart, Alone, Idle, Starting, Stopping
<1> QED
  BY <1>2, <1>3, <1>4, <1>5, <1>6, <1>7, <1>8, <1>9 DEF Next

LEMMA InitKept == Init => Kept
<1> SUFFICES ASSUME Init PROVE Kept
  OBVIOUS
<1>1. \A r \in Reqs : req[r].pc = "idle"
  BY DEF Init, Idle
<1>2. Holders = {}
  BY DEF Init, Holders, NoSync
<1>3. running => auth = creds
  <2>1. creds \in Rows /\ cur \in Chans /\ running \in BOOLEAN
    BY InitTypes DEF Types, Table, State
  <2>2. PICK g \in Gens : auth = Booted(cur, g, running).auth
    BY DEF Init
  <2>3. Sound(Booted(cur, g, running), running)
    BY <2>1, Boots
  <2> QED
    BY <2>1, <2>2, <2>3 DEF Sound
<1>4. Alone /\ Listed /\ Applied
  BY <1>1, <1>2, <1>3 DEF Alone, Listed, Applied, Serves, Starting, Stopping
<1>5. Aging
  BY Kinds DEF Init, Aging
<1> QED
  BY <1>4, <1>5 DEF Kept

LEMMA StepKept == OneStarter /\ Types /\ Kept /\ [Next]_vars => Kept'
  BY AloneStep, AgingStep, AppliedStep DEF Kept

(* With one starter, and whatever is dropped, fails, is overtaken or comes *)
(* between two awaits: once nothing is on its way to the map, a driver     *)
(* that runs authenticates by the table, or its last refresh failed or was *)
(* out of date.                                                            *)
THEOREM SettledIsApplied ==
  ASSUME OneStarter
  PROVE  Spec => []SettledMeansApplied
<1>1. Kept => SettledMeansApplied
  BY Kinds DEF Kept, Applied, Serves, Pending, Current, Holders, SettledMeansApplied, Settled, Quiet
<1> QED
  BY <1>1, InitTypes, StepTypes, InitKept, StepKept, PTL DEF Spec

----------------------------------------------------------------------------
(* The listeners.                                                          *)

LEMMA BareIsEven == Bare => Even
BY ProxyAssumption DEF Bare, Even, Matched

(* The step of a starter: there is no other.                               *)
LEMMA Alone1 ==
  ASSUME OneStarter, Types, NEW r \in Starters
  PROVE  \A x \in Reqs : x # r => req[x].pc \notin Starting \union Stopping
BY DEF OneStarter, Types, Serving

LEMMA Unbound ==
  ASSUME Bound, UNCHANGED <<running, slot>>, \A g \in Gens : lst'[g] = "up" <=> lst[g] = "up",
         \A x \in Reqs : req'[x].pc = req[x].pc /\ (req[x].pc = "store" => req'[x].gen = req[x].gen)
  PROVE  Bound'
<1>1. (Even => Even') /\ (Bare => Bare') /\ (Matched => Matched')
  BY DEF Even, Bare, Matched
<1> QED
  BY <1>1 DEF Bound

LEMMA StartBound ==
  ASSUME OneStarter, Types, Bound, NEW r \in Reqs, Start(r) \/ StopCheck(r)
  PROVE  Bound'
<1>1. r \in Starters
  BY DEF Start, StopCheck, StartCheck, StartBind, StoreListeners, StartLoop, StoreHandle, StartMark,
         Types, Serving, Starting
<1>2. \A x \in Reqs : x # r => req[x].pc \notin Starting \union Stopping
  BY <1>1, Alone1
<1>3. \A x \in Reqs : x # r => req'[x] = req[x]
  BY Moves DEF Start, Stands
<1>4. ASSUME req[r].pc = "idle" PROVE Even
  BY <1>2, <1>4 DEF Bound, Starting, Stopping
<1>5. CASE StartCheck(r)
  <2>1. req'[r].pc = "sync" /\ UNCHANGED <<running, slot, lst>> /\ ~running
    BY <1>5, Moves DEF StartCheck, Stands, state
  <2>2. Bare'
    BY <1>4, <1>5, <2>1, ProxyAssumption DEF StartCheck, Accepts, Even, Matched, Bare
  <2> QED
    BY <1>2, <1>3, <2>1, <2>2 DEF Bound, Starting, Stopping
<1>6. CASE StartBind(r)
  <2>1. Bare /\ UNCHANGED <<running, slot>>
    BY <1>6 DEF StartBind, Bound, state
  <2>2. ASSUME NEW g \in Gens, ~Ports(Gens), lst' = [lst EXCEPT ![g] = "up"],
               req' = [req EXCEPT ![r].pc = "store", ![r].gen = g]
        PROVE  Bound'
    <3>1. req'[r].pc = "store" /\ req'[r].gen = g /\ g # None
      BY <2>2, ProxyAssumption DEF Types, Serving, Requests
    <3>2. \A h \in Gens : g = h <=> lst'[h] = "up"
      BY <2>2 DEF Ports, Types, State
    <3> QED
      BY <1>2, <1>3, <2>1, <3>1, <3>2 DEF Bound, Bare, Starting, Stopping
  <2>3. CASE Go(r, "take") /\ UNCHANGED lst
    <3>1. req'[r].pc = "take"
      BY <2>3, Goes DEF Stands, Positions, Stopping
    <3>2. Matched'
      BY <2>1, <2>3, BareIsEven DEF Even, Matched
    <3> QED
      BY <1>2, <1>3, <3>1, <3>2 DEF Bound, Starting, Stopping
  <2> QED
    BY <1>6, <2>2, <2>3 DEF StartBind
<1>7. CASE StoreListeners(r)
  <2>1. req'[r].pc = "loop" /\ slot' = req[r].gen /\ UNCHANGED <<running, lst>> /\ req[r].pc = "store"
    BY <1>7, Moves DEF StoreListeners, Stands
  <2>2. ~running' /\ slot' # None /\ Matched'
    BY <2>1 DEF Bound, Matched
  <2> QED
    BY <1>2, <1>3, <2>1, <2>2 DEF Bound, Starting, Stopping
<1>8. CASE StartLoop(r) \/ StoreHandle(r)
  <2>1. req'[r].pc \in {"handle", "take", "mark"} /\ req[r].pc \in {"loop", "handle"}
        /\ UNCHANGED <<running, slot, lst>>
    BY <1>8, Moves DEF StartLoop, StoreHandle, Stands, state
  <2>2. ~running' /\ slot' # None /\ Matched'
    BY <2>1 DEF Bound, Matched
  <2> QED
    BY <1>2, <1>3, <2>1, <2>2 DEF Bound, Starting, Stopping
<1>9. CASE StartMark(r)
  <2>1. req'[r].pc = "notify" /\ req[r].pc = "mark" /\ running' = TRUE /\ UNCHANGED <<slot, lst>>
    BY <1>9, Moves DEF StartMark, Stands
  <2>2. Even'
    BY <2>1 DEF Bound, Even, Matched
  <2> QED
    BY <1>2, <1>3, <2>1, <2>2 DEF Bound, Starting, Stopping
<1>10. CASE StopCheck(r)
  <2>1. req'[r].pc = "take" /\ req[r].pc = "idle" /\ UNCHANGED <<running, slot, lst>>
    BY <1>10, Moves DEF StopCheck, Accepts, Stands, state
  <2>2. Matched'
    BY <1>4, <2>1 DEF Even, Matched
  <2> QED
    BY <1>2, <1>3, <2>1, <2>2 DEF Bound, Starting, Stopping
<1> QED
  BY <1>5, <1>6, <1>7, <1>8, <1>9, <1>10 DEF Start

LEMMA DownBound ==
  ASSUME OneStarter, Types, Bound, NEW r \in Reqs, Down(r)
  PROVE  Bound'
<1>1. \A x \in Reqs : x # r => req[x].pc \notin Starting \union Stopping
  BY Lonely DEF Down, Take, Abort, Fresh, Clear, Stopping
<1>2. req'[r].pc \in {"join", "reap", "clear", "idle"} /\ \A x \in Reqs : x # r => req'[x] = req[x]
  BY Moves DEF Down, Stands
<1>3. Bare'
  <2>1. CASE Take(r)
    <3>1. running' = FALSE /\ slot' = None /\ Matched
      BY <2>1 DEF Take, Bound
    <3>2. \A g \in Gens : lst'[g] # "up"
      BY <2>1, <3>1, ProxyAssumption DEF Take, Matched, Types, State
    <3> QED
      BY <3>1, <3>2 DEF Bare
  <2>2. CASE ~Take(r)
    <3>1. Bare /\ UNCHANGED <<running, slot, lst>>
      BY <2>2 DEF Down, Abort, Fresh, Clear, Bound, state
    <3> QED
      BY <3>1 DEF Bare
  <2> QED
    BY <2>1, <2>2
<1>4. Even'
  BY <1>3, ProxyAssumption DEF Bare, Even, Matched
<1> QED
  BY <1>1, <1>2, <1>3, <1>4 DEF Bound, Starting, Stopping

LEMMA BoundStep == OneStarter /\ Uncontended /\ Types /\ Bound /\ [Next]_vars => Bound'
<1> SUFFICES ASSUME OneStarter, Uncontended, Types, Bound, [Next]_vars PROVE Bound'
  OBVIOUS
<1>1. ASSUME NEW r \in Reqs, Write(r) \/ SendTick(r) \/ WakeReconciler(r) PROVE Bound'
  <2>1. \E p \in {"tick", "notify", "idle"} : Stands(r, p)
    BY <1>1, WriteTypes, Goes, Ends DEF SendTick, WakeReconciler, Positions
  <2>2. UNCHANGED <<running, slot, lst>> /\ req[r].pc \in {"idle", "tick", "notify"}
    BY <1>1 DEF Write, Enable, Disable, Rotate, DeleteUser, SendTick, WakeReconciler, Accepts, state
  <2>3. (Even => Even') /\ (Bare => Bare') /\ (Matched => Matched')
    BY <2>2 DEF Even, Bare, Matched
  <2> QED
    BY <2>1, <2>2, <2>3 DEF Bound, Stands, Starting, Stopping
<1>2. ASSUME NEW r \in Reqs, req[r].pc \in {"sync", "join", "reap"}, UNCHANGED <<running, slot, lst>>,
             NEW p \in {"idle", "bind"}, Stands(r, p)
      PROVE  Bound'
  <2>1. \A x \in Reqs : x # r => req[x].pc \notin Starting \union Stopping
    BY <1>2, Lonely DEF Starting, Stopping
  <2>2. Bare' /\ Even'
    BY <1>2, BareIsEven DEF Bound, Bare, Even, Matched
  <2> QED
    BY <1>2, <2>1, <2>2 DEF Bound, Stands, Starting, Stopping
<1>3. ASSUME NEW r \in Reqs, GiveUp(r) PROVE Bound'
  <2>1. Stands(r, "idle") /\ UNCHANGED <<running, slot, lst>>
    BY <1>3, Ends DEF GiveUp, state
  <2>2. req[r].pc \in {"tick", "sync", "join", "reap"}
    BY <1>3 DEF GiveUp, Uncontended, Types, Table
  <2>3. CASE req[r].pc = "tick"
    <3>1. (Even => Even') /\ (Bare => Bare') /\ (Matched => Matched')
      BY <2>1 DEF Even, Bare, Matched
    <3> QED
      BY <2>1, <2>3, <3>1 DEF Bound, Stands, Starting, Stopping
  <2> QED
    BY <1>2, <2>1, <2>2, <2>3
<1>4. ASSUME NEW t \in Tasks, Sync(t) PROVE Bound'
  <2>1. UNCHANGED <<running, slot, lst>>
    BY <1>4 DEF Sync, SyncList, SyncFail, SyncInstall, SyncCount, state
  <2>2. CASE UNCHANGED req
    BY <2>1, <2>2, Unbound
  <2>3. CASE t \in Reqs /\ (Go(t, "bind") \/ Done(t))
    <3>1. \E p \in {"bind", "idle"} : Stands(t, p)
      BY <2>3, Goes, Ends DEF Positions, Starting
    <3>2. req[t].pc = "sync"
      BY <1>4, <2>3 DEF Types, Serving, Sync, SyncList, SyncFail, SyncInstall, SyncCount
    <3> QED
      BY <1>2, <2>1, <2>3, <3>1, <3>2
  <2> QED
    BY <1>4, <2>2, <2>3 DEF Sync, SyncList, SyncFail, SyncInstall, SyncCount
<1>5. ASSUME NEW g \in Gens, ListenerExit(g) PROVE Bound'
  <2>1. UNCHANGED <<running, slot>> /\ \A h \in Gens : lst'[h] = "up" <=> lst[h] = "up"
    BY <1>5 DEF ListenerExit, Types, State, state
  <2>2. \A x \in Reqs : req'[x].pc = req[x].pc /\ (req[x].pc = "store" => req'[x].gen = req[x].gen)
    BY <1>5 DEF ListenerExit, Types, Serving, Requests
  <2> QED
    BY <2>1, <2>2, Unbound
<1>6. CASE \/ \E c \in Chans : Loop(c) \/ Absorb(c)
           \/ \E c \in Conns : Serve(c)
           \/ Reconcile \/ UNCHANGED vars
  <2>1. UNCHANGED <<running, slot, lst, req>>
    BY <1>6 DEF Loop, Absorb, Recv, Elapse, Close, Die, Serve, Accept, Authenticate, Request, Connected, HangUp,
                Cancelled, Reconcile, state, vars
  <2> QED
    BY <2>1, Unbound
<1>7. CASE Restart
  <2>1. creds \in Rows /\ cur' \in Chans /\ running' \in BOOLEAN
    BY <1>7, Nones DEF Restart, Types, Table
  <2>2. PICK g \in Gens : slot' = Booted(cur', g, running').slot /\ lst' = Booted(cur', g, running').lst
    BY <1>7 DEF Restart
  <2>3. Even'
    <3>1. Sound(Booted(cur', g, running'), running')
      BY <2>1, Boots
    <3> QED
      BY <2>1, <2>2, <3>1 DEF Even, Matched, Sound
  <2> QED
    BY <1>7, <2>3 DEF Restart, Bound, Idle, Starting, Stopping
<1> QED
  BY <1>1, <1>3, <1>4, <1>5, <1>6, <1>7, StartBound, DownBound DEF Next

LEMMA InitBound == Init => Bound
<1> SUFFICES ASSUME Init PROVE Bound
  OBVIOUS
<1>1. creds \in Rows /\ cur \in Chans /\ running \in BOOLEAN
  BY InitTypes DEF Types, Table, State
<1>2. PICK g \in Gens : slot = Booted(cur, g, running).slot /\ lst = Booted(cur, g, running).lst
  BY DEF Init
<1>3. Even
  <2>1. Sound(Booted(cur, g, running), running)
    BY <1>1, Boots
  <2> QED
    BY <1>1, <1>2, <2>1 DEF Even, Matched, Sound
<1> QED
  BY <1>3 DEF Init, Bound, Idle, Starting, Stopping

(* With one starter that is not dropped at a lock, whatever fails, is      *)
(* dropped at another wait or is restarted: once nothing is under way, the *)
(* driver is marked as running exactly when it has its listeners, and no   *)
(* other generation holds the ports.                                       *)
THEOREM RunningListens ==
  ASSUME OneStarter, Uncontended
  PROVE  Spec => []RunningMeansListening
<1>1. Types /\ Bound => RunningMeansListening
  BY DEF Bound, Even, Matched, RunningMeansListening, Settled, Quiet, Starting, Stopping
<1> QED
  BY <1>1, InitTypes, StepTypes, InitBound, BoundStep, PTL DEF Spec

(* Under the same conditions the last step of a stop, or of the rollback   *)
(* of a start that has failed, leaves what the next start needs.           *)
THEOREM DownIsStartable ==
  ASSUME OneStarter, Uncontended
  PROVE  Spec => DownMeansStartable
<1>1. ASSUME Types, Bound, Alone, NEW r \in Reqs, Clear(r)
      PROVE  ~running /\ slot = None /\ (\A g \in Gens : lst[g] # "up") /\ loop[cur].pc = "slot"
  BY <1>1 DEF Clear, Bound, Bare, Alone
<1>2. Types /\ Bound /\ Alone =>
        [\A r \in Reqs : Clear(r) => /\ ~running /\ slot = None
                                     /\ \A g \in Gens : lst[g] # "up"
                                     /\ loop[cur].pc = "slot"]_vars
  BY <1>1
<1>3. Init => Alone
  BY InitKept DEF Kept
<1> QED
  BY <1>2, <1>3, InitTypes, StepTypes, InitBound, BoundStep, AloneStep, PTL DEF Spec, DownMeansStartable
=============================================================================
