--------------------------- MODULE SsDriverProofs ---------------------------
(* TLAPS proofs about SsDriver, for every set of users, ports, requests    *)
(* and channels.                                                           *)
EXTENDS SsDriver, FiniteSetTheorems, TLAPS

(* At most one request starts and stops the driver, unless requests may be *)
(* dropped half-way, which Kept excludes.  Two that overlap leave two      *)
(* loops, or one that runs while the driver is down.                       *)
OneStarter ==
  \A s \in Scopes : "giveup" \notin s.kinds => \A q, r \in Starters \intersect s.reqs : q = r

(* No aborted swap finds the state locked: its server would outlive it.    *)
Uncontended == \A s \in Scopes : "giveup" \notin s.kinds => "contention" \notin s.kinds

Psks  == [Users -> (0 .. MaxPsk) \union {None}]
Loops == [pc : {"slot", "recv", "debounce", "list", "take", "wait", "store", "dead"},
          pending : BOOLEAN, aborted : BOOLEAN, failed : BOOLEAN, users : Psks \union {None},
          prev : BOOLEAN, next : Server \union {None}]
Positions == {"idle", "check", "reread", "tick", "patch", "listen", "notify", "mark", "loop",
              "handle", "stop", "join", "reap"}
Handlers  == [pc : Positions, user : Users \union {None}, old : Ports \union {None},
              port : Ports \union {None}, srv : BOOLEAN, chan : Chans \union {None}]

(* TypeOK, with the types of the fields and when they have a value.        *)
RowTypes ==
  /\ users \subseteq Users /\ creds \in Psks
  /\ \A u \in Users : creds[u] # None => u \in users
  /\ conf \in Ports /\ fresh \in 0 .. MaxPsk /\ scope \in Scopes
StateTypes ==
  /\ listen \in Ports /\ running \in BOOLEAN /\ permit \in BOOLEAN
  /\ slot \in Server \union {None} /\ orphaned \in BOOLEAN
  /\ cur \in Chans /\ handle \in Chans \union {None}
LoopTypes ==
  /\ loop \in [Chans -> Loops]
  /\ \A c \in Chans : At(c, "take") => loop[c].users \in Psks
ReqTypes ==
  /\ req \in [Reqs -> Handlers]
  /\ \A r \in Reqs : /\ req[r].pc = "reread" <=> req[r].user # None
                     /\ req[r].pc \in {"patch", "listen"} => req[r].port \in Ports
                     /\ req[r].pc # "idle" => r \in scope.reqs
                     /\ req[r].pc \in {"mark", "loop", "handle", "stop", "join", "reap"} => r \in Starters
Starting == {"mark", "loop", "handle", "stop", "join", "reap"}

Types == RowTypes /\ StateTypes /\ LoopTypes /\ ReqTypes

(* The driver's loop consumes the current channel and stop can reach it ... *)
Works    == loop[cur].pc \notin {"slot", "dead"} /\ ~loop[cur].aborted
Attached == handle = cur /\ running /\ Works
(* ... or there is none, and a receiver waits for the next start.          *)
Detached == handle = None /\ At(cur, "slot") /\ ~loop[cur].aborted

(* The handlers that take the loop from one to the other.                  *)
Order ==
  /\ \A c \in Chans : c # cur => At(c, "dead")
  /\ (\A r \in Reqs : req[r].pc \notin {"handle", "join", "reap"}) => Attached \/ Detached
  /\ \A r \in Reqs :
       /\ req[r].pc = "mark"   => Detached
       /\ req[r].pc = "loop"   => Detached /\ running
       /\ req[r].pc = "handle" => req[r].chan = cur /\ handle = None /\ running /\ Works
       /\ req[r].pc = "join"   => \/ req[r].chan = None /\ Detached
                                  \/ req[r].chan = cur /\ handle = None /\ Works
       /\ req[r].pc = "reap"   => \/ req[r].chan = None /\ Detached
                                  \/ /\ req[r].chan = cur /\ handle = None /\ ~At(cur, "slot")
                                     /\ At(cur, "dead") \/ loop[cur].aborted

(* A swap has nothing in the state from its take to its store; a request   *)
(* has a server in its hands only while it waits for its end.              *)
Servers ==
  /\ \A c \in Chans : loop[c].prev => At(c, "wait")
  /\ loop[cur].pc \in {"wait", "store"} => slot = None
  /\ slot # None => running
  /\ \A r \in Reqs : req[r].srv => req[r].pc = "join"
  /\ orphaned => "contention" \in scope.kinds

(* A change that the loop has not read is on its way to it ...             *)
Covers(r) == \/ req[r].pc \in {"check", "tick", "notify", "loop", "handle"}
             \/ req[r].pc = "reread" /\ creds[req[r].user] # None
Covered == permit \/ loop[cur].pending \/ \E r \in Reqs : Covers(r)

(* ... and otherwise what the loop carries is what the database says.      *)
Now  == [users |-> creds, port |-> listen]
Seen ==
  /\ At(cur, "recv") => loop[cur].failed \/ slot = Now
  /\ At(cur, "take") => loop[cur].users = creds
  /\ At(cur, "wait") \/ At(cur, "store") => loop[cur].next = Now

Applied == (\A r \in Reqs : req[r].pc \notin {"join", "reap"}) /\ Works => Covered \/ Seen

Regular == Order /\ Servers /\ Applied

IInv == Types /\ (Kept => Regular)

LEMMA Channels ==
  /\ First \in Chans
  /\ (\E c \in Chans : IsFree(c)) => Free \in Chans /\ IsFree(Free)
BY SsAssumption DEF First, Free

LEMMA Nones ==
  /\ None \notin Users /\ None \notin Ports /\ None \notin Chans
  /\ NoLoop \in Loops /\ Idle \in Handlers
  /\ [NoLoop EXCEPT !.pc = "recv", !.pending = TRUE] \in Loops
  /\ [NoLoop EXCEPT !.pc = "slot"] \in Loops
BY SsAssumption DEF NoLoop, Idle, Loops, Handlers, Positions

LEMMA InitTypes == Init => Types
<1> SUFFICES ASSUME Init PROVE Types
  OBVIOUS
<1> USE SsAssumption DEF Init
<1>1. RowTypes
  BY DEF RowTypes, Psks
<1>2. StateTypes
  BY Channels DEF StateTypes
<1>3. LoopTypes
  BY Nones DEF LoopTypes, Spawned, NoLoop, At
<1>4. ReqTypes
  BY Nones DEF ReqTypes, Idle
<1> QED
  BY <1>1, <1>2, <1>3, <1>4 DEF Types

(* The handler of one request moves.                                       *)
LEMMA Moved ==
  ASSUME ReqTypes, UNCHANGED scope, NEW r \in Reqs, NEW h \in Handlers, req' = [req EXCEPT ![r] = h],
         h.pc = "reread" <=> h.user # None,
         h.pc \in {"patch", "listen"} => h.port \in Ports,
         h.pc # "idle" => r \in scope.reqs,
         h.pc \in {"mark", "loop", "handle", "stop", "join", "reap"} => r \in Starters
  PROVE  ReqTypes'
BY DEF ReqTypes

(* A loop, or what waits in its channel, moves.                            *)
LEMMA LoopMoved ==
  ASSUME LoopTypes, NEW c \in Chans, NEW l \in Loops, loop' = [loop EXCEPT ![c] = l],
         l.pc = "take" => l.users \in Psks
  PROVE  LoopTypes'
BY DEF LoopTypes, At

LEMMA FlagTypes ==
  ASSUME LoopTypes, NEW c \in Chans,
         \/ loop' = [loop EXCEPT ![c].pending = TRUE]
         \/ loop' = [loop EXCEPT ![c].pending = FALSE]
         \/ loop' = [loop EXCEPT ![c].aborted = TRUE]
  PROVE  LoopTypes'
<1>1. loop[c] \in Loops
  BY DEF LoopTypes
<1>2. PICK l \in Loops : loop' = [loop EXCEPT ![c] = l] /\ l.pc = loop[c].pc /\ l.users = loop[c].users
  <2>1. ASSUME NEW l, l \in {[loop[c] EXCEPT !.pending = TRUE], [loop[c] EXCEPT !.pending = FALSE],
                             [loop[c] EXCEPT !.aborted = TRUE]}
        PROVE  l \in Loops /\ l.pc = loop[c].pc /\ l.users = loop[c].users
    BY <1>1, <2>1 DEF Loops
  <2>2. \E l \in {[loop[c] EXCEPT !.pending = TRUE], [loop[c] EXCEPT !.pending = FALSE],
                  [loop[c] EXCEPT !.aborted = TRUE]} : loop' = [loop EXCEPT ![c] = l]
    BY DEF LoopTypes
  <2> QED
    BY <2>1, <2>2
<1> QED
  BY <1>2, LoopMoved DEF LoopTypes, At

LEMMA PcTypes ==
  ASSUME LoopTypes, NEW c \in Chans, NEW p \in {"recv", "debounce", "list", "wait", "store"},
         loop' = [loop EXCEPT ![c].pc = p]
  PROVE  LoopTypes'
<1> DEFINE l == [loop[c] EXCEPT !.pc = p]
<1>1. loop[c] \in Loops
  BY DEF LoopTypes
<1>2. l \in Loops /\ l.pc # "take"
  BY <1>1 DEF Loops
<1>3. loop' = [loop EXCEPT ![c] = l]
  BY DEF LoopTypes
<1> QED
  BY <1>2, <1>3, LoopMoved

LEMMA WriteTypes ==
  ASSUME Types, UNCHANGED scope, NEW r \in Reqs, Write(r)
  PROVE  Types'
<1> USE DEF Types
<1>1. RowTypes'
  <2> USE DEF RowTypes, Psks
  <2>1. CASE \E u \in Users : Enable(r, u) \/ Rotate(r, u)
    <3>1. PICK u \in Users : Enable(r, u) \/ Rotate(r, u)
      BY <2>1
    <3>2. SetPsk(u) /\ u \in users /\ UNCHANGED <<users, conf>>
      BY <3>1 DEF Enable, Rotate, UpsertPsk, UpdatePsk
    <3>3. fresh' \in 0 .. MaxPsk /\ creds' = [creds EXCEPT ![u] = fresh']
      BY <3>2, SsAssumption DEF SetPsk
    <3> QED
      BY <3>2, <3>3
  <2>2. CASE \E u \in Users : Disable(r, u) \/ DeleteUser(r, u)
    BY <2>2 DEF Disable, DeleteUser, DropPsk
  <2>3. CASE (\E p \in scope.ports : PatchRead(r, p)) \/ PatchCommit(r) \/ Reload(r) \/ SetListen(r)
    BY <2>3 DEF PatchRead, PatchCommit, Reload, SetListen, row, ReqTypes
  <2> QED
    BY <2>1, <2>2, <2>3 DEF Write
<1>2. StateTypes'
  BY DEF StateTypes, ReqTypes, Write, Enable, Disable, Rotate, DeleteUser, PatchRead, PatchCommit, Reload,
     SetListen, state
<1>3. LoopTypes'
  BY DEF LoopTypes, At, Write, Enable, Disable, Rotate, DeleteUser, PatchRead, PatchCommit, Reload, SetListen
<1>4. ReqTypes'
  <2> DEFINE h == req[r]
  <2>1. h \in Handlers /\ conf \in Ports /\ scope.ports \subseteq Ports /\ (h.pc = "idle" => h.user = None)
    BY SsAssumption DEF ReqTypes, RowTypes
  <2>2. CASE \E u \in Users : Enable(r, u) \/ Disable(r, u) \/ DeleteUser(r, u)
    BY <2>1, <2>2, Moved DEF Enable, Disable, DeleteUser, Accepts, Go, ReqTypes, Handlers, Positions
  <2>3. CASE \E u \in Users : Rotate(r, u)
    BY <2>1, <2>3, Nones DEF Rotate, Accepts, ReqTypes, Handlers, Positions
  <2>4. CASE (\E p \in scope.ports : PatchRead(r, p)) \/ PatchCommit(r)
    BY <2>1, <2>4, Nones DEF PatchRead, PatchCommit, Accepts, ReqTypes, Handlers, Positions
  <2>5. CASE Reload(r) \/ SetListen(r)
    BY <2>1, <2>5, Nones DEF Reload, SetListen, Accepts, ReqTypes, Handlers, Positions
  <2> QED
    BY <2>2, <2>3, <2>4, <2>5 DEF Write
<1> QED
  BY <1>1, <1>2, <1>3, <1>4

(* The handlers that write no row.                                         *)
Handle(r) ==
  Reread(r) \/ CheckRunning(r) \/ SendTick(r) \/ WakeReconciler(r) \/ Start(r) \/ Stop(r) \/ GiveUp(r)

LEMMA HandleTypes ==
  ASSUME Types, UNCHANGED scope, NEW r \in Reqs, Handle(r)
  PROVE  Types'
<1> USE DEF Types
<1>1. RowTypes'
  BY DEF RowTypes, Handle, Reread, CheckRunning, SendTick, WakeReconciler, GiveUp, Start, Stop, row,
     StartCheck, StartMark, StartLoop, StoreHandle, StopCheck, StopTake, StopAbort, StopFresh
<1>2. StateTypes'
  <2>1. CASE StopFresh(r)
    BY <2>1, Channels DEF StopFresh, StateTypes
  <2>2. CASE ~StopFresh(r)
    BY <2>2, Nones DEF StateTypes, ReqTypes, Handlers, Handle, Reread, CheckRunning, SendTick, WakeReconciler,
       GiveUp, Start, Stop, state, StartCheck, StartMark, StartLoop, StoreHandle, StopCheck, StopTake, StopAbort
  <2> QED
    BY <2>1, <2>2
<1>3. LoopTypes'
  <2>1. cur \in Chans
    BY DEF StateTypes
  <2>2. CASE StopFresh(r)
    <3>1. Free \in Chans
      BY <2>2, Channels DEF StopFresh
    <3>2. loop' \in [Chans -> Loops]
      BY <2>1, <2>2, <3>1, Nones DEF StopFresh, LoopTypes
    <3>3. \A c \in Chans : loop'[c] = loop[c] \/ loop'[c] = NoLoop \/ loop'[c] = [NoLoop EXCEPT !.pc = "slot"]
      BY <2>1, <2>2, <3>1 DEF StopFresh, LoopTypes
    <3> QED
      BY <3>2, <3>3 DEF LoopTypes, At, NoLoop
  <2>3. CASE StopAbort(r)
    <3> DEFINE c == req[r].chan
    <3>1. CASE c # None /\ loop[c].pc # "dead"
      <4>1. c \in Chans
        BY <3>1 DEF ReqTypes, Handlers
      <4> QED
        BY <2>3, <3>1, <4>1, FlagTypes DEF StopAbort
    <3>2. CASE ~(c # None /\ loop[c].pc # "dead")
      BY <2>3, <3>2 DEF StopAbort, LoopTypes, At
    <3> QED
      BY <3>1, <3>2
  <2>4. CASE SendTick(r) \/ StartLoop(r)
    <3>1. CASE UNCHANGED loop
      BY <3>1 DEF LoopTypes, At
    <3>2. CASE Tick
      BY <2>1, <3>2, FlagTypes DEF Tick
    <3>3. CASE loop' = [loop EXCEPT ![cur].pc = "recv"]
      BY <2>1, <3>3, PcTypes
    <3> QED
      BY <2>4, <3>1, <3>2, <3>3 DEF SendTick, StartLoop
  <2>5. CASE UNCHANGED loop
    BY <2>5 DEF LoopTypes, At
  <2> QED
    BY <2>2, <2>3, <2>4, <2>5 DEF Handle, Reread, CheckRunning, WakeReconciler,
       GiveUp, Start, Stop, StartCheck, StartMark, StoreHandle, StopCheck, StopTake
<1>4. ReqTypes'
  <2> DEFINE h == req[r]
  <2>1. h \in Handlers /\ cur \in Chans /\ handle \in Chans \union {None}
    BY DEF ReqTypes, StateTypes
  <2>2. CASE Reread(r) \/ WakeReconciler(r) \/ GiveUp(r) \/ StopFresh(r)
    <3>1. \/ req' = [req EXCEPT ![r] = Idle]
          \/ req' = [req EXCEPT ![r].pc = "tick", ![r].user = None] /\ req[r].pc = "reread"
      BY <2>2 DEF Reread, WakeReconciler, GiveUp, StopFresh, Done
    <3>2. CASE req' = [req EXCEPT ![r] = Idle]
      BY <3>2, Nones, Moved DEF Idle
    <3>3. CASE req' = [req EXCEPT ![r].pc = "tick", ![r].user = None] /\ req[r].pc = "reread"
      BY <2>1, <3>3, Nones DEF ReqTypes, Handlers, Positions
    <3> QED
      BY <3>1, <3>2, <3>3
  <2>3. CASE CheckRunning(r) \/ SendTick(r)
    <3>1. CASE req' = [req EXCEPT ![r] = Idle]
      BY <3>1, Nones, Moved DEF Idle
    <3>2. CASE req[r].pc \in {"check", "tick"} /\ \E p \in {"tick", "notify"} : req' = [req EXCEPT ![r].pc = p]
      BY <2>1, <3>2, Nones DEF ReqTypes, Handlers, Positions
    <3> QED
      BY <2>3, <3>1, <3>2 DEF CheckRunning, SendTick, Done, Go
  <2>4. CASE Start(r)
    <3>1. CASE req' = [req EXCEPT ![r] = Idle]
      BY <3>1, Nones, Moved DEF Idle
    <3>2. CASE StartCheck(r) \/ StartMark(r)
      BY <2>1, <3>2, Nones DEF StartCheck, StartMark, Go, Accepts, ReqTypes, Handlers, Positions
    <3>3. CASE StartLoop(r) /\ req' = [req EXCEPT ![r].pc = "handle", ![r].chan = cur]
      BY <2>1, <3>3, Nones DEF StartLoop, ReqTypes, Handlers, Positions
    <3>4. CASE StoreHandle(r)
      BY <2>1, <3>4, Nones DEF StoreHandle, ReqTypes, Handlers, Positions
    <3> QED
      BY <2>4, <3>1, <3>2, <3>3, <3>4 DEF Start, StartLoop, Done
  <2>5. CASE StopCheck(r) \/ StopTake(r) \/ StopAbort(r)
    BY <2>1, <2>5, Nones DEF StopCheck, StopTake, StopAbort, Go, Accepts, ReqTypes, Handlers, Positions
  <2> QED
    BY <2>2, <2>3, <2>4, <2>5 DEF Handle, Stop
<1> QED
  BY <1>1, <1>2, <1>3, <1>4

Background(c) == Loop(c) \/ Absorb(c) \/ ListFails(c)

LEMMA BackgroundTypes ==
  ASSUME Types, UNCHANGED scope, NEW c \in Chans, Background(c)
  PROVE  Types'
<1> USE DEF Types
<1>1. RowTypes'
  BY DEF RowTypes, row, Background, Loop, Absorb, ListFails, Recv, Elapse, Close, List, Swap, TakeServer,
         Spawn, Store, Die
<1>2. ReqTypes'
  BY DEF ReqTypes, Background, Loop, Absorb, ListFails, Recv, Elapse, Close, List, Swap, TakeServer,
         Spawn, Store, Die
<1>3. loop[c] \in Loops
  BY DEF LoopTypes
<1>4. StateTypes'
  <2>1. loop[c].next \in Server \union {None}
    BY <1>3 DEF Loops
  <2> QED
    BY <2>1 DEF StateTypes, state, Background, Loop, Absorb, ListFails, Recv, Elapse, Close, List, Swap,
       TakeServer, Spawn, Store, Die
<1>5. LoopTypes'
  <2>1. CASE Close(c) \/ Die(c)
    BY <2>1, Nones, LoopMoved DEF Close, Die, NoLoop
  <2>2. CASE List(c) \/ ListFails(c)
    BY <1>3, <2>2 DEF List, ListFails, ListUsers, RowTypes, LoopTypes, Loops, At
  <2>3. CASE Recv(c) \/ Absorb(c) \/ Elapse(c)
    <3>1. CASE Recv(c)
      <4> DEFINE l == [loop[c] EXCEPT !.pc = "debounce", !.pending = FALSE]
      <4>1. l \in Loops /\ l.pc # "take"
        BY <1>3 DEF Loops
      <4>2. loop' = [loop EXCEPT ![c] = l]
        BY <3>1 DEF Recv, LoopTypes
      <4> QED
        BY <4>1, <4>2, LoopMoved
    <3>2. CASE Absorb(c)
      BY <3>2, FlagTypes DEF Absorb
    <3>3. CASE Elapse(c)
      BY <3>3, PcTypes DEF Elapse
    <3> QED
      BY <2>3, <3>1, <3>2, <3>3
  <2>4. CASE TakeServer(c)
    <3>1. [users |-> loop[c].users, port |-> listen] \in Server
      BY <2>4 DEF TakeServer, LoopTypes, StateTypes, Server, Psks, At
    <3> QED
      BY <1>3, <2>4, <3>1 DEF TakeServer, LoopTypes, Loops, At
  <2>5. CASE Spawn(c) \/ Store(c)
    BY <1>3, <2>5 DEF Spawn, Store, LoopTypes, Loops, At
  <2> QED
    BY <2>1, <2>2, <2>3, <2>4, <2>5 DEF Background, Loop, Swap
<1> QED
  BY <1>1, <1>2, <1>4, <1>5

LEMMA ProcessTypes ==
  ASSUME Types, UNCHANGED scope, Reconcile \/ Restart
  PROVE  Types'
<1> USE DEF Types
<1>1. RowTypes'
  BY DEF RowTypes, row, Reconcile, Restart
<1>2. StateTypes'
  BY Channels DEF StateTypes, RowTypes, state, Reconcile, Restart, Boot
<1>3. LoopTypes'
  <2>1. CASE Restart
    BY <2>1, Nones DEF LoopTypes, Restart, Boot, Spawned, NoLoop, At
  <2>2. CASE Reconcile
    <3>1. CASE UNCHANGED loop
      BY <3>1 DEF LoopTypes, At
    <3>2. CASE Tick
      BY <3>2, FlagTypes DEF Tick, StateTypes
    <3> QED
      BY <2>2, <3>1, <3>2 DEF Reconcile
  <2> QED
    BY <2>1, <2>2
<1>4. ReqTypes'
  <2>1. CASE Restart
    <3>1. req' = [r \in Reqs |-> Idle]
      BY <2>1 DEF Restart, Boot
    <3> QED
      BY <3>1, Nones DEF ReqTypes, Idle
  <2>2. CASE Reconcile
    BY <2>2 DEF ReqTypes, Reconcile
  <2> QED
    BY <2>1, <2>2
<1> QED
  BY <1>1, <1>2, <1>3, <1>4

Step ==
  \/ \E r \in Reqs : Write(r) \/ Handle(r)
  \/ \E c \in Chans : Background(c)
  \/ Reconcile \/ Restart

LEMMA Steps == Next => Step
BY DEF Next, Request, Handle, Background, Step

LEMMA StepTypes == Types /\ [Next /\ UNCHANGED scope]_vars => Types'
<1> SUFFICES ASSUME Types, [Next /\ UNCHANGED scope]_vars PROVE Types'
  OBVIOUS
<1>1. CASE Next /\ UNCHANGED scope
  BY <1>1, Steps, WriteTypes, HandleTypes, BackgroundTypes, ProcessTypes DEF Step
<1>2. CASE UNCHANGED vars
  BY <1>2 DEF vars, row, state, Types, RowTypes, StateTypes, LoopTypes, ReqTypes, At
<1> QED
  BY <1>1, <1>2

(* Every variable keeps its type, and a request remembers a user exactly   *)
(* while it has a credential to read again.                                *)
THEOREM SsTypes == Spec => []TypeOK
<1>1. Types => TypeOK
  BY DEF Types, RowTypes, StateTypes, LoopTypes, ReqTypes, TypeOK, Psks, Loops
<1> QED
  BY <1>1, InitTypes, StepTypes, PTL DEF Spec

----------------------------------------------------------------------------
LEMMA InitRegular == Init => Regular
<1> SUFFICES ASSUME Init PROVE Regular
  OBVIOUS
<1> USE Channels, Nones DEF Init, Spawned, NoLoop, Idle, At, Works
<1>1. Order
  BY DEF Order, Attached
<1>2. Servers
  BY DEF Servers
<1>3. Applied
  BY DEF Applied, Covered
<1> QED
  BY <1>1, <1>2, <1>3 DEF Regular

LEMMA Alone ==
  ASSUME OneStarter, Types, Kept, NEW q \in Reqs, NEW r \in Reqs, req[q].pc \in Starting, req[r].pc \in Starting
  PROVE  q = r
BY SsAssumption DEF OneStarter, Kept, Types, ReqTypes, RowTypes, Starting

(* Requests that neither start nor stop, and ticks.                        *)
LEMMA Aside ==
  ASSUME Types, Types', Order, Servers, UNCHANGED <<scope, running, slot, handle, cur, orphaned>>,
         UNCHANGED loop \/ Tick,
         \A r \in Reqs : \/ req'[r] = req[r]
                         \/ /\ req[r].pc \notin {"handle", "join", "reap"} /\ req'[r].pc \notin Starting
                            /\ req'[r].srv = req[r].srv
  PROVE  Order' /\ Servers'
<1>1. cur \in Chans /\ loop \in [Chans -> Loops] /\ loop' \in [Chans -> Loops]
  BY DEF Types, StateTypes, LoopTypes
<1>2. \A c \in Chans : /\ loop'[c].pc = loop[c].pc /\ loop'[c].aborted = loop[c].aborted
                       /\ loop'[c].prev = loop[c].prev
  BY <1>1 DEF Tick, Loops
<1>3. Order'
  BY <1>1, <1>2 DEF Order, Attached, Detached, Works, At, Starting
<1>4. Servers'
  BY <1>1, <1>2 DEF Servers, At, Starting
<1> QED
  BY <1>3, <1>4

LEMMA WriteRegular ==
  ASSUME Types, Types', Regular, UNCHANGED scope, NEW r \in Reqs, Write(r)
  PROVE  Regular'
<1> USE DEF Regular
<1>1. UNCHANGED <<running, slot, handle, cur, orphaned, loop, permit>>
  BY DEF Write, Enable, Disable, Rotate, DeleteUser, PatchRead, PatchCommit, Reload, SetListen, state
<1>2. req \in [Reqs -> Handlers] /\ req' \in [Reqs -> Handlers]
  BY DEF Types, ReqTypes
<1> DEFINE Moves == /\ \A q \in Reqs : q # r => req'[q] = req[q]
                    /\ req'[r].srv = req[r].srv
                    /\ req[r].pc \in {"idle", "patch", "listen"}
                    /\ req'[r].pc \in {"check", "reread", "patch", "listen", "notify"}
<1>3. Moves
  <2>1. CASE \E u \in Users : Enable(r, u) \/ Disable(r, u) \/ DeleteUser(r, u)
    BY <1>2, <2>1 DEF Enable, Disable, DeleteUser, Go, Accepts, Handlers
  <2>2. CASE \E u \in Users : Rotate(r, u)
    BY <1>2, <2>2 DEF Rotate, Accepts, Handlers
  <2>3. CASE \E p \in scope.ports : PatchRead(r, p)
    BY <1>2, <2>3 DEF PatchRead, Accepts, Handlers
  <2>4. CASE PatchCommit(r)
    BY <1>2, <2>4 DEF PatchCommit, Handlers
  <2>5. CASE Reload(r) \/ SetListen(r)
    BY <1>2, <2>5 DEF Reload, SetListen, Accepts, Handlers
  <2> QED
    BY <2>1, <2>2, <2>3, <2>4, <2>5 DEF Write
<1>4. /\ \A q \in Reqs : q # r => req'[q] = req[q]
      /\ req'[r].srv = req[r].srv
      /\ req[r].pc \in {"idle", "patch", "listen"}
      /\ req'[r].pc \in {"check", "reread", "patch", "listen", "notify"}
  BY <1>3
<1> HIDE DEF Moves
<1>5. Order' /\ Servers'
  BY <1>1, <1>4, Aside DEF Starting
<1>6. Applied'
  <2>1. ~Covers(r)
    BY <1>4 DEF Covers
  <2>2. CASE UNCHANGED <<creds, listen>>
    <3>1. \A q \in Reqs : Covers(q) => Covers(q)'
      BY <1>4, <2>1, <2>2 DEF Covers
    <3> QED
      BY <1>1, <1>4, <2>2, <3>1 DEF Applied, Covered, Seen, Now, Works, At
  <2>3. CASE ~UNCHANGED <<creds, listen>>
    <3>1. ASSUME \E u \in Users : Enable(r, u) \/ Disable(r, u) \/ DeleteUser(r, u)
          PROVE  req'[r].pc \in {"check", "notify"}
      BY <1>2, <3>1 DEF Enable, Disable, DeleteUser, Go, Handlers
    <3>2. ASSUME NEW u \in Users, Rotate(r, u)
          PROVE  req'[r].pc = "reread" /\ creds'[req'[r].user] # None
      <4>1. creds'[u] = fresh + 1 /\ fresh \in Nat /\ req'[r].pc = "reread" /\ req'[r].user = u
        BY <1>2, <3>2 DEF Rotate, UpdatePsk, SetPsk, Types, RowTypes, Psks, Handlers
      <4> QED
        BY <4>1, SsAssumption
    <3>3. ASSUME SetListen(r) PROVE req'[r].pc = "check"
      BY <1>2, <2>3, <3>3 DEF SetListen, row, Handlers
    <3>4. ~PatchCommit(r) /\ ~Reload(r) /\ \A p \in scope.ports : ~PatchRead(r, p)
      BY <2>3 DEF PatchRead, PatchCommit, Reload, row, state
    <3>5. Covers(r)'
      BY <3>1, <3>2, <3>3, <3>4 DEF Write, Covers
    <3> QED
      BY <3>5 DEF Applied, Covered
  <2> QED
    BY <2>2, <2>3
<1> QED
  BY <1>5, <1>6

(* Outside a stop, a driver whose loop works runs.                         *)
Stopping == \E r \in Reqs : req[r].pc \in {"join", "reap"}

LEMMA WorksRuns ==
  ASSUME Order, Works, ~Stopping
  PROVE  running
BY DEF Order, Works, Stopping, Attached, Detached, At

Ticks(r) == Reread(r) \/ CheckRunning(r) \/ SendTick(r) \/ WakeReconciler(r)

LEMMA TicksRegular ==
  ASSUME Types, Types', Regular, UNCHANGED scope, NEW r \in Reqs, Ticks(r)
  PROVE  Regular'
<1> USE DEF Regular
<1>1. req \in [Reqs -> Handlers] /\ req' \in [Reqs -> Handlers] /\ cur \in Chans /\ loop \in [Chans -> Loops]
  BY DEF Types, ReqTypes, StateTypes, LoopTypes
<1>2. UNCHANGED <<running, slot, handle, cur, orphaned, creds, listen>> /\ (UNCHANGED loop \/ Tick)
  BY DEF Ticks, Reread, CheckRunning, SendTick, WakeReconciler, row, state
<1>3. /\ \A q \in Reqs : q # r => req'[q] = req[q]
      /\ req[r].pc \in {"reread", "check", "tick", "notify"}
      /\ req'[r].pc \in {"idle", "tick", "notify"}
  <2>1. CASE Reread(r) \/ WakeReconciler(r)
    BY <1>1, <2>1 DEF Reread, WakeReconciler, Done, Handlers, Idle
  <2>2. CASE CheckRunning(r) \/ SendTick(r)
    BY <1>1, <2>2 DEF CheckRunning, SendTick, Go, Done, Handlers, Idle
  <2> QED
    BY <2>1, <2>2 DEF Ticks
<1>4. req'[r].srv = req[r].srv
  <2>1. req[r].srv = FALSE
    BY <1>1, <1>3 DEF Servers, Handlers
  <2>2. CASE req' = [req EXCEPT ![r] = Idle]
    BY <1>1, <2>1, <2>2 DEF Idle
  <2>3. CASE \E p \in Positions : req' = [req EXCEPT ![r].pc = p]
    BY <1>1, <2>3 DEF Handlers
  <2>4. CASE req' = [req EXCEPT ![r].pc = "tick", ![r].user = None]
    BY <1>1, <2>4 DEF Handlers
  <2> QED
    BY <2>2, <2>3, <2>4 DEF Ticks, Reread, CheckRunning, SendTick, WakeReconciler, Go, Done, Positions
<1>5. Order' /\ Servers'
  BY <1>2, <1>3, <1>4, Aside DEF Starting
<1>6. ASSUME ~Stopping', Works' PROVE (Covered \/ Seen)'
  <2>1. \A c \in Chans : loop'[c].pc = loop[c].pc /\ loop'[c].aborted = loop[c].aborted
    BY <1>1, <1>2 DEF Tick, Loops
  <2>2. ~Stopping /\ Works
    BY <1>1, <1>2, <1>3, <1>6, <2>1 DEF Stopping, Works
  <2>3. running /\ Open /\ (Covered \/ Seen)
    BY <2>2, WorksRuns DEF Applied, Stopping, Works, Open
  <2>4. CASE Tick
    BY <1>1, <1>2, <2>4 DEF Tick, Covered, Loops
  <2>5. CASE UNCHANGED <<loop, permit>> /\ ~WakeReconciler(r)
    <3>1. Covers(r) => Covers(r)'
      <4>1. CASE Reread(r)
        BY <1>1, <4>1 DEF Reread, Covers, GetUser, Handlers
      <4>2. CASE CheckRunning(r)
        BY <1>1, <2>3, <4>2 DEF CheckRunning, Go, Covers, Handlers
      <4>3. CASE SendTick(r)
        <5>1. req' = [req EXCEPT ![r].pc = "notify"]
          BY <2>3, <4>3 DEF SendTick, Go
        <5> QED
          BY <1>1, <5>1 DEF Covers, Handlers
      <4> QED
        BY <2>5, <4>1, <4>2, <4>3 DEF Ticks
    <3>2. \A q \in Reqs : Covers(q) => Covers(q)'
      BY <1>2, <1>3, <3>1 DEF Covers
    <3> QED
      BY <1>2, <2>3, <2>5, <3>2 DEF Covered, Seen, Now, At
  <2>6. CASE WakeReconciler(r)
    BY <2>6 DEF WakeReconciler, Covered
  <2> QED
    BY <1>2, <2>4, <2>5, <2>6 DEF Ticks, Reread, CheckRunning, SendTick
<1> QED
  BY <1>5, <1>6 DEF Applied, Stopping

LEMMA ReconcileRegular ==
  ASSUME Types, Types', Regular, UNCHANGED scope, Reconcile
  PROVE  Regular'
<1> USE DEF Regular
<1>1. cur \in Chans /\ loop \in [Chans -> Loops]
  BY DEF Types, StateTypes, LoopTypes
<1>2. UNCHANGED <<running, slot, handle, cur, orphaned, creds, listen, req>> /\ (UNCHANGED loop \/ Tick)
  BY DEF Reconcile, row, state
<1>3. Order' /\ Servers'
  BY <1>2, Aside
<1>4. ASSUME ~Stopping', Works' PROVE Covered'
  <2>1. ~Stopping /\ Works
    BY <1>1, <1>2, <1>4 DEF Stopping, Works, Tick, Loops
  <2>2. running /\ Open
    BY <2>1, WorksRuns DEF Works, Open
  <2> QED
    BY <1>1, <1>2, <2>2 DEF Reconcile, Tick, Covered, Loops
<1> QED
  BY <1>3, <1>4 DEF Applied, Stopping

LEMMA RestartRegular ==
  ASSUME Types, Restart
  PROVE  Regular'
<1> USE Channels, Nones DEF Restart, Boot, Spawned, NoLoop, Idle, At, Works
<1>1. Order'
  BY DEF Order, Attached
<1>2. Servers'
  BY DEF Servers
<1>3. Applied'
  BY DEF Applied, Covered
<1> QED
  BY <1>1, <1>2, <1>3 DEF Regular

LEMMA StartRegular ==
  ASSUME Types, Types', Kept, OneStarter, Regular, UNCHANGED scope, NEW r \in Reqs, Start(r)
  PROVE  Regular'
<1> USE DEF Regular
<1>1. req \in [Reqs -> Handlers] /\ req' \in [Reqs -> Handlers] /\ cur \in Chans /\ loop \in [Chans -> Loops]
  BY DEF Types, ReqTypes, StateTypes, LoopTypes
<1>2. \A q \in Reqs : q # r => req'[q] = req[q] /\ req[q].pc \notin Starting
  <2>1. r \in Starters \intersect scope.reqs /\ scope \in Scopes
    BY <1>1 DEF Start, StartCheck, StartMark, StartLoop, StoreHandle, Accepts, Types, ReqTypes, RowTypes
  <2>2. \A q \in Reqs : req[q].pc \in Starting => q \in Starters \intersect scope.reqs
    BY DEF Types, ReqTypes, Starting
  <2>3. \A q \in Reqs : req[q].pc \in Starting => q = r
    BY <2>1, <2>2 DEF OneStarter, Kept
  <2>4. \A q \in Reqs : q # r => req'[q] = req[q]
    BY <1>1 DEF Start, StartCheck, StartMark, StartLoop, StoreHandle, Go, Done
  <2> QED
    BY <2>3, <2>4
<1>3. CASE StartCheck(r)
  <2>1. req[r].pc = "idle" /\ req'[r].pc = "mark" /\ req'[r].srv = req[r].srv
        /\ ~running /\ UNCHANGED <<state, loop, orphaned, permit, creds>>
    BY <1>1, <1>3 DEF StartCheck, Accepts, Go, Handlers, row
  <2>2. Detached
    BY <1>2, <2>1 DEF Order, Attached, Starting
  <2> QED
    BY <1>1, <1>2, <2>1, <2>2 DEF Order, Servers, Applied, Attached, Detached, Works, At, Starting, state
<1>4. CASE StartMark(r)
  <2>1. req[r].pc = "mark" /\ req'[r].pc = "loop" /\ req'[r].srv = req[r].srv
        /\ running' /\ UNCHANGED <<listen, slot, handle, cur, loop, orphaned, permit, creds>>
    BY <1>1, <1>4 DEF StartMark, Go, Handlers, row
  <2> QED
    BY <1>1, <1>2, <2>1 DEF Order, Servers, Applied, Attached, Detached, Works, At, Starting
<1>5. CASE StartLoop(r)
  <2>1. Detached /\ running
    BY <1>5 DEF StartLoop, Order
  <2>2. req'[r].pc = "handle" /\ req'[r].chan = cur /\ req'[r].srv = req[r].srv /\ req[r].pc = "loop"
        /\ UNCHANGED <<state, orphaned, permit, creds>> /\ loop' = [loop EXCEPT ![cur].pc = "recv"]
    BY <1>1, <1>5, <2>1 DEF StartLoop, Detached, At, Handlers, row
  <2>3. \A c \in Chans : /\ c # cur => loop'[c] = loop[c]
                         /\ loop'[c].aborted = loop[c].aborted /\ loop'[c].prev = loop[c].prev
    BY <1>1, <2>2 DEF Loops
  <2>4. loop'[cur].pc = "recv"
    BY <1>1, <2>2 DEF Loops
  <2>5. Order'
    BY <1>1, <1>2, <2>1, <2>2, <2>3, <2>4 DEF Order, Detached, Works, At, Starting, state
  <2>6. Servers'
    BY <1>1, <1>2, <2>1, <2>2, <2>3, <2>4 DEF Servers, Detached, At, Starting, state
  <2>7. Applied'
    BY <2>2 DEF Applied, Covered, Covers
  <2> QED
    BY <2>5, <2>6, <2>7
<1>6. CASE StoreHandle(r)
  <2>1. req[r].pc = "handle" /\ req'[r].pc = "tick" /\ req'[r].srv = req[r].srv /\ handle' = req[r].chan
        /\ UNCHANGED <<listen, running, slot, cur, loop, orphaned, permit, creds>>
    BY <1>1, <1>6 DEF StoreHandle, Handlers, row
  <2>2. handle' = cur /\ running /\ Works
    BY <2>1 DEF Order
  <2>3. Order'
    BY <1>1, <1>2, <2>1, <2>2 DEF Order, Attached, Works, At, Starting
  <2>4. Servers'
    BY <1>1, <1>2, <2>1 DEF Servers, At, Starting
  <2>5. Applied'
    BY <2>1 DEF Applied, Covered, Covers
  <2> QED
    BY <2>3, <2>4, <2>5
<1> QED
  BY <1>3, <1>4, <1>5, <1>6 DEF Start

LEMMA StopRegular ==
  ASSUME Types, Types', Kept, OneStarter, Regular, UNCHANGED scope, NEW r \in Reqs, Stop(r)
  PROVE  Regular'
<1> USE DEF Regular
<1>1. req \in [Reqs -> Handlers] /\ req' \in [Reqs -> Handlers] /\ cur \in Chans /\ loop \in [Chans -> Loops]
      /\ None \notin Chans
  BY Nones DEF Types, ReqTypes, StateTypes, LoopTypes
<1>2. \A q \in Reqs : q # r => req'[q] = req[q] /\ req[q].pc \notin Starting
  <2>1. r \in Starters \intersect scope.reqs /\ scope \in Scopes
    BY <1>1 DEF Stop, StopCheck, StopTake, StopAbort, StopFresh, Accepts, Types, ReqTypes, RowTypes
  <2>2. \A q \in Reqs : req[q].pc \in Starting => q \in Starters \intersect scope.reqs
    BY DEF Types, ReqTypes, Starting
  <2>3. \A q \in Reqs : req[q].pc \in Starting => q = r
    BY <2>1, <2>2 DEF OneStarter, Kept
  <2>4. \A q \in Reqs : q # r => req'[q] = req[q]
    BY <1>1 DEF Stop, StopCheck, StopTake, StopAbort, StopFresh, Go, Done
  <2> QED
    BY <2>3, <2>4
<1>3. CASE StopCheck(r)
  <2>1. /\ req[r].pc = "idle" /\ req'[r].pc = "stop" /\ req'[r].srv = req[r].srv
        /\ UNCHANGED <<listen, running, slot, handle, cur, loop, orphaned, permit, creds>>
    BY <1>1, <1>3 DEF StopCheck, Accepts, Go, Handlers, row, state
  <2>2. Order' /\ Servers'
    BY <1>1, <1>2, <2>1 DEF Order, Servers, Attached, Detached, Works, At, Starting
  <2>3. \A q \in Reqs : Covers(q) => Covers(q)'
    BY <1>2, <2>1 DEF Covers
  <2>4. Applied'
    BY <1>2, <2>1, <2>3 DEF Applied, Covered, Seen, Now, Works, At
  <2> QED
    BY <2>2, <2>4
<1>4. CASE StopTake(r)
  <2>1. /\ req[r].pc = "stop" /\ req'[r].pc = "join" /\ req'[r].chan = handle
        /\ slot' = None /\ handle' = None /\ UNCHANGED <<cur, loop, orphaned>>
    BY <1>1, <1>4 DEF StopTake, Handlers
  <2>2. Attached \/ Detached
    BY <1>2, <2>1 DEF Order, Starting
  <2>3. Order'
    BY <1>1, <1>2, <2>1, <2>2 DEF Order, Attached, Detached, Works, At, Starting
  <2>4. Servers'
    BY <1>1, <1>2, <2>1 DEF Servers, At, Starting
  <2>5. Applied'
    BY <2>1 DEF Applied
  <2> QED
    BY <2>3, <2>4, <2>5
<1>5. CASE StopAbort(r)
  <2> DEFINE c == req[r].chan
  <2>1. /\ req[r].pc = "join" /\ req'[r].pc = "reap" /\ req'[r].chan = c /\ ~req'[r].srv
        /\ UNCHANGED <<running, slot, handle, cur, orphaned>>
    BY <1>1, <1>5 DEF StopAbort, Handlers, state
  <2>2. \/ c = None /\ Detached /\ loop' = loop
        \/ /\ c = cur /\ handle = None /\ Works /\ loop' = [loop EXCEPT ![cur].aborted = TRUE]
    BY <1>1, <1>5, <2>1 DEF StopAbort, Order, Works
  <2>3. /\ \A d \in Chans : d # cur => loop'[d] = loop[d]
        /\ loop'[cur].pc = loop[cur].pc /\ loop'[cur].prev = loop[cur].prev
        /\ c = cur => loop'[cur].aborted
    BY <1>1, <2>2 DEF Loops
  <2>4. Order'
    BY <1>1, <1>2, <2>1, <2>2, <2>3 DEF Order, Attached, Detached, Works, At, Starting
  <2>5. Servers'
    BY <1>1, <1>2, <2>1, <2>2, <2>3 DEF Servers, At, Starting
  <2>6. Applied'
    BY <2>1 DEF Applied
  <2> QED
    BY <2>4, <2>5, <2>6
<1>6. CASE StopFresh(r)
  <2>1. /\ req[r].pc = "reap" /\ req'[r].pc = "idle" /\ ~req'[r].srv /\ cur' = Free
        /\ UNCHANGED <<running, slot, handle, orphaned>>
    BY <1>1, <1>6 DEF StopFresh, Done, Idle, Handlers
  <2>2. Free \in Chans /\ Free # cur
    BY <1>6, Channels DEF StopFresh, IsFree
  <2>3. handle = None /\ loop[cur].pc \in {"slot", "dead"}
    BY <1>1, <1>6, <2>1 DEF StopFresh, Order, Detached, At
  <2>4. /\ loop'[Free] = [NoLoop EXCEPT !.pc = "slot"]
        /\ loop'[cur].pc = "dead" /\ loop'[cur].prev = loop[cur].prev
        /\ \A d \in Chans : d # cur /\ d # Free => loop'[d] = loop[d]
    <3>1. ~loop[cur].prev
      BY <1>1, <2>3 DEF Servers, At, Loops
    <3>2. loop'[cur] = IF loop[cur].pc = "slot" THEN NoLoop ELSE loop[cur]
      BY <1>1, <1>6, <2>2 DEF StopFresh
    <3> QED
      BY <1>1, <1>6, <2>2, <2>3, <3>1, <3>2 DEF StopFresh, NoLoop, Loops
  <2>5. loop'[Free].pc = "slot" /\ ~loop'[Free].aborted /\ ~loop'[Free].prev
    BY <2>4 DEF NoLoop
  <2>6. Order'
    BY <1>1, <1>2, <2>1, <2>2, <2>3, <2>4, <2>5 DEF Order, Detached, Works, At, Starting
  <2>7. Servers'
    <3>1. \A d \in Chans : loop'[d].prev => At(d, "wait")'
      <4>1. \A d \in Chans : loop[d].prev => loop[d].pc = "wait"
        BY <1>1 DEF Servers, At
      <4>2. cur \in Chans
        BY <1>1 DEF Types, StateTypes
      <4>3. ~loop'[cur].prev
        BY <2>3, <2>4, <4>1, <4>2
      <4> QED
        BY <2>4, <2>5, <4>1, <4>3 DEF At
    <3> QED
      BY <1>1, <1>2, <2>1, <2>2, <2>5, <3>1 DEF Servers, At, Starting
  <2>8. Applied'
    BY <2>1, <2>5 DEF Applied, Works
  <2> QED
    BY <2>6, <2>7, <2>8
<1> QED
  BY <1>3, <1>4, <1>5, <1>6 DEF Stop

LEMMA SlotUnaborted ==
  ASSUME Order, At(cur, "slot")
  PROVE  ~loop[cur].aborted
<1>1. CASE \E r \in Reqs : req[r].pc \in {"handle", "join", "reap"}
  BY <1>1 DEF Order, Detached, Works, At
<1>2. CASE \A r \in Reqs : req[r].pc \notin {"handle", "join", "reap"}
  BY <1>2 DEF Order, Attached, Detached, Works, At
<1> QED
  BY <1>1, <1>2

LEMMA BackgroundRegular ==
  ASSUME Types, Types', Regular, UNCHANGED scope, NEW c \in Chans, Background(c)
  PROVE  Regular'
<1> USE DEF Regular
<1>1. cur \in Chans /\ loop \in [Chans -> Loops] /\ loop' \in [Chans -> Loops]
  BY DEF Types, StateTypes, LoopTypes
<1> DEFINE l == loop'[c]
<1>2. UNCHANGED <<handle, cur, req, permit, creds, listen>> /\ loop[c] \in Loops
  BY <1>1 DEF Background, Loop, Absorb, ListFails, Recv, Elapse, Close, List, Swap, TakeServer, Spawn, Store, Die,
     row, state
<1>3. /\ loop[c].pc \notin {"slot", "dead"}
      /\ \A d \in Chans : d # c => loop'[d] = loop[d]
  <2>1. CASE Recv(c) \/ Absorb(c) \/ Elapse(c) \/ Close(c)
    BY <1>1, <2>1 DEF Recv, Absorb, Elapse, Close, At
  <2>2. CASE List(c) \/ ListFails(c) \/ TakeServer(c)
    BY <1>1, <2>2 DEF List, ListFails, TakeServer, At
  <2>3. CASE Spawn(c) \/ Store(c)
    BY <1>1, <2>3 DEF Spawn, Store, At
  <2>4. CASE Die(c)
    <3>1. loop[c].pc # "dead" /\ loop[c].aborted /\ c = cur
      BY <2>4 DEF Die, Order, At
    <3>2. loop[c].pc # "slot"
      BY <3>1, SlotUnaborted DEF At
    <3> QED
      BY <1>1, <2>4, <3>1, <3>2 DEF Die
  <2> QED
    BY <2>1, <2>2, <2>3, <2>4 DEF Background, Loop, Swap
<1>4. c = cur
  BY <1>3 DEF Order, At
<1>5. /\ slot # None => running
      /\ \A q \in Reqs : req[q].srv => req[q].pc = "join"
      /\ orphaned => "contention" \in scope.kinds
      /\ loop[cur].pc \in {"wait", "store"} => slot = None
      /\ loop[cur].prev => loop[cur].pc = "wait"
  BY <1>1 DEF Servers, At
<1>6. ASSUME l.pc \notin {"slot", "dead"}, l.aborted = loop[cur].aborted, running' \in {running, TRUE}
      PROVE  Order'
  <2>1. /\ ~Detached /\ ~At(cur, "slot") /\ ~At(cur, "dead")
        /\ Works' <=> Works
        /\ ~Detached' /\ ~At(cur, "slot")' /\ ~At(cur, "dead")'
        /\ (loop[cur].aborted)' <=> loop[cur].aborted
    BY <1>2, <1>3, <1>4, <1>6 DEF Detached, Works, At
  <2>2. Attached => Attached'
    BY <1>2, <1>6, <2>1 DEF Attached
  <2>3. \A d \in Chans : d # cur => At(d, "dead")'
    BY <1>2, <1>3, <1>4 DEF Order, At
  <2>4. (\A r \in Reqs : req[r].pc \notin {"handle", "join", "reap"}) => Attached'
    BY <2>1, <2>2 DEF Order
  <2>5. ASSUME NEW r \in Reqs
        PROVE  /\ req[r].pc \notin {"mark", "loop"}
               /\ req[r].pc = "handle" => req[r].chan = cur /\ handle = None /\ running' /\ Works'
               /\ req[r].pc = "join" => req[r].chan = cur /\ handle = None /\ Works'
               /\ req[r].pc = "reap" => req[r].chan = cur /\ handle = None /\ (loop[cur].aborted)'
    <3>1. running => running'
      BY <1>6
    <3> QED
      BY <2>1, <3>1 DEF Order
  <2>6. cur' = cur /\ req' = req /\ handle' = handle
    BY <1>2
  <2> QED
    BY <2>1, <2>3, <2>4, <2>5, <2>6 DEF Order
<1>7. ASSUME l.prev => l.pc = "wait", l.pc \in {"wait", "store"} => slot' = None, slot' # None => running',
             orphaned' => "contention" \in scope.kinds
      PROVE  Servers'
  <2>1. \A d \in Chans : loop'[d].prev => At(d, "wait")'
    BY <1>1, <1>3, <1>7 DEF Servers, At
  <2> QED
    BY <1>2, <1>4, <1>5, <1>7, <2>1 DEF Servers, At
<1>8. ASSUME l.aborted = loop[cur].aborted, l.pending = loop[cur].pending,
             Seen => Seen'
      PROVE  Applied'
  BY <1>1, <1>2, <1>3, <1>4, <1>8 DEF Applied, Works, Covered, Covers
<1>9. CASE Recv(c) \/ Absorb(c) \/ Elapse(c)
  <2>1. /\ l.pc \in {"debounce", "list"} /\ l.aborted = loop[cur].aborted /\ l.prev = loop[cur].prev
        /\ loop[cur].pc # "wait"
        /\ UNCHANGED <<running, slot, orphaned>>
    BY <1>1, <1>2, <1>4, <1>9 DEF Recv, Absorb, Elapse, Loops, At, state
  <2>2. Seen'
    BY <1>2, <1>4, <2>1 DEF Seen, At
  <2> QED
    BY <1>5, <1>6, <1>7, <2>1, <2>2 DEF Applied
<1>10. CASE List(c)
  <2>1. /\ l.pc = "take" /\ l.users = creds /\ l.aborted = loop[cur].aborted /\ l.prev = loop[cur].prev
        /\ loop[cur].pc # "wait"
        /\ UNCHANGED <<running, slot, orphaned>>
    BY <1>1, <1>2, <1>4, <1>10 DEF List, ListUsers, Loops, At, state
  <2>2. Seen'
    BY <1>2, <1>4, <2>1 DEF Seen, At
  <2> QED
    BY <1>5, <1>6, <1>7, <2>1, <2>2 DEF Applied
<1>11. CASE ListFails(c)
  <2>1. /\ l.pc = "recv" /\ l.failed /\ l.aborted = loop[cur].aborted /\ l.prev = loop[cur].prev
        /\ loop[cur].pc # "wait"
        /\ UNCHANGED <<running, slot, orphaned>>
    BY <1>1, <1>2, <1>4, <1>11 DEF ListFails, Loops, At, state
  <2>2. Seen'
    BY <1>2, <1>4, <2>1 DEF Seen, At
  <2> QED
    BY <1>5, <1>6, <1>7, <2>1, <2>2 DEF Applied
<1>12. CASE TakeServer(c)
  <2>1. /\ loop[cur].pc = "take" /\ l.pc = "wait" /\ l.aborted = loop[cur].aborted
        /\ l.pending = loop[cur].pending /\ l.next = [users |-> loop[cur].users, port |-> listen]
        /\ slot' = None /\ UNCHANGED <<running, orphaned>>
    BY <1>1, <1>2, <1>4, <1>12 DEF TakeServer, Loops, At
  <2>2. Seen => Seen'
    BY <1>2, <1>4, <2>1 DEF Seen, Now, At
  <2> QED
    BY <1>5, <1>6, <1>7, <1>8, <2>1, <2>2
<1>13. CASE Spawn(c)
  <2>1. /\ loop[cur].pc = "wait" /\ l.pc = "store" /\ l.aborted = loop[cur].aborted /\ ~l.prev
        /\ l.pending = loop[cur].pending /\ l.next = loop[cur].next
        /\ UNCHANGED <<running, slot, orphaned>>
    BY <1>1, <1>2, <1>4, <1>13 DEF Spawn, Loops, At, state
  <2>2. Seen => Seen'
    BY <1>2, <1>4, <2>1 DEF Seen, Now, At
  <2> QED
    BY <1>5, <1>6, <1>7, <1>8, <2>1, <2>2
<1>14. CASE Store(c)
  <2>1. /\ loop[cur].pc = "store" /\ l.pc = "recv" /\ l.aborted = loop[cur].aborted /\ l.prev = loop[cur].prev
        /\ l.pending = loop[cur].pending /\ slot' = loop[cur].next /\ running'
        /\ orphaned' = (orphaned \/ slot # None)
    BY <1>1, <1>2, <1>4, <1>14 DEF Store, Loops, At
  <2>2. Seen => Seen'
    BY <1>2, <1>4, <2>1 DEF Seen, Now, At
  <2>3. running' = TRUE
    BY <1>14 DEF Store
  <2> QED
    BY <1>5, <1>6, <1>7, <1>8, <2>1, <2>2, <2>3
<1>15. CASE Die(c)
  <2>1. /\ loop[cur].aborted /\ loop' = [loop EXCEPT ![cur] = NoLoop] /\ UNCHANGED <<running, slot>>
        /\ orphaned' => "contention" \in scope.kinds
    BY <1>4, <1>5, <1>15 DEF Die, state
  <2>2. l = NoLoop
    BY <1>1, <1>4, <2>1
  <2>3. l.pc = "dead" /\ ~l.prev
    BY <2>2 DEF NoLoop
  <2>4. Order'
    BY <1>1, <1>2, <1>3, <1>4, <2>1, <2>3 DEF Order, Attached, Detached, Works, At
  <2>5. Servers'
    BY <1>4, <1>5, <1>7, <2>1, <2>3
  <2>6. Applied'
    BY <1>2, <1>4, <2>3 DEF Applied, Works
  <2> QED
    BY <2>4, <2>5, <2>6
<1> QED
  BY <1>4, <1>9, <1>10, <1>11, <1>12, <1>13, <1>14, <1>15 DEF Background, Loop, Swap, Close

LEMMA InitIInv == Init => IInv
BY InitTypes, InitRegular DEF IInv

LEMMA StepIInv == OneStarter /\ IInv /\ [Next /\ UNCHANGED scope]_vars => IInv'
<1> SUFFICES ASSUME OneStarter, IInv, [Next /\ UNCHANGED scope]_vars PROVE IInv'
  OBVIOUS
<1>1. Types /\ Types'
  BY StepTypes DEF IInv
<1>2. ASSUME Kept' PROVE Regular'
  <2>1. Kept /\ Regular
    BY <1>2 DEF Kept, IInv, vars
  <2>2. CASE Next /\ UNCHANGED scope
    <3>1. ASSUME NEW r \in Reqs, Handle(r) PROVE Regular'
      <4>1. ~GiveUp(r)
        BY <2>1 DEF GiveUp, Kept
      <4> QED
        BY <1>1, <2>1, <2>2, <3>1, <4>1, TicksRegular, StartRegular, StopRegular DEF Handle, Ticks
    <3>2. ASSUME NEW r \in Reqs, Write(r) PROVE Regular'
      BY <1>1, <2>1, <2>2, <3>2, WriteRegular
    <3>3. ASSUME NEW c \in Chans, Background(c) PROVE Regular'
      BY <1>1, <2>1, <2>2, <3>3, BackgroundRegular
    <3>4. ASSUME Reconcile \/ Restart PROVE Regular'
      BY <1>1, <2>1, <2>2, <3>4, ReconcileRegular, RestartRegular
    <3> QED
      BY <2>2, <3>1, <3>2, <3>3, <3>4, Steps DEF Step
  <2>3. CASE UNCHANGED vars
    BY <2>1, <2>3 DEF vars, row, state, Regular, Order, Servers, Applied, Attached, Detached, Works, At,
       Covered, Covers, Seen, Now
  <2> QED
    BY <2>2, <2>3
<1> QED
  BY <1>1, <1>2 DEF IInv

LEMMA AtMostOne ==
  ASSUME NEW S, \A a, b \in S : a = b
  PROVE  Cardinality(S) <= 1
<1>1. CASE S = {}
  BY <1>1, FS_EmptySet
<1>2. CASE S # {}
  <2>1. PICK a \in S : TRUE
    BY <1>2
  <2>2. S = {a}
    BY <2>1
  <2> QED
    BY <2>2, FS_Singleton
<1> QED
  BY <1>1, <1>2

(* driver.rs 678-679: whatever the requests and the loop do, the driver    *)
(* never has two servers on its port, but for one that a stop has taken.   *)
THEOREM OneServerHolds ==
  ASSUME OneStarter, Uncontended
  PROVE  Spec => []OneServer
<1>1. IInv => OneServer
  <2> SUFFICES ASSUME IInv, Kept, \A r \in Reqs : ~req[r].srv
               PROVE  Cardinality(Live) <= 1
    BY DEF OneServer
  <2>1. Order /\ Servers /\ scope \in Scopes
    BY DEF IInv, Regular, Types, RowTypes
  <2>2. ~orphaned
    BY <2>1 DEF Servers, Kept, Uncontended
  <2>3. \A d \in Chans : (loop[d].prev => d = cur /\ loop[cur].pc = "wait") /\ (At(d, "store") => d = cur)
    BY <2>1 DEF Order, Servers, At
  <2>4. loop[cur].pc \in {"wait", "store"} => slot = None
    BY <2>1 DEF Servers
  <2>5. ASSUME NEW x \in Live
        PROVE  \/ x = <<"slot", slot>> /\ slot # None
               \/ x = <<"prev", cur>> /\ loop[cur].pc = "wait"
               \/ x = <<"next", cur>> /\ loop[cur].pc = "store"
    <3>1. CASE x \in {<<"slot", s>> : s \in {slot} \ {None}}
      BY <3>1
    <3>2. CASE x \in {<<"prev", c>> : c \in {d \in Chans : loop[d].prev}}
      BY <2>3, <3>2
    <3>3. CASE x \in {<<"next", c>> : c \in {d \in Chans : At(d, "store")}}
      BY <2>3, <3>3 DEF At
    <3>4. x \notin {<<"stop", r>> : r \in {q \in Reqs : req[q].srv}}
      OBVIOUS
    <3>5. x \notin {<<"orphan", o>> : o \in {orphaned} \ {FALSE}}
      BY <2>2 DEF IInv, Types, StateTypes
    <3> QED
      BY <3>1, <3>2, <3>3, <3>4, <3>5 DEF Live
  <2>6. \A a, b \in Live : a = b
    BY <2>4, <2>5
  <2> QED
    BY <2>6, AtMostOne
<1> QED
  BY <1>1, InitIInv, StepIInv, PTL DEF Spec

(* No committed change is lost between the debounce, the listing and the   *)
(* swap: a settled driver serves what the database and the listener say.   *)
THEOREM SettledIsApplied ==
  ASSUME OneStarter
  PROVE  Spec => []SettledMeansApplied
<1>1. IInv => SettledMeansApplied
  <2> SUFFICES ASSUME IInv, Kept, Settled, running, At(cur, "recv"), ~loop[cur].failed
               PROVE  Current
    BY DEF SettledMeansApplied
  <2>1. Order /\ Applied /\ cur \in Chans
    BY DEF IInv, Regular, Types, StateTypes
  <2>2. \A r \in Reqs : req[r].pc = "idle"
    BY DEF Settled, Quiet
  <2>3. Attached
    BY <2>1, <2>2 DEF Order, Detached, At
  <2>4. ~Covered
    BY <2>1, <2>2 DEF Settled, Covered, Covers
  <2>5. Seen
    BY <2>2, <2>3, <2>4, <2>1 DEF Applied, Attached
  <2> QED
    BY <2>5 DEF Seen, Now, Current
<1> QED
  BY <1>1, InitIInv, StepIInv, PTL DEF Spec

(* driver.rs 592: once a stop is over nothing serves.                      *)
THEOREM DownIsDown ==
  ASSUME OneStarter, Uncontended
  PROVE  Spec => []DownMeansDown
<1>1. IInv => DownMeansDown
  <2> SUFFICES ASSUME IInv, Kept, Settled, ~running
               PROVE  Live = {}
    BY DEF DownMeansDown
  <2>1. Order /\ Servers /\ scope \in Scopes
    BY DEF IInv, Regular, Types, RowTypes
  <2>2. ~orphaned /\ orphaned \in BOOLEAN
    BY <2>1 DEF Servers, Kept, Uncontended, IInv, Types, StateTypes
  <2>3. slot = None
    BY <2>1 DEF Servers
  <2>4. \A d \in Chans : ~loop[d].prev /\ ~At(d, "store")
    BY <2>1 DEF Servers, Settled, At
  <2>5. \A r \in Reqs : ~req[r].srv
    BY <2>1 DEF Servers, Settled, Quiet
  <2> QED
    BY <2>2, <2>3, <2>4, <2>5 DEF Live
<1> QED
  BY <1>1, InitIInv, StepIInv, PTL DEF Spec
=============================================================================
