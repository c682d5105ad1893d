--------------------------- MODULE RuntimeProofs ---------------------------
(* TLAPS proofs about Runtime, for every set of drivers, requests and any  *)
(* number of changes.  NoLostWakeup is inductive together with the types   *)
(* and with Known: a wake either leaves its permit, or comes from nobody.  *)
EXTENDS Runtime, TLAPS

IInv == TypeOK /\ Known /\ NoLostWakeup

LEMMA Numbers == 1 \in Drivers /\ 2 \in Drivers /\ 3 \in Drivers /\ Drivers \subseteq Nat
  BY DEF Drivers

LEMMA LargerType ==
  ASSUME NEW a \in 0 .. MaxVersion, NEW b \in 0 .. MaxVersion
  PROVE  Larger(a, b) \in 0 .. MaxVersion /\ (Larger(a, b) = a \/ Larger(a, b) = b)
  BY DEF Larger

Positions == [pc : {"idle", "driver", "notify"}, change : 0 .. MaxVersion]

LEMMA IdlePosition == Idle \in Positions
  BY RuntimeAssumption DEF Idle, Positions

LEMMA InitIInv == Init => IInv
<1> SUFFICES ASSUME Init PROVE IInv
  OBVIOUS
<1> USE RuntimeAssumption DEF Init, Drivers, Ss, Wg, Proxy
<1>0. writer \in [Writers -> Positions]
  BY IdlePosition
<1>1. TypeOK
  <2>1. headless \in BOOLEAN /\ wired \in BOOLEAN /\ permit \in BOOLEAN
    OBVIOUS
  <2>2. /\ phase \in Phases /\ loop \in {"off", "select", "debounce", "pass", "sync"}
        /\ at \in Drivers /\ plane \in [Drivers -> {"up", "down"}]
    BY DEF Phases
  <2>3. /\ version \in 0 .. MaxVersion /\ told \in 0 .. MaxVersion
        /\ asked \in [Enabled -> 0 .. MaxVersion]
    OBVIOUS
  <2> QED
    BY <1>0, <2>1, <2>2, <2>3 DEF TypeOK, Positions
<1>2. Known
  BY DEF Known, Idle
<1>3. NoLostWakeup
  BY DEF NoLostWakeup, Behind
<1> QED
  BY <1>1, <1>2, <1>3 DEF IInv

(* The end of the process, whatever comes of the planes.                   *)
LEMMA ExitStep ==
  ASSUME IInv, Exit, plane' \in [Drivers -> {"up", "down"}]
  PROVE  IInv'
<1> USE RuntimeAssumption DEF IInv, Exit, Drivers, Ss
<1>0. writer' \in [Writers -> Positions]
  BY IdlePosition
<1>1. TypeOK'
  <2>1. headless' \in BOOLEAN /\ wired' \in BOOLEAN /\ permit' \in BOOLEAN
    BY DEF TypeOK
  <2>2. /\ phase' \in Phases /\ loop' \in {"off", "select", "debounce", "pass", "sync"}
        /\ at' \in Drivers
    BY DEF Phases
  <2>3. /\ version' \in 0 .. MaxVersion /\ told' \in 0 .. MaxVersion
        /\ asked' \in [Enabled -> 0 .. MaxVersion]
    BY DEF TypeOK
  <2> QED
    BY <1>0, <2>1, <2>2, <2>3 DEF TypeOK, Positions
<1>2. Known'
  BY DEF Known, TypeOK, Idle
<1>3. NoLostWakeup'
  BY DEF NoLostWakeup, Behind, Known, TypeOK
<1> QED
  BY <1>1, <1>2, <1>3

(* Nothing but the phase, a plane and one asked changes while booting.     *)
LEMMA BootStep == ASSUME IInv, Boot PROVE IInv'
<1> USE RuntimeAssumption DEF IInv
<1>t. phase \in Phases /\ plane \in [Drivers -> {"up", "down"}] /\ asked \in [Enabled -> 0 .. MaxVersion]
      /\ version \in 0 .. MaxVersion
  BY DEF TypeOK
<1>1. CASE Exit
  <2>1. plane' \in [Drivers -> {"up", "down"}]
    BY <1>1, <1>t DEF Boot, BootWg, BootSs, BootProxy, BootReconciler, BootListener, Brings, Exit,
       Wg, Ss, Proxy, Drivers
  <2> QED
    BY <1>1, <2>1, ExitStep
<1>2. CASE ~Exit /\ phase \in {"wg", "ss", "proxy"}
  <2>1. /\ UNCHANGED <<headless, wired, reconcile, writer, version, told>>
        /\ phase' \in {"ss", "proxy", "reconciler"}
        /\ asked' = asked \/ \E t \in Enabled : asked' = [asked EXCEPT ![t] = version]
        /\ plane' = plane \/ \E t \in Drivers, s \in {"up", "down"} : plane' = [plane EXCEPT ![t] = s]
    BY <1>2 DEF Boot, BootWg, BootSs, BootProxy, BootReconciler, BootListener, Brings, Reads,
       Wg, Ss, Proxy, Drivers
  <2>2. asked' \in [Enabled -> 0 .. MaxVersion] /\ plane' \in [Drivers -> {"up", "down"}]
    BY <2>1, <1>t
  <2>3. TypeOK'
    BY <2>1, <2>2 DEF TypeOK, Phases, reconcile
  <2>4. Known'
    BY <1>2, <1>t, <2>1 DEF Known, reconcile
  <2>5. NoLostWakeup'
    BY <1>2, <1>t, <2>1, <2>2, <2>4 DEF Known, NoLostWakeup, Behind, reconcile
  <2> QED
    BY <2>3, <2>4, <2>5
<1>3. CASE ~Exit /\ phase \in {"reconciler", "listener"}
  <2>1. /\ UNCHANGED <<plane, headless, at, permit, writer, version, told, asked>>
        /\ \/ phase = "reconciler" /\ phase' = "listener" /\ loop' = "select" /\ wired'
           \/ phase = "listener" /\ phase' = "serve" /\ loop' = loop /\ wired' = wired
    BY <1>3 DEF Boot, BootWg, BootSs, BootProxy, BootReconciler, BootListener, reconcile
  <2>2. TypeOK'
    BY <2>1 DEF TypeOK, Phases, BootReconciler
  <2>3. Known'
    BY <2>1 DEF Known
  <2>4. NoLostWakeup'
    BY <2>1 DEF Known, NoLostWakeup, Behind, TypeOK
  <2> QED
    BY <2>2, <2>3, <2>4
<1> QED
  BY <1>1, <1>2, <1>3 DEF Boot, BootWg, BootSs, BootProxy, BootReconciler, BootListener

(* Signals, shutdown and restart touch neither the loop nor a wake.        *)
LEMMA LifeStep == ASSUME IInv, Signal \/ Shutdown \/ ClosePool \/ Crash \/ Restart PROVE IInv'
<1> USE RuntimeAssumption DEF IInv
<1>t. phase \in Phases /\ plane \in [Drivers -> {"up", "down"}]
  BY DEF TypeOK
<1>1. CASE ClosePool \/ Crash
  <2>1. Exit /\ plane' = plane
    BY <1>1 DEF ClosePool, Crash
  <2> QED
    BY <1>t, <2>1, ExitStep
<1>2. CASE Signal \/ Shutdown \/ Restart
  <2>a. /\ UNCHANGED <<headless, wired, reconcile, version, told, asked>>
        /\ writer' = writer \/ writer' = [w \in Writers |-> IF w \in Reqs THEN Idle ELSE writer[w]]
    BY <1>2 DEF Signal, Shutdown, Restart
  <2>b. \/ phase = "serve" /\ phase' = "stop ss"
        \/ /\ phase \in {"stop ss", "stop wg", "stop proxy"}
           /\ phase' \in {"stop wg", "stop proxy", "close"}
        \/ phase = "exited" /\ phase' = "wg"
    BY <1>2 DEF Signal, Shutdown, Restart, After, Stopping
  <2>c. writer \in [Writers -> Positions]
    BY DEF TypeOK, Positions
  <2>d. /\ \A w \in Writers : writer'[w] = Idle \/ writer'[w] = writer[w]
        /\ writer' \in [Writers -> Positions]
    BY <2>a, <2>c, IdlePosition
  <2>1. /\ UNCHANGED <<headless, wired, reconcile, version, told, asked>>
        /\ phase' \in Phases
        /\ phase' \in {"wg", "ss", "proxy", "reconciler", "exited"} <=>
             phase \in {"wg", "ss", "proxy", "reconciler", "exited"}
        /\ \A w \in Writers : writer'[w] = Idle \/ writer'[w] = writer[w]
        /\ writer' \in [Writers -> [pc : {"idle", "driver", "notify"}, change : 0 .. MaxVersion]]
    BY <2>a, <2>b, <2>d DEF Phases, Positions
  <2>2. plane' \in [Drivers -> {"up", "down"}]
    BY <1>2, <1>t DEF Signal, Shutdown, Restart, Brings, Stopping, Ss, Wg, Proxy, Drivers
  <2>3. TypeOK'
    BY <2>1, <2>2 DEF TypeOK, reconcile
  <2>4. Known'
    BY <2>1 DEF Known, reconcile, Idle, TypeOK
  <2>5. NoLostWakeup'
    BY <2>1 DEF NoLostWakeup, Behind, reconcile
  <2> QED
    BY <2>3, <2>4, <2>5
<1> QED
  BY <1>1, <1>2

(* The wakes: one that tells of a change leaves a permit with it.          *)
LEMMA WriterStep ==
  ASSUME IInv, NEW w \in Writers, Commit(w) \/ DriverNotifies(w) \/ HandlerNotifies(w) \/ GiveUp(w)
  PROVE  IInv'
<1> USE RuntimeAssumption DEF IInv
<1>t. /\ writer \in [Writers -> [pc : {"idle", "driver", "notify"}, change : 0 .. MaxVersion]]
      /\ version \in 0 .. MaxVersion /\ told \in 0 .. MaxVersion /\ permit \in BOOLEAN
      /\ asked \in [Enabled -> 0 .. MaxVersion]
  BY DEF TypeOK
<1>1. CASE Commit(w)
  <2>1. /\ version' = version + 1 /\ version' \in 0 .. MaxVersion
        /\ UNCHANGED <<life, reconcile, told, asked>>
        /\ phase \notin {"wg", "ss", "proxy", "reconciler", "exited"}
        /\ \E p \in {"driver", "notify"} :
             writer' = [writer EXCEPT ![w] = [pc |-> p, change |-> version + 1]]
    <3>1. /\ version < MaxVersion /\ version' = version + 1
          /\ UNCHANGED <<life, reconcile, told, asked>> /\ Serving(w)
          /\ \E p \in IF w = Poller THEN {"notify"} ELSE {"driver", "notify"} :
               writer' = [writer EXCEPT ![w] = [pc |-> p, change |-> version + 1]]
      BY <1>1 DEF Commit
    <3>2. phase \notin {"wg", "ss", "proxy", "reconciler", "exited"}
      BY <3>1 DEF Serving
    <3>3. version' \in 0 .. MaxVersion
      BY <1>t, <3>1
    <3>4. CASE w = Poller
      BY <3>1, <3>2, <3>3, <3>4
    <3>5. CASE w # Poller
      BY <3>1, <3>2, <3>3, <3>5
    <3> QED
      BY <3>4, <3>5
  <2>2. TypeOK'
    BY <1>t, <2>1 DEF TypeOK, life, reconcile
  <2>3. Known'
    BY <1>t, <2>1 DEF Known, life, reconcile
  <2>4. NoLostWakeup'
    BY <2>1 DEF NoLostWakeup, Behind, life, reconcile
  <2> QED
    BY <2>2, <2>3, <2>4
<1>2. CASE DriverNotifies(w) \/ HandlerNotifies(w)
  <2>1. /\ UNCHANGED <<life, loop, at, version, asked>>
        /\ writer[w].pc # "idle"
        /\ writer' = [writer EXCEPT ![w].pc = "notify"] \/ writer' = [writer EXCEPT ![w] = Idle]
        /\ \/ permit' = permit /\ told' = told
           \/ permit' = TRUE /\ told' = Larger(told, writer[w].change)
    BY <1>2 DEF DriverNotifies, HandlerNotifies, Notify
  <2>2. told' \in 0 .. MaxVersion /\ told' <= version /\ permit' \in BOOLEAN
    BY <1>t, <2>1, LargerType DEF Known
  <2>3. loop # "off"
    BY <2>1 DEF Known, Idle
  <2>4. /\ writer' \in [Writers -> [pc : {"idle", "driver", "notify"}, change : 0 .. MaxVersion]]
        /\ \A v \in Writers : writer'[v].change <= version
    BY <1>t, <2>1 DEF Known, Idle
  <2>5. TypeOK'
    BY <2>1, <2>2, <2>4 DEF TypeOK, life
  <2>6. Known'
    BY <2>1, <2>2, <2>3, <2>4 DEF Known, life
  <2>7. NoLostWakeup'
    BY <2>1 DEF NoLostWakeup, Behind, life
  <2> QED
    BY <2>5, <2>6, <2>7
<1>3. CASE GiveUp(w)
  <2>1. /\ UNCHANGED <<life, reconcile, version, told, asked>>
        /\ writer' = [writer EXCEPT ![w] = Idle]
    BY <1>3 DEF GiveUp
  <2>2. TypeOK'
    BY <1>t, <2>1 DEF TypeOK, life, reconcile, Idle
  <2>3. Known'
    BY <1>t, <2>1 DEF Known, life, reconcile, Idle
  <2>4. NoLostWakeup'
    BY <2>1 DEF NoLostWakeup, Behind, life, reconcile
  <2> QED
    BY <2>2, <2>3, <2>4
<1> QED
  BY <1>1, <1>2, <1>3

(* A start asks its driver itself and only then has something to tell.     *)
LEMMA RequestStep ==
  ASSUME IInv, NEW r \in Reqs, NEW t \in Enabled, Start(r, t) \/ Stop(r, t)
  PROVE  IInv'
<1> USE RuntimeAssumption DEF IInv
<1>t. /\ writer \in [Writers -> [pc : {"idle", "driver", "notify"}, change : 0 .. MaxVersion]]
      /\ version \in 0 .. MaxVersion /\ told \in 0 .. MaxVersion
      /\ asked \in [Enabled -> 0 .. MaxVersion] /\ plane \in [Drivers -> {"up", "down"}]
      /\ t \in Drivers /\ r \in Writers
  BY DEF TypeOK, Writers
<1>1. /\ UNCHANGED <<phase, headless, wired, reconcile, version, told>>
      /\ phase = "serve"
      /\ writer' = writer \/ writer' = [writer EXCEPT ![r] = [pc |-> "notify", change |-> version]]
      /\ asked' = asked \/ asked' = [asked EXCEPT ![t] = version]
      /\ \E s \in {"up", "down"} : plane' = [plane EXCEPT ![t] = s]
  BY DEF Start, Stop, Serving, Brings, Reads
<1>2. TypeOK'
  BY <1>t, <1>1 DEF TypeOK, reconcile
<1>3. Known'
  BY <1>t, <1>1 DEF Known, reconcile
<1>4. NoLostWakeup'
  <2>1. \A u \in Enabled : Behind(u)' => Behind(u)
    BY <1>t, <1>1 DEF Behind, Known
  <2> QED
    BY <1>1, <2>1 DEF NoLostWakeup, reconcile, Behind
<1> QED
  BY <1>2, <1>3, <1>4

(* The loop: it leaves a target behind only while that is before it.       *)
LEMMA LoopStep == ASSUME IInv, Loop \/ Tick PROVE IInv'
<1> USE RuntimeAssumption DEF IInv
<1>t. /\ at \in Drivers /\ permit \in BOOLEAN /\ told \in 0 .. MaxVersion /\ version \in 0 .. MaxVersion
      /\ asked \in [Enabled -> 0 .. MaxVersion] /\ told <= version /\ Enabled \subseteq Drivers
      /\ loop \in {"off", "select", "debounce", "pass", "sync"}
  BY DEF TypeOK, Known
<1>1. CASE TakePermit \/ Debounced \/ Tick
  <2>1. /\ UNCHANGED <<life, writer, version, told, asked>>
        /\ loop # "off" /\ permit' \in BOOLEAN /\ permit' \in {permit, FALSE}
        /\ \/ loop' = "debounce" /\ at' = at
           \/ loop' = "pass" /\ at' = Ss
    BY <1>1, <1>t DEF TakePermit, Debounced, Tick
  <2>2. TypeOK'
    BY <2>1 DEF TypeOK, life, Ss, Drivers
  <2>3. Known'
    BY <2>1 DEF Known, life
  <2>4. NoLostWakeup'
    BY <1>t, <2>1 DEF NoLostWakeup, Behind, Ss, Drivers
  <2> QED
    BY <2>2, <2>3, <2>4
<1>2. CASE Visit
  <2>1. /\ UNCHANGED <<life, at, permit, writer, version, told>>
        /\ loop = "pass" /\ loop' = "sync" /\ at \in Enabled
        /\ asked' = [asked EXCEPT ![at] = version]
    BY <1>2 DEF Visit, Reads
  <2>2. TypeOK'
    BY <1>t, <2>1 DEF TypeOK, life
  <2>3. Known'
    BY <1>t, <2>1 DEF Known, life
  <2>4. \A t \in Enabled : Behind(t)' => Behind(t) /\ t # at
    BY <1>t, <2>1 DEF Behind
  <2>5. NoLostWakeup'
    <3>1. ASSUME ~permit', NEW t \in Enabled, Behind(t)' PROVE t > at'
      <4>1. Behind(t) /\ t # at /\ t >= at /\ t \in 1 .. 3 /\ at \in 1 .. 3
        BY <1>t, <2>1, <2>4, <3>1 DEF NoLostWakeup, Drivers
      <4> QED
        BY <2>1, <4>1
    <3> QED
      BY <2>1, <3>1 DEF NoLostWakeup
  <2> QED
    BY <2>2, <2>3, <2>5
<1>3. CASE Returned
  <2>1. /\ UNCHANGED <<life, permit, writer, version, told, asked>>
        /\ loop = "sync" \/ (loop = "pass" /\ at \notin Enabled)
        /\ \/ at = 3 /\ loop' = "select" /\ at' = at
           \/ at # 3 /\ loop' = "pass" /\ at' = at + 1
    BY <1>3 DEF Returned, Proxy
  <2>2. at' \in Drivers
    BY <1>t, <2>1 DEF Drivers
  <2>3. TypeOK'
    BY <2>1, <2>2 DEF TypeOK, life
  <2>4. Known'
    BY <2>1 DEF Known, life
  <2>5. ASSUME ~permit', NEW t \in Enabled, Behind(t)' PROVE t > at /\ t \in 1 .. 3 /\ at \in 1 .. 3
    <3>1. Behind(t) /\ ~permit /\ t \in 1 .. 3 /\ at \in 1 .. 3
      BY <1>t, <2>1, <2>5 DEF Behind, Drivers
    <3>2. CASE loop = "sync"
      BY <3>1, <3>2 DEF NoLostWakeup
    <3>3. CASE loop = "pass" /\ at \notin Enabled
      <4>1. t >= at /\ t # at
        BY <3>1, <3>3 DEF NoLostWakeup
      <4> QED
        BY <3>1, <4>1
    <3> QED
      BY <2>1, <3>2, <3>3
  <2>6. NoLostWakeup'
    BY <2>1, <2>5 DEF NoLostWakeup
  <2> QED
    BY <2>3, <2>4, <2>6
<1> QED
  BY <1>1, <1>2, <1>3 DEF Loop

LEMMA StepIInv == IInv /\ [Next]_vars => IInv'
<1> SUFFICES ASSUME IInv, [Next]_vars PROVE IInv'
  OBVIOUS
<1>1. CASE Boot
  BY <1>1, BootStep
<1>2. CASE Signal \/ Shutdown \/ ClosePool \/ Crash \/ Restart
  BY <1>2, LifeStep
<1>3. CASE Loop \/ Tick
  BY <1>3, LoopStep
<1>4. CASE \E w \in Writers : Commit(w) \/ DriverNotifies(w) \/ HandlerNotifies(w) \/ GiveUp(w)
  BY <1>4, WriterStep
<1>5. CASE \E r \in Reqs, t \in Enabled : Start(r, t) \/ Stop(r, t)
  BY <1>5, RequestStep
<1>6. CASE UNCHANGED vars
  BY <1>6 DEF vars, life, reconcile, IInv, TypeOK, Known, NoLostWakeup, Behind
<1> QED
  BY <1>1, <1>2, <1>3, <1>4, <1>5, <1>6 DEF Next

(* Every variable keeps its type.                                          *)
THEOREM RuntimeTypes == Spec => []TypeOK
<1>1. IInv => TypeOK
  BY DEF IInv
<1> QED
  BY <1>1, InitIInv, StepIInv, PTL DEF Spec

(* reconciler.rs 61-66, 92: no wake is lost, whatever the number of         *)
(* writers and whenever they notify.                                       *)
THEOREM NoWakeupIsLost == Spec => []NoLostWakeup
<1>1. IInv => NoLostWakeup
  BY DEF IInv
<1> QED
  BY <1>1, InitIInv, StepIInv, PTL DEF Spec

(* A wake tells of a change between the newest told of and the newest.     *)
LEMMA WakeIsTell ==
  ASSUME IInv, NEW w \in Writers, DriverNotifies(w) \/ HandlerNotifies(w)
  PROVE  [C!Next]_(C!vars)
<1>1. /\ told \in 0 .. MaxVersion /\ version \in 0 .. MaxVersion /\ told <= version
      /\ writer[w].change \in 0 .. MaxVersion /\ writer[w].change <= version
  BY DEF IInv, TypeOK, Known
<1>2. UNCHANGED <<version, asked>> /\ (told' = told \/ told' = Larger(told, writer[w].change))
  BY DEF DriverNotifies, HandlerNotifies, Notify
<1>3. told' \in told .. version
  BY RuntimeAssumption, <1>1, <1>2 DEF Larger
<1>4. C!Tell
  BY <1>2, <1>3 DEF C!Tell
<1> QED
  BY <1>4 DEF C!Next

LEMMA StepImplements == IInv /\ [Next]_vars => [C!Next]_(C!vars)
<1> SUFFICES ASSUME IInv, [Next]_vars PROVE [C!Next]_(C!vars)
  OBVIOUS
<1>1. CASE Exit
  BY <1>1 DEF Exit, C!Next, C!Exit
<1>2. ASSUME UNCHANGED <<version, told>>,
             asked' = asked \/ \E t \in Enabled : asked' = [asked EXCEPT ![t] = version]
      PROVE  [C!Next]_(C!vars)
  BY <1>2 DEF C!Next, C!Ask, C!vars
<1>3. CASE Boot /\ ~Exit
  <2>1. UNCHANGED <<version, told>>
    BY <1>3 DEF Boot, BootWg, BootSs, BootProxy, BootReconciler, BootListener
  <2>2. asked' = asked \/ \E t \in Enabled : asked' = [asked EXCEPT ![t] = version]
    BY <1>3 DEF Boot, BootWg, BootSs, BootProxy, BootReconciler, BootListener, Reads
  <2> QED
    BY <1>2, <2>1, <2>2
<1>4. CASE Signal \/ Shutdown \/ ClosePool \/ Crash \/ Restart
  BY <1>1, <1>2, <1>4 DEF Signal, Shutdown, ClosePool, Crash, Restart
<1>5. CASE Loop \/ Tick
  BY <1>2, <1>5 DEF Loop, Tick, TakePermit, Debounced, Visit, Returned, Reads
<1>6. ASSUME NEW w \in Writers, Commit(w) \/ GiveUp(w) PROVE [C!Next]_(C!vars)
  <2>1. CASE Commit(w)
    BY <2>1 DEF Commit, C!Next, C!Commit
  <2>2. CASE GiveUp(w)
    BY <1>2, <2>2 DEF GiveUp
  <2> QED
    BY <1>6, <2>1, <2>2
<1>7. CASE \E r \in Reqs, t \in Enabled : Start(r, t) \/ Stop(r, t)
  BY <1>2, <1>7 DEF Start, Stop, Reads
<1>8. CASE UNCHANGED vars
  BY <1>8 DEF vars, C!vars
<1> QED
  BY <1>1, <1>3, <1>4, <1>5, <1>6, <1>7, <1>8, WakeIsTell DEF Next

(* The safety part of ImplementsConverge: every step of the process is one  *)
(* the promise of Converge allows, or none of its business.                *)
THEOREM RuntimeImplementsConverge == Spec => C!Init /\ [][C!Next]_(C!vars)
<1>1. Init => C!Init
  BY DEF Init, C!Init
<1> QED
  BY <1>1, InitIInv, StepIInv, StepImplements, PTL DEF Spec

(* Shutdown goes through the drivers in one order, and once it has begun    *)
(* nothing brings one up again.                                            *)
TakenDown ==
  /\ phase \in {"stop wg", "stop proxy", "close"} => plane[Ss] = "down"
  /\ phase = "close" => plane[Proxy] = "down"

LEMMA TakenDownStep == IInv /\ TakenDown /\ [Next]_vars => TakenDown'
<1> SUFFICES ASSUME IInv, TakenDown, [Next]_vars PROVE TakenDown'
  OBVIOUS
<1>1. plane \in [Drivers -> {"up", "down"}] /\ {Ss, Wg, Proxy} \subseteq Drivers
  BY DEF IInv, TypeOK, Ss, Wg, Proxy, Drivers
<1>2. CASE phase' \notin {"stop wg", "stop proxy", "close"}
  BY <1>2 DEF TakenDown
<1>3. CASE Shutdown
  <2>1. /\ phase = "stop ss" => phase' = "stop wg" /\ plane'[Ss] = "down"
        /\ phase = "stop wg" => phase' = "stop proxy" /\ plane'[Ss] = plane[Ss]
        /\ phase = "stop proxy" => /\ phase' = "close" /\ plane'[Ss] = plane[Ss]
                                  /\ plane'[Proxy] = "down"
    <3>1. phase = "stop ss" => Stopping[phase] = Ss /\ After(phase) = "stop wg"
      BY DEF Stopping, After
    <3>2. phase = "stop wg" => Stopping[phase] = Wg /\ After(phase) = "stop proxy"
      BY DEF Stopping, After
    <3>3. phase = "stop proxy" => Stopping[phase] = Proxy /\ After(phase) = "close"
      BY DEF Stopping, After
    <3>4. Ss # Wg /\ Ss # Proxy /\ Wg # Proxy
      BY DEF Ss, Wg, Proxy
    <3> QED
      BY <1>1, <1>3, <3>1, <3>2, <3>3, <3>4 DEF Shutdown, Brings
  <2>2. phase \in {"stop ss", "stop wg", "stop proxy"}
    BY <1>3 DEF Shutdown, Stopping
  <2> QED
    BY <2>1, <2>2 DEF TakenDown
<1>4. CASE UNCHANGED <<phase, plane>>
  BY <1>4 DEF TakenDown
<1>5. phase' \in {"stop wg", "stop proxy", "close"} => Shutdown \/ UNCHANGED <<phase, plane>>
  <2>1. CASE Boot \/ Signal \/ ClosePool \/ Crash \/ Restart
    BY <2>1 DEF Boot, BootWg, BootSs, BootProxy, BootReconciler, BootListener, Exit, Signal, ClosePool,
                Crash, Restart
  <2>2. CASE Loop \/ Tick
    BY <2>2 DEF Loop, TakePermit, Debounced, Visit, Returned, Tick, life
  <2>3. ASSUME NEW w \in Writers, Commit(w) \/ DriverNotifies(w) \/ HandlerNotifies(w) \/ GiveUp(w)
        PROVE  UNCHANGED <<phase, plane>>
    BY <2>3 DEF Commit, DriverNotifies, HandlerNotifies, GiveUp, life
  <2>4. ASSUME NEW r \in Reqs, NEW t \in Enabled, Start(r, t) \/ Stop(r, t)
        PROVE  phase' = "serve"
    BY <2>4, RuntimeAssumption DEF Start, Stop, Serving
  <2>5. CASE UNCHANGED vars
    BY <2>5 DEF vars, life
  <2> QED
    BY <2>1, <2>2, <2>3, <2>4, <2>5 DEF Next
<1> QED
  BY <1>2, <1>3, <1>4, <1>5

(* server.rs 70-97: when the pool is closed no driver that reads the        *)
(* tables to let a client in is up.                                        *)
THEOREM DriversGoFirst == Spec => []PoolOutlivesDrivers
<1>1. Init => TakenDown
  BY DEF Init, TakenDown
<1>2. TakenDown => PoolOutlivesDrivers
  BY DEF TakenDown, PoolOutlivesDrivers
<1> QED
  BY <1>1, <1>2, InitIInv, StepIInv, TakenDownStep, PTL DEF Spec
=============================================================================
