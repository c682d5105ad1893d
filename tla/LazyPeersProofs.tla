-------------------------- MODULE LazyPeersProofs --------------------------
(* TLAPS proofs about LazyPeers: its types, and that no eviction outlives  *)
(* the device, wherever starts and stops are dropped.                      *)
EXTENDS LazyPeers, TLAPS

(* A caller never ends with the removal itself: forgetting the key follows, *)
(* and is skipped with it when the removal fails.                          *)
Script(s) ==
  /\ s \in Seq(Call) /\ Len(s) <= 4
  /\ \A n \in 1 .. Len(s) : s[n].do = "unplug" => n < Len(s)

Work == [out : SUBSET Keys, in : SUBSET Keys]

(* The steps of a start or a stop, in their order: the loop is spawned     *)
(* right after the device got its place, and the slots are emptied only by *)
(* a stop that has waited for the loop, or found no handle of one.         *)
Path(s) ==
  /\ s \in Seq(Steps) /\ Len(s) <= 4
  /\ \A n \in 1 .. Len(s) :
       /\ s[n] = "hold" => n = 1
       /\ s[n] = "cancel" => n < Len(s) /\ s[n + 1] = "await"
       /\ n < Len(s) /\ s[n + 1] = "place" => s[n] = "hold"
       /\ n < Len(s) /\ s[n + 1] = "spawn" => s[n] = "place"
       /\ n < Len(s) /\ s[n + 1] = "clear" => s[n] = "await"

(* The loop and the device.  A loop that is on has the driver's device and *)
(* no stop is about to take it away; one that was cancelled is waited for, *)
(* or was by a stop that was dropped.                                      *)
Loop ==
  /\ evictor = "none" => Free("evict")
  /\ evictor = "on" => device /\ ~Takes("clear")
  /\ Takes("hold") \/ Takes("place") => tun
  /\ Takes("spawn") => device
  /\ evictor \in {"cancelled", "last"} => abandoned \/ (device /\ Takes("await"))

(* TypeOK with the form of the scripts and of the steps, and Loop.         *)
IInv ==
  /\ TypeOK
  /\ DOMAIN calls = Callers /\ \A c \in Callers : Script(calls[c])
  /\ Path(life) /\ Loop

LEMMA Scripts ==
  /\ Script(<<>>)
  /\ \A k \in Keys : /\ Script(<<C("insert", k), C("plug", k), C("note", k)>>)
                     /\ Script(<<C("unplug", k), C("forget", k), C("erase", k)>>)
                     /\ Script(<<C("unplug", k), C("forget", k)>>)
                     /\ Script(<<C("plug", k), C("note", k)>>)
  /\ \A k, new \in Keys : Script(<<C("unplug", k), C("forget", k), C("plug", new), C("note", new)>>)
BY DEF Script, C, Call

LEMMA TailFacts ==
  ASSUME NEW t \in Seq(Call), Len(t) # 0
  PROVE  /\ Tail(t) \in Seq(Call) /\ Len(Tail(t)) = Len(t) - 1
         /\ \A n \in 1 .. Len(t) - 1 : Tail(t)[n] = t[n + 1]
<1>1. t # <<>>
  OBVIOUS
<1> QED
  BY <1>1

LEMMA ScriptTail ==
  ASSUME NEW s, Script(s), s # <<>>
  PROVE  /\ Script(Tail(s)) /\ Head(s) \in Call
         /\ Head(s).do = "unplug" => Script(Tail(Tail(s)))
<1>1. s \in Seq(Call) /\ Len(s) \in Nat /\ Len(s) > 0 /\ Head(s) = s[1] /\ Head(s) \in Call
  BY DEF Script
<1>2. /\ Tail(s) \in Seq(Call) /\ Len(Tail(s)) = Len(s) - 1
      /\ \A n \in 1 .. Len(s) - 1 : Tail(s)[n] = s[n + 1]
  BY <1>1
<1>3. Script(Tail(s))
  BY <1>1, <1>2 DEF Script
<1>4. ASSUME Head(s).do = "unplug" PROVE Script(Tail(Tail(s)))
  <2>1. Len(s) > 1
    BY <1>1, <1>4 DEF Script
  <2>2. Len(Tail(s)) \in Nat /\ Len(Tail(s)) # 0
    BY <1>1, <1>2, <2>1
  <2>3. /\ Tail(Tail(s)) \in Seq(Call) /\ Len(Tail(Tail(s))) = Len(Tail(s)) - 1
        /\ \A n \in 1 .. Len(Tail(s)) - 1 : Tail(Tail(s))[n] = Tail(s)[n + 1]
    BY <1>2, <2>2, TailFacts
  <2>4. ASSUME NEW n \in 1 .. Len(Tail(s)) - 1, Tail(Tail(s))[n].do = "unplug" PROVE n < Len(Tail(s)) - 1
    <3>1. n + 1 \in 1 .. Len(Tail(s)) /\ Tail(s)[n + 1].do = "unplug"
      BY <1>1, <1>2, <2>3, <2>4
    <3> QED
      BY <1>1, <1>2, <1>3, <3>1 DEF Script
  <2> QED
    BY <1>1, <1>2, <2>3, <2>4 DEF Script
<1> QED
  BY <1>1, <1>3, <1>4

(* TypeOK of the calls follows from their form.                            *)
LEMMA ScriptTypes ==
  ASSUME NEW s, Script(s)
  PROVE  Len(s) <= 4 /\ \A n \in DOMAIN s : s[n] \in Call
BY DEF Script

LEMMA NotEmpty ==
  ASSUME NEW S, NEW t \in Seq(S), Len(t) # 0
  PROVE  t # <<>>
OBVIOUS

LEMMA PathTail ==
  ASSUME NEW s, Path(s), s # <<>>
  PROVE  /\ Path(Tail(s)) /\ Tail(s) \in Seq(Steps) /\ Len(Tail(s)) <= 4
         /\ Tail(s) # <<>> => Head(Tail(s)) # "hold"
         /\ Tail(s) # <<>> /\ Head(Tail(s)) = "place" => Head(s) = "hold"
         /\ Tail(s) # <<>> /\ Head(Tail(s)) = "spawn" => Head(s) = "place"
         /\ Tail(s) # <<>> /\ Head(Tail(s)) = "clear" => Head(s) = "await"
         /\ Head(s) = "cancel" => Tail(s) # <<>> /\ Head(Tail(s)) = "await"
<1>1. s \in Seq(Steps) /\ Len(s) \in Nat /\ Len(s) > 0 /\ Len(s) <= 4 /\ Head(s) = s[1]
  BY DEF Path
<1>2. /\ Tail(s) \in Seq(Steps) /\ Len(Tail(s)) = Len(s) - 1
      /\ \A n \in 1 .. Len(s) - 1 : Tail(s)[n] = s[n + 1]
  BY <1>1
<1>3. \A n \in 1 .. Len(s) :
        /\ s[n] = "hold" => n = 1
        /\ s[n] = "cancel" => n < Len(s) /\ s[n + 1] = "await"
        /\ n < Len(s) /\ s[n + 1] = "place" => s[n] = "hold"
        /\ n < Len(s) /\ s[n + 1] = "spawn" => s[n] = "place"
        /\ n < Len(s) /\ s[n + 1] = "clear" => s[n] = "await"
  BY DEF Path
<1>4. ASSUME NEW n \in 1 .. Len(Tail(s))
      PROVE  /\ Tail(s)[n] # "hold"
             /\ Tail(s)[n] = "cancel" => n < Len(Tail(s)) /\ Tail(s)[n + 1] = "await"
             /\ n < Len(Tail(s)) /\ Tail(s)[n + 1] = "place" => Tail(s)[n] = "hold"
             /\ n < Len(Tail(s)) /\ Tail(s)[n + 1] = "spawn" => Tail(s)[n] = "place"
             /\ n < Len(Tail(s)) /\ Tail(s)[n + 1] = "clear" => Tail(s)[n] = "await"
  <2>1. n + 1 \in 1 .. Len(s) /\ n \in 1 .. Len(s) - 1 /\ Tail(s)[n] = s[n + 1]
    BY <1>1, <1>2
  <2>2. n + 1 < Len(s) => n + 1 \in 1 .. Len(s) - 1 /\ Tail(s)[n + 1] = s[n + 1 + 1]
    BY <1>1, <1>2, <2>1
  <2> QED
    BY <1>1, <1>2, <1>3, <2>1, <2>2
<1>5. Path(Tail(s))
  BY <1>1, <1>2, <1>4 DEF Path
<1>6. Tail(s) # <<>> => Head(Tail(s)) = s[2] /\ 1 < Len(s)
  BY <1>1, <1>2
<1>7. Len(s) > 1 => Tail(s) # <<>>
  <2>1. Len(s) > 1 => Len(Tail(s)) # 0
    BY <1>1, <1>2
  <2> QED
    BY <1>2, <2>1, NotEmpty
<1> QED
  BY <1>1, <1>2, <1>3, <1>5, <1>6, <1>7

LEMMA Paths == Path(<<>>) /\ Path(Bring) /\ Path(Leave) /\ Path(<<"start">>) /\ Path(<<"clear", "release">>)
BY DEF Path, Bring, Leave, Steps

LEMMA InitIInv == Init => IInv
<1> SUFFICES ASSUME Init PROVE IInv
  OBVIOUS
<1>1. \A c \in Callers : calls[c] = <<>> /\ Script(calls[c])
  BY Scripts DEF Init
<1>2. \A c \in Callers : Len(calls[c]) <= 4 /\ \A n \in DOMAIN calls[c] : calls[c][n] \in Call
  BY <1>1, ScriptTypes
<1>3. 0 \in 0 .. MaxWrites /\ 0 \in 0 .. MaxFaults
  BY LazyAssumption
<1>4. TypeOK
  <2>1. life \in Seq(Steps) /\ Len(life) <= 4
    BY Paths DEF Init, Path
  <2> QED
    BY <1>2, <1>3, <2>1 DEF Init, TypeOK, Quiet, Absent, Stages
<1>5. DOMAIN calls = Callers /\ Path(life) /\ Loop
  BY Paths DEF Init, Loop, Takes, Free, Callers
<1> QED
  BY <1>1, <1>4, <1>5 DEF IInv

(* What an action leaves of the calls, of the lists of work and of the     *)
(* driver.                                                                 *)
LEMMA CallsAlone ==
  ASSUME IInv, UNCHANGED <<calls, todo, driver>>
  PROVE  /\ DOMAIN calls' = Callers /\ \A c \in Callers : Script(calls'[c])
         /\ \A c \in Callers : Len(calls'[c]) <= 4 /\ \A n \in DOMAIN calls'[c] : calls'[c][n] \in Call
         /\ Path(life') /\ Loop'
BY DEF IInv, TypeOK, Loop, Free, Takes, driver, slots

(* One caller's script may change, as long as it stays one.                *)
LEMMA CallsChange ==
  ASSUME IInv, NEW c \in Callers, NEW s, Script(s), calls' = [calls EXCEPT ![c] = s],
         todo' \in [Callers -> Work], UNCHANGED driver,
         c # "evict" => todo'["evict"] = todo["evict"],
         c = "evict" => evictor # "none"
  PROVE  /\ DOMAIN calls' = Callers /\ \A d \in Callers : Script(calls'[d])
         /\ \A d \in Callers : Len(calls'[d]) <= 4 /\ \A n \in DOMAIN calls'[d] : calls'[d][n] \in Call
         /\ Path(life') /\ Loop'
<1>1. DOMAIN calls' = Callers /\ \A d \in Callers : Script(calls'[d])
  BY DEF IInv
<1>2. \A d \in Callers : Len(calls'[d]) <= 4 /\ \A n \in DOMAIN calls'[d] : calls'[d][n] \in Call
  BY <1>1, ScriptTypes
<1>3. "evict" \in Callers
  BY DEF Callers
<1>4. UNCHANGED <<device, evictor, tun, life, abandoned>>
  BY DEF driver, slots
<1>5. evictor = "none" => UNCHANGED <<calls["evict"], todo["evict"]>>
  BY <1>3 DEF IInv
<1>6. Path(life') /\ Loop'
  BY <1>4, <1>5 DEF IInv, Loop, Free, Takes
<1> QED
  BY <1>1, <1>2, <1>6

LEMMA ReceiveStep ==
  ASSUME IInv, UNCHANGED scope, NEW k \in Keys, Receive(k) \/ Resolve(k) \/ LookupFails(k) \/ Age(k)
  PROVE  IInv'
<1>1. UNCHANGED <<calls, todo, driver, rows, writes>>
  BY DEF Receive, Resolve, TakeFlight, Lookup, AddFound, NoteFound, LookupFails, Age, bounds
<1>2. /\ DOMAIN calls' = Callers /\ \A c \in Callers : Script(calls'[c])
      /\ \A c \in Callers : Len(calls'[c]) <= 4 /\ \A n \in DOMAIN calls'[c] : calls'[c][n] \in Call
      /\ Path(life') /\ Loop'
  BY <1>1, CallsAlone
<1>3. TypeOK
  BY DEF IInv
<1>4. IpOf[k] \in Ips
  BY LazyAssumption
<1>5. faults' \in 0 .. MaxFaults
  BY <1>3, LazyAssumption
     DEF Receive, Resolve, TakeFlight, Lookup, AddFound, NoteFound, LookupFails, Age, bounds, Fault, TypeOK
<1>6. checked' \subseteq Keys /\ installed' \subseteq Keys
  BY <1>3 DEF Receive, TryRegister, Resolve, TakeFlight, Lookup, AddFound, NoteFound, LookupFails, Age, TypeOK
<1>7. /\ peers' \in [Keys -> {Absent, "none", "recent", "old"}]
      /\ route' \in [Ips -> Keys \union {None}]
  <2>1. peers \in [Keys -> {Absent, "none", "recent", "old"}] /\ route \in [Ips -> Keys \union {None}]
    BY <1>3 DEF TypeOK
  <2>2. CASE Receive(k) \/ LookupFails(k) \/ Age(k)
    BY <2>1, <2>2 DEF Receive, LookupFails, Age, table
  <2>3. CASE Resolve(k)
    BY <1>4, <2>1, <2>3 DEF Resolve, TakeFlight, Lookup, AddFound, NoteFound, Plugged, table
  <2> QED
    BY <2>2, <2>3
<1>8. negative' \in [Keys -> {"none", "fresh", "expired"}] /\ task' \in [Keys -> Stages]
  <2>1. negative \in [Keys -> {"none", "fresh", "expired"}] /\ task \in [Keys -> Stages]
    BY <1>3 DEF TypeOK
  <2>2. CASE Receive(k) \/ LookupFails(k) \/ Age(k)
    BY <2>1, <2>2 DEF Receive, LookupFails, Age, Stages
  <2>3. CASE Resolve(k)
    BY <2>1, <2>3 DEF Resolve, TakeFlight, Lookup, AddFound, NoteFound, Stages
  <2> QED
    BY <2>2, <2>3
<1> QED
  BY <1>1, <1>2, <1>3, <1>5, <1>6, <1>7, <1>8 DEF IInv, TypeOK, driver, slots

LEMMA PerformStep ==
  ASSUME IInv, UNCHANGED scope, NEW c \in Callers, Perform(c)
  PROVE  IInv'
<1>1. UNCHANGED <<driver, negative, checked, task, todo, writes, faults>> /\ calls[c] # <<>>
  BY DEF Perform, bounds
<1>2. TypeOK /\ Script(calls[c])
  BY DEF IInv
<1> DEFINE k == Head(calls[c]).key
<1>3. /\ Head(calls[c]) \in Call /\ k \in Keys /\ IpOf[k] \in Ips
      /\ Script(Tail(calls[c])) /\ (Head(calls[c]).do = "unplug" => Script(Tail(Tail(calls[c]))))
      /\ Script(<<>>)
  BY <1>1, <1>2, ScriptTail, Scripts, LazyAssumption DEF Call
<1>4. InsertRow(c, k) \/ Plug(c, k) \/ Note(c, k) \/ (Head(calls[c]).do = "unplug" /\ Unplug(c, k))
        \/ Forget(c, k) \/ EraseRow(c, k)
  BY <1>1, <1>3 DEF Perform, Call
<1>5. \E s : Script(s) /\ calls' = [calls EXCEPT ![c] = s]
  <2>1. Continue(c) => calls' = [calls EXCEPT ![c] = Tail(calls[c])]
    BY DEF Continue
  <2>2. Drop(c) => calls' = [calls EXCEPT ![c] = <<>>]
    BY DEF Drop
  <2>3. CASE Continue(c) \/ Drop(c)
    <3>1. calls' = [calls EXCEPT ![c] = Tail(calls[c])] \/ calls' = [calls EXCEPT ![c] = <<>>]
      BY <2>1, <2>2, <2>3
    <3> QED
      BY <3>1, <1>3
  <2>4. CASE Head(calls[c]).do = "unplug" /\ Unplug(c, k) /\ ~Continue(c)
    <3>1. calls' = [calls EXCEPT ![c] = Tail(Tail(calls[c]))]
      BY <2>4 DEF Unplug
    <3> QED
      BY <3>1, <2>4, <1>3
  <2> QED
    BY <1>4, <2>3, <2>4 DEF InsertRow, Plug, Note, Unplug, Forget, EraseRow
<1>6. PICK s : Script(s) /\ calls' = [calls EXCEPT ![c] = s]
  BY <1>5
<1>7. c = "evict" => evictor # "none"
  BY <1>1 DEF IInv, Loop, Free
<1>8. todo' \in [Callers -> Work]
  BY <1>1, <1>2 DEF TypeOK, Work
<1>9. /\ DOMAIN calls' = Callers /\ \A d \in Callers : Script(calls'[d])
      /\ \A d \in Callers : Len(calls'[d]) <= 4 /\ \A n \in DOMAIN calls'[d] : calls'[d][n] \in Call
      /\ Path(life') /\ Loop'
  BY <1>1, <1>6, <1>7, <1>8, CallsChange
<1>10. rows' \subseteq Keys /\ installed' \subseteq Keys
  BY <1>2, <1>3, <1>4 DEF TypeOK, InsertRow, Plug, Note, Unplug, Forget, EraseRow
<1>11. UNCHANGED table \/ Plugged(k, "none") \/ Unplugged(k)
  BY <1>4 DEF InsertRow, Plug, Note, Unplug, Forget, EraseRow
<1>12. peers' \in [Keys -> {Absent, "none", "recent", "old"}] /\ route' \in [Ips -> Keys \union {None}]
  BY <1>2, <1>3, <1>11 DEF TypeOK, table, Plugged, Unplugged
<1> QED
  BY <1>1, <1>2, <1>9, <1>10, <1>12 DEF IInv, TypeOK, driver, slots

LEMMA RequestStep ==
  ASSUME IInv, UNCHANGED scope, Request
  PROVE  IInv'
<1>1. UNCHANGED <<driver, peers, route, installed, negative, checked, task, todo>>
  BY DEF Request, Enable, Disable, Cascade, Rotate, GiveUp, Ask, table, context
<1>2. TypeOK /\ Asked \subseteq Keys
  BY LazyAssumption DEF IInv, Asked
<1>3. rows' \subseteq Keys
  BY <1>2 DEF Request, Enable, Disable, Cascade, Rotate, GiveUp, Ask, TypeOK
<1>4. writes' \in 0 .. MaxWrites /\ faults' \in 0 .. MaxFaults
  BY <1>2, LazyAssumption DEF Request, Enable, Disable, Cascade, Rotate, GiveUp, Ask, Fault, TypeOK
<1>5. todo' \in [Callers -> Work] /\ "request" \in Callers
  BY <1>1, <1>2 DEF TypeOK, Work, Callers
<1>6. UNCHANGED calls \/ \E s : Script(s) /\ calls' = [calls EXCEPT !["request"] = s]
  <2>1. CASE GiveUp
    BY <2>1, Scripts DEF GiveUp, Drop
  <2>2. CASE \E k \in Asked : Enable(k) \/ Disable(k) \/ Cascade(k)
    BY <2>2, <1>2, Scripts DEF Enable, Disable, Cascade, Ask
  <2>3. CASE \E k, new \in Asked : Rotate(k, new)
    <3>1. PICK k \in Asked, new \in Asked : Rotate(k, new)
      BY <2>3
    <3>2. calls' = [calls EXCEPT !["request"] =
                 <<C("unplug", k), C("forget", k), C("plug", new), C("note", new)>>]
      BY <3>1 DEF Rotate
    <3>3. Script(<<C("unplug", k), C("forget", k), C("plug", new), C("note", new)>>)
      BY <1>2, Scripts
    <3> QED
      BY <3>2, <3>3
  <2> QED
    BY <2>1, <2>2, <2>3 DEF Request
<1>7. /\ DOMAIN calls' = Callers /\ \A d \in Callers : Script(calls'[d])
      /\ \A d \in Callers : Len(calls'[d]) <= 4 /\ \A n \in DOMAIN calls'[d] : calls'[d][n] \in Call
      /\ Path(life') /\ Loop'
  <2>1. CASE UNCHANGED calls
    BY <1>1, <2>1, CallsAlone
  <2>2. CASE \E s : Script(s) /\ calls' = [calls EXCEPT !["request"] = s]
    <3>1. PICK s : Script(s) /\ calls' = [calls EXCEPT !["request"] = s]
      BY <2>2
    <3> QED
      BY <1>1, <1>5, <3>1, CallsChange
  <2> QED
    BY <1>6, <2>1, <2>2
<1> QED
  BY <1>1, <1>2, <1>3, <1>4, <1>7 DEF IInv, TypeOK, driver, slots

LEMMA ListStep ==
  ASSUME IInv, UNCHANGED scope, SyncList \/ EvictList \/ \E c \in Callers : Pick(c)
  PROVE  IInv'
<1>1. UNCHANGED <<rows, started, device, ctx, tun, peers, route, installed, checked, task, life, abandoned, writes, faults>>
  BY DEF SyncList, EvictList, Pick, table, context, bounds, driver, slots
<1>2. TypeOK /\ Live \subseteq Keys /\ "evict" \in Callers /\ "sync" \in Callers
  BY DEF IInv, Live, Callers
<1>3. negative' \in [Keys -> {"none", "fresh", "expired"}]
  BY <1>2 DEF SyncList, EvictList, Pick, context, TypeOK
<1>4. CASE SyncList \/ EvictList
  <2>1. UNCHANGED calls
    BY <1>4 DEF SyncList, EvictList
  <2>2. todo' \in [Callers -> Work]
    BY <1>2, <1>4 DEF SyncList, EvictList, TypeOK, Work
  <2>3. \/ UNCHANGED evictor /\ todo'["evict"] = todo["evict"]
        \/ evictor = "on" /\ evictor' = "on"
        \/ evictor = "cancelled" /\ evictor' = "last"
    BY <1>2, <1>4 DEF SyncList, EvictList, TypeOK, driver, slots
  <2>4. Loop' /\ evictor' \in {"none", "on", "cancelled", "last"}
    BY <1>1, <1>2, <2>1, <2>3 DEF IInv, TypeOK, Loop, Free, Takes
  <2> QED
    BY <1>1, <1>2, <1>3, <2>1, <2>2, <2>4 DEF IInv, TypeOK, Work
<1>5. ASSUME NEW c \in Callers, Pick(c) PROVE IInv'
  <2>1. PICK k \in todo[c].out \union todo[c].in :
          \/ /\ todo' = [todo EXCEPT ![c].out = @ \ {k}]
             /\ calls' = [calls EXCEPT ![c] = <<C("unplug", k), C("forget", k)>>]
          \/ /\ todo' = [todo EXCEPT ![c].in = @ \ {k}]
             /\ calls' = [calls EXCEPT ![c] = <<C("plug", k), C("note", k)>>]
    BY <1>5 DEF Pick
  <2>2. todo[c] \in Work /\ k \in Keys
    BY <1>2 DEF TypeOK, Work
  <2>3. (c = "evict" => evictor # "none") /\ UNCHANGED driver
    BY <1>5, <2>1 DEF IInv, Loop, Free, Quiet, Pick
  <2>4. todo' \in [Callers -> Work] /\ (c # "evict" => todo'["evict"] = todo["evict"])
    <3>1. todo \in [Callers -> Work]
      BY <1>2 DEF TypeOK, Work
    <3>2. PICK w \in Work : todo' = [todo EXCEPT ![c] = w]
      <4>1. [todo[c] EXCEPT !.out = @ \ {k}] \in Work /\ [todo[c] EXCEPT !.in = @ \ {k}] \in Work
        BY <2>2 DEF Work
      <4>2. \/ todo' = [todo EXCEPT ![c] = [todo[c] EXCEPT !.out = @ \ {k}]]
            \/ todo' = [todo EXCEPT ![c] = [todo[c] EXCEPT !.in = @ \ {k}]]
        BY <2>1, <3>1
      <4> QED
        BY <4>1, <4>2
    <3> QED
      BY <1>2, <3>1, <3>2
  <2>5. \E s : Script(s) /\ calls' = [calls EXCEPT ![c] = s]
    BY <2>1, <2>2, Scripts
  <2>6. PICK s : Script(s) /\ calls' = [calls EXCEPT ![c] = s]
    BY <2>5
  <2>7. /\ DOMAIN calls' = Callers /\ \A d \in Callers : Script(calls'[d])
        /\ \A d \in Callers : Len(calls'[d]) <= 4 /\ \A n \in DOMAIN calls'[d] : calls'[d][n] \in Call
        /\ Path(life') /\ Loop'
    BY <2>3, <2>4, <2>6, CallsChange
  <2> QED
    BY <1>1, <1>2, <1>3, <2>3, <2>4, <2>7 DEF IInv, TypeOK, Work, driver, slots
<1> QED
  BY <1>4, <1>5

LEMMA LifeStep ==
  ASSUME IInv, UNCHANGED scope, Start \/ Stop \/ Proceed \/ Abandon \/ EvictionBreaks
  PROVE  IInv'
<1>1. TypeOK /\ Path(life) /\ Loop /\ DOMAIN calls = Callers /\ \A c \in Callers : Script(calls[c])
  BY DEF IInv
<1>2. UNCHANGED <<rows, checked, task, todo, calls, writes>>
  BY DEF Start, Stop, Proceed, Abandon, EvictionBreaks, table, context, bounds
<1>3. /\ UNCHANGED <<peers, route, installed, negative>> \/ (EmptyTable /\ NewContext)
      /\ faults' \in 0 .. MaxFaults
  BY <1>1, LazyAssumption DEF Start, Stop, Proceed, Abandon, EvictionBreaks, table, context, bounds, Fault, TypeOK
<1>4. /\ peers' \in [Keys -> {Absent, "none", "recent", "old"}] /\ route' \in [Ips -> Keys \union {None}]
      /\ installed' \subseteq Keys /\ negative' \in [Keys -> {"none", "fresh", "expired"}]
  BY <1>1, <1>3 DEF TypeOK, EmptyTable, NewContext, Absent
<1>5. SUFFICES /\ {started', device', ctx', tun', abandoned'} \subseteq BOOLEAN
               /\ evictor' \in {"none", "on", "cancelled", "last"} /\ Path(life') /\ Loop' /\ (device' => tun')
  <2>1. life' \in Seq(Steps) /\ Len(life') <= 4
    BY <1>5 DEF Path
  <2> QED
    BY <1>1, <1>2, <1>3, <1>4, <1>5, <2>1 DEF IInv, TypeOK
<1>6. CASE Start
  <2>1. UNCHANGED <<started, slots, abandoned>> /\ tun' \in BOOLEAN /\ (tun => tun')
    <3>1. tun \in BOOLEAN
      BY <1>1 DEF TypeOK
    <3>2. UNCHANGED <<started, slots, abandoned>>
      BY <1>6 DEF Start
    <3>3. UNCHANGED tun \/ tun' = TRUE
      BY <1>6 DEF Start
    <3> QED
      BY <3>1, <3>2, <3>3
  <2>2. life' = <<"start">> \/ life' = Bring
    BY <1>6 DEF Start
  <2>3. Path(life') /\ life' # <<>> /\ Head(life') \in {"start", "hold"} /\ life = <<>>
    BY <1>6, <2>2, Paths DEF Bring, Start
  <2>4. Head(life') = "hold" => tun'
    BY <1>6 DEF Start
  <2>5. Loop'
    BY <1>1, <1>2, <2>1, <2>3, <2>4 DEF Loop, Takes, Free, slots
  <2> QED
    BY <1>1, <2>1, <2>3, <2>5 DEF TypeOK, slots
<1>7. CASE Stop
  <2>1. UNCHANGED <<slots, tun, abandoned>> /\ started' = FALSE /\ life = <<>> /\ life' = Leave
    BY <1>7 DEF Stop
  <2>2. Path(life') /\ life' # <<>> /\ Head(life') = "cancel"
    BY <2>1, Paths DEF Leave
  <2>3. Loop'
    BY <1>1, <1>2, <2>1, <2>2 DEF Loop, Takes, Free, slots
  <2> QED
    BY <1>1, <2>1, <2>2, <2>3 DEF TypeOK, slots
<1>8. CASE Proceed
  <2>1. UNCHANGED <<tun, abandoned>> /\ life # <<>>
    BY <1>8 DEF Proceed, Fill, Cancel, Empty, Takes
  <2>2. Path(life')
    BY <1>1, <1>8, <2>1, PathTail, Paths DEF Proceed, Fill, Cancel, Empty
  <2>3. ASSUME life' = Tail(life)
        PROVE  /\ life' # <<>> => Head(life') # "hold"
               /\ life' # <<>> /\ Head(life') = "place" => Head(life) = "hold"
               /\ life' # <<>> /\ Head(life') = "spawn" => Head(life) = "place"
               /\ life' # <<>> /\ Head(life') = "clear" => Head(life) = "await"
               /\ Head(life) = "cancel" => life' # <<>> /\ Head(life') = "await"
    BY <1>1, <2>1, <2>3, PathTail
  <2>4. CASE Fill
    <3>1. life' = Tail(life) /\ ~Takes("cancel") /\ ~Takes("clear") /\ ~Takes("await")
      BY <2>1, <2>4 DEF Fill, Takes, slots
    <3>2. /\ ~Takes("clear")' /\ ~Takes("hold")'
          /\ Takes("spawn")' => Takes("place")
          /\ Takes("place")' => Takes("hold")
      BY <2>1, <2>3, <3>1 DEF Takes
    <3>3. \/ Takes("hold") /\ ctx' = TRUE /\ UNCHANGED <<started, device, evictor>>
          \/ Takes("place") /\ device' = TRUE /\ UNCHANGED <<started, ctx, evictor>>
          \/ Takes("spawn") /\ evictor' = "on" /\ UNCHANGED <<started, device, ctx>>
          \/ Takes("start") /\ started' = TRUE /\ UNCHANGED <<device, ctx, evictor>>
      BY <2>4 DEF Fill, slots
    <3>4. device => device'
      BY <3>3
    <3>5. Takes("spawn")' => device'
      BY <3>2, <3>3 DEF Takes
    <3>6. Loop'
      BY <1>1, <1>2, <2>1, <3>1, <3>2, <3>3, <3>4, <3>5 DEF Loop, Free
    <3>7. /\ {started', device', ctx'} \subseteq BOOLEAN
          /\ evictor' \in {"none", "on", "cancelled", "last"} /\ (device' => tun')
      <4>1. {started, device, ctx} \subseteq BOOLEAN /\ evictor \in {"none", "on", "cancelled", "last"} /\ (device => tun)
        BY <1>1 DEF TypeOK
      <4>2. Takes("place") => tun
        BY <1>1 DEF Loop
      <4>3. device' => tun'
        BY <4>1, <4>2, <2>1, <3>3
      <4> QED
        BY <4>1, <4>3, <3>3
    <3> QED
      BY <1>1, <2>1, <2>2, <3>6, <3>7 DEF TypeOK
  <2>5. CASE Cancel
    <3>1. UNCHANGED <<started, device, ctx>> /\ Takes("cancel")
      BY <2>5 DEF Cancel
    <3>2. CASE evictor = "on"
      <4>1. evictor' \in {"cancelled", "last"} /\ life' = Tail(life) /\ device
        BY <1>1, <2>5, <3>2 DEF Cancel, Loop
      <4>2. Takes("await")' /\ ~Takes("spawn")' /\ ~Takes("hold")' /\ ~Takes("place")'
        BY <2>3, <3>1, <4>1 DEF Takes
      <4> QED
        BY <1>1, <1>2, <2>1, <2>2, <3>1, <4>1, <4>2 DEF Loop, TypeOK
    <3>3. CASE evictor # "on"
      <4>1. UNCHANGED evictor /\ life' = <<"clear", "release">>
        BY <2>5, <3>3 DEF Cancel
      <4>2. ~Takes("spawn")' /\ ~Takes("hold")' /\ ~Takes("place")' /\ ~Takes("await")
        BY <3>1, <4>1 DEF Takes
      <4> QED
        BY <1>1, <1>2, <2>1, <2>2, <3>1, <3>3, <4>1, <4>2 DEF Loop, TypeOK, Free
    <3> QED
      BY <3>2, <3>3
  <2>6. CASE Empty
    <3>1. UNCHANGED <<started, evictor>> /\ life' = Tail(life) /\ device' \in BOOLEAN /\ ctx' \in BOOLEAN
      BY <1>1, <2>6 DEF Empty, TypeOK
    <3>2. /\ Takes("await") => evictor = "none" /\ UNCHANGED device
          /\ ~Takes("clear") => UNCHANGED device
          /\ Takes("clear") => device' = FALSE
          /\ Takes("await") \/ Takes("clear") \/ Takes("release")
      BY <2>6 DEF Empty, Takes
    <3>3. ~Takes("spawn")' /\ ~Takes("hold")' /\ ~Takes("place")' /\ (Takes("clear")' => Takes("await"))
      BY <2>1, <2>3, <3>1, <3>2 DEF Takes
    <3> QED
      BY <1>1, <1>2, <2>1, <2>2, <3>1, <3>2, <3>3 DEF Loop, TypeOK, Free
  <2> QED
    BY <1>8, <2>4, <2>5, <2>6 DEF Proceed
<1>9. CASE Abandon
  <2>1. UNCHANGED <<started, slots, tun>> /\ life' = <<>> /\ abandoned' = (abandoned \/ Takes("await"))
    BY <1>9 DEF Abandon
  <2>2. Loop' /\ abandoned' \in BOOLEAN
    BY <1>1, <1>2, <2>1 DEF Loop, Takes, Free, slots, TypeOK
  <2> QED
    BY <1>1, <2>1, <2>2, Paths DEF TypeOK, slots
<1>10. CASE EvictionBreaks
  <2>1. UNCHANGED <<started, device, ctx, tun, life, abandoned>> /\ evictor' = "none" /\ Free("evict")
    BY <1>10 DEF EvictionBreaks
  <2>2. Loop'
    BY <1>1, <1>2, <2>1 DEF Loop, Takes, Free
  <2> QED
    BY <1>1, <2>1, <2>2 DEF TypeOK
<1> QED
  BY <1>6, <1>7, <1>8, <1>9, <1>10

LEMMA CrashStep ==
  ASSUME IInv, UNCHANGED scope, Crash
  PROVE  IInv'
<1>1. TypeOK
  BY DEF IInv
<1>2. DOMAIN calls' = Callers /\ \A c \in Callers : calls'[c] = <<>> /\ Script(calls'[c])
  BY Scripts DEF Crash
<1>3. \A c \in Callers : Len(calls'[c]) <= 4 /\ \A n \in DOMAIN calls'[c] : calls'[c][n] \in Call
  BY <1>2, ScriptTypes
<1>4. /\ UNCHANGED <<rows, writes>> /\ started' = FALSE /\ device' = FALSE /\ ctx' = FALSE /\ tun' = FALSE
      /\ evictor' = "none" /\ abandoned' = FALSE /\ life' = <<>>
  BY DEF Crash
<1>5. todo' \in [Callers -> Work] /\ todo' = [c \in Callers |-> Quiet]
  BY DEF Crash, Quiet, Work
<1>6. Path(life') /\ Loop' /\ life' \in Seq(Steps) /\ Len(life') <= 4
  BY <1>2, <1>4, <1>5, Paths DEF Loop, Free, Takes, Callers, Path
<1>7. faults' \in 0 .. MaxFaults
  BY <1>1, LazyAssumption DEF TypeOK, Crash, Fault
<1>8. peers' \in [Keys -> {Absent, "none", "recent", "old"}] /\ route' \in [Ips -> Keys \union {None}]
  BY DEF Crash, EmptyTable, Absent
<1>9. /\ negative' \in [Keys -> {"none", "fresh", "expired"}] /\ task' \in [Keys -> Stages]
      /\ installed' = {} /\ checked' = {}
  BY DEF Crash, NewContext, Stages
<1> QED
  BY <1>1, <1>2, <1>3, <1>4, <1>5, <1>6, <1>7, <1>8, <1>9 DEF IInv, TypeOK, Work

LEMMA StepIInv == IInv /\ [Next /\ UNCHANGED scope]_vars => IInv'
<1> SUFFICES ASSUME IInv, [Next /\ UNCHANGED scope]_vars PROVE IInv'
  OBVIOUS
<1>1. CASE UNCHANGED vars
  <2>1. UNCHANGED <<calls, todo, driver>>
    BY <1>1 DEF vars, driver, slots
  <2> QED
    BY <1>1, <2>1, CallsAlone DEF vars, IInv, TypeOK
<1> QED
  BY <1>1, ReceiveStep, PerformStep, RequestStep, ListStep, LifeStep, CrashStep DEF Next

(* Every variable of LazyPeers keeps its type, and a device that the driver *)
(* has is one of this process.                                             *)
THEOREM LazyTypes == Spec => []TypeOK
<1>1. IInv => TypeOK
  BY DEF IInv
<1> QED
  BY <1>1, InitIInv, StepIInv, PTL DEF Spec

(* Wherever starts and stops are dropped, a driver without a device has no *)
(* eviction loop that goes on, and none at all unless a stop was dropped   *)
(* while it waited for it (down and spawn_eviction of userspace.rs).       *)
THEOREM EvictionNeverOutlives == Spec => []EvictionEnds
<1>1. IInv => EvictionEnds
  BY DEF IInv, TypeOK, Loop, EvictionEnds
<1> QED
  BY <1>1, InitIInv, StepIInv, PTL DEF Spec
=============================================================================
