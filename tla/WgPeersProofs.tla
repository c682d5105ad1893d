--------------------------- MODULE WgPeersProofs ----------------------------
(* TLAPS proofs about WgPeers and its allocator, for every set of users,   *)
(* subnets, keys and requests.                                             *)
EXTENDS WgPeers, WellFoundedInduction, TLAPS

(* An admin who sends one request at a time, or several who only enable    *)
(* and rotate: nobody replaces the allocator, or gives back the address of *)
(* a row, under an enable that is at work.                                 *)
SoloKinds == {"disable", "patch", "reload", "start", "stop"}
Orderly ==
  \A s \in Scopes : \/ \A q, r \in s.reqs : q = r
                    \/ s.kinds \intersect SoloKinds = {}

Positions ==
  {"idle", "allocate", "insert", "install", "release", "unplug", "delete", "rekey", "reread",
   "swap", "replace", "save", "subnet", "seed", "store", "list", "up", "mark", "down"}
Handlers ==
  [pc : Positions,
   user : Users \union {None}, key : ClientKeys \union {None},
   net : Subnets \union {None}, before : Subnets \union {None}, ip : Nat \union {None},
   row : Row \union {None}, new : Row \union {None}, rows : SUBSET Row, spawn : BOOLEAN]

(* What a handler carries at its position.                                 *)
Carries(h) ==
  /\ h.pc \in {"allocate", "insert"} => h.user \in Users
  /\ h.pc \in {"insert", "install", "release"} => h.ip \in Nat
  /\ h.pc \in {"install", "rekey", "reread", "swap", "replace"} => h.row \in Row
  /\ h.pc \in {"swap", "replace"} => h.new \in Row
  /\ h.pc = "store" => h.net \in Subnets

Allocators == [subnet : Subnets, used : SUBSET Nat]
Entries    == [psk : 1 .. MaxFresh, ip : Nat]

DbTypes ==
  /\ scope \in Scopes
  /\ users \subseteq scope.users /\ enabled \subseteq users /\ peers \subseteq Row
  /\ wanted \in Subnets \union {None} /\ fresh \in 0 .. MaxFresh
MemTypes ==
  /\ subnet \in Subnets \union {None} /\ started \in BOOLEAN
  /\ ipam # None => ipam \in Allocators /\ ipam.used \subseteq HostRange(ipam.subnet)
DeviceTypes ==
  /\ up \in BOOLEAN /\ DOMAIN dev \subseteq Keys /\ (~up => DOMAIN dev = {})
  /\ \A k \in DOMAIN dev : dev[k] \in Entries
ReqTypes ==
  /\ req \in [Reqs -> Handlers] /\ \A r \in Reqs : Carries(req[r])
SyncTypes ==
  sync \in [pc : {"work", "live"}, rows : SUBSET Row, gone : SUBSET Keys, missing : SUBSET Row]

Types == DbTypes /\ MemTypes /\ DeviceTypes /\ ReqTypes /\ SyncTypes

(* The requests that Orderly lets run only by themselves.                  *)
SoloPositions == {"unplug", "delete", "save", "subnet", "seed", "store", "list", "up", "mark", "down"}
Alone ==
  \A r \in Reqs :
    /\ req[r].pc # "idle" => r \in scope.reqs
    /\ req[r].pc \in SoloPositions => \A p, q \in scope.reqs : p = q

(* Between stop's first step and its last the driver is not started.       *)
Device ==
  /\ started => up
  /\ \A r \in Reqs : /\ req[r].pc = "mark" => up
                     /\ req[r].pc = "down" => ~started

Leased(ip) == ip \in IpsOf(peers)
Marked(ip) == ipam # None /\ InRange(ipam.subnet, ip) => ip \in ipam.used

(* Who has an address, and what the allocator knows of it: a row, an       *)
(* enable before its row, a disable that still has to give it back.        *)
Holds(h) == h.pc \in {"insert", "release"}
Rows ==
  /\ \A p, q \in peers : p.ip = q.ip => p = q
  /\ \A p \in peers : Marked(p.ip)
Owns(h) ==
  /\ Holds(h) => ~Leased(h.ip) /\ Marked(h.ip)
  /\ h.pc \in {"unplug", "delete"} /\ h.row # None =>
       Marked(h.row.ip) /\ \A p \in peers : p.ip = h.row.ip => p.user = h.user
  /\ h.pc = "store" => peers \subseteq h.rows
Apart == \A q, r \in Reqs : q # r /\ Holds(req[q]) /\ Holds(req[r]) => req[q].ip # req[r].ip
Addresses == Rows /\ Apart /\ \A r \in Reqs : Owns(req[r])

(* allocate returns a free host address, the lowest there is.              *)
LEMMA LowestFree ==
  ASSUME NEW m, Free(m) # {}, Free(m) \subseteq Nat
  PROVE  NextFree(m) \in Free(m) /\ \A other \in Free(m) : NextFree(m) <= other
<1>1. PICK R : IsWellFoundedOn(R, Nat) /\ \A y, x \in Nat : y < x => <<y, x>> \in R
  BY NatLessThanWellFounded DEF OpToRel
<1>2. PICK x \in Free(m) : \A y \in Free(m) : <<y, x>> \notin R
  BY <1>1, WFMin
<1>3. ASSUME NEW y \in Free(m) PROVE x <= y
  <2>1. x \in Nat /\ y \in Nat
    OBVIOUS
  <2>2. ~(y < x)
    BY <1>1, <1>2, <2>1
  <2> QED
    BY <2>1, <2>2
<1> QED
  BY <1>2, <1>3 DEF NextFree

LEMMA Numbers ==
  ASSUME NEW s \in Subnets
  PROVE  /\ s.net \in Nat /\ s.bcast \in Nat /\ HostRange(s) \subseteq Nat
         /\ \A ip \in Nat : InRange(s, ip) => ip \in HostRange(s)
         /\ \A ip \in HostRange(s) : InRange(s, ip)
BY WgAssumption DEF HostRange, InRange, Contains

LEMMA Nones ==
  /\ None \notin Users /\ None \notin Subnets /\ None \notin ClientKeys /\ None \notin Nat
  /\ Idle \in Handlers /\ Carries(Idle)
BY WgAssumption DEF Idle, Handlers, Positions, Carries

(* An allocator is built from the addresses in its range, ...              *)
LEMMA RebuiltTypes ==
  ASSUME NEW s \in Subnets \union {None}, NEW rows \in SUBSET Row
  PROVE  LET m == Rebuilt(s, rows)
         IN /\ m # None => m \in Allocators /\ m.used \subseteq HostRange(m.subnet)
            /\ m # None => \A p \in rows : InRange(m.subnet, p.ip) => p.ip \in m.used
<1> DEFINE m == Rebuilt(s, rows)
<1>1. IpsOf(rows) \subseteq Nat
  BY DEF IpsOf, Row
<1>2. CASE s = None
  BY <1>2 DEF Rebuilt
<1>3. CASE s \in Subnets /\ s # None
  <2>1. m = [subnet |-> s, used |-> {ip \in IpsOf(rows) : InRange(s, ip)}]
    BY <1>3 DEF Rebuilt, Seeded
  <2> QED
    BY <1>1, <1>3, <2>1, Numbers DEF Allocators, IpsOf
<1> QED
  BY <1>2, <1>3

(* ... takes an address ...                                                *)
LEMMA TakeTypes ==
  ASSUME MemTypes, ipam # None, Free(ipam) # {}
  PROVE  /\ NextFree(ipam) \in Nat /\ InRange(ipam.subnet, NextFree(ipam)) /\ NextFree(ipam) \notin ipam.used
         /\ LET m == Take(ipam, NextFree(ipam))
            IN /\ m \in Allocators /\ m.used \subseteq HostRange(m.subnet)
               /\ m.subnet = ipam.subnet /\ m.used = ipam.used \union {NextFree(ipam)}
<1>1. ipam \in Allocators /\ ipam.subnet \in Subnets /\ ipam.used \subseteq HostRange(ipam.subnet)
  BY DEF MemTypes, Allocators
<1>2. Free(ipam) \subseteq HostRange(ipam.subnet) /\ Free(ipam) \intersect ipam.used = {}
  BY DEF Free
<1>3. NextFree(ipam) \in Free(ipam)
  BY <1>1, <1>2, Numbers, LowestFree
<1>4. NextFree(ipam) \in Nat /\ InRange(ipam.subnet, NextFree(ipam)) /\ NextFree(ipam) \notin ipam.used
  BY <1>1, <1>2, <1>3, Numbers
<1> QED
  BY <1>1, <1>2, <1>3, <1>4 DEF Take, Allocators

(* ... and gives one back.                                                 *)
LEMMA ReleaseTypes ==
  ASSUME MemTypes, ipam # None, NEW ip \in Nat
  PROVE  LET m == Release(ipam, ip)
         IN /\ m \in Allocators /\ m.used \subseteq HostRange(m.subnet)
            /\ m.subnet = ipam.subnet /\ ipam.used \ {ip} \subseteq m.used
<1>1. ipam \in Allocators /\ ipam.used \subseteq HostRange(ipam.subnet)
  BY DEF MemTypes
<1> QED
  BY <1>1 DEF Release, Allocators

LEMMA InstalledTypes ==
  ASSUME NEW rows \in SUBSET Row
  PROVE  DOMAIN Installed(rows) = KeysOf(rows) /\ KeysOf(rows) \subseteq Keys
         /\ \A k \in DOMAIN Installed(rows) : Installed(rows)[k] \in Entries
<1>1. \A k \in KeysOf(rows) : \E p \in rows : p.key = k
  BY DEF KeysOf
<1>2. \A p \in rows : p.key \in Keys /\ Entry(p) \in Entries
  BY DEF Row, Entry, Entries
<1> QED
  BY <1>1, <1>2 DEF Installed, KeysOf

LEMMA NothingInstalled == DOMAIN Installed({}) = {}
BY DEF Installed, KeysOf

LEMMA PutTypes ==
  ASSUME NEW d, DOMAIN d \subseteq Keys, \A k \in DOMAIN d : d[k] \in Entries, NEW p \in Row, NEW x
  PROVE  /\ DOMAIN Put(d, p) \subseteq Keys /\ \A k \in DOMAIN Put(d, p) : Put(d, p)[k] \in Entries
         /\ DOMAIN Without(d, x) \subseteq DOMAIN d
         /\ \A k \in DOMAIN Without(d, x) : Without(d, x)[k] \in Entries
<1>1. p.key \in Keys /\ Entry(p) \in Entries
  BY DEF Row, Entry, Entries
<1> QED
  BY <1>1 DEF Put, Without

(* The handler of one request moves.                                       *)
LEMMA Moved ==
  ASSUME ReqTypes, NEW r \in Reqs, NEW h \in Handlers, Carries(h), req' = [req EXCEPT ![r] = h]
  PROVE  ReqTypes'
BY DEF ReqTypes

LEMMA Ends ==
  ASSUME ReqTypes, NEW r \in Reqs, Done(r)
  PROVE  ReqTypes'
BY Moved, Nones DEF Done

LEMMA Advances ==
  ASSUME ReqTypes, NEW r \in Reqs, NEW p \in Positions, Go(r, p), Carries([req[r] EXCEPT !.pc = p])
  PROVE  ReqTypes'
<1> DEFINE h == [req[r] EXCEPT !.pc = p]
<1>1. h \in Handlers
  BY DEF ReqTypes, Handlers
<1>2. req' = [req EXCEPT ![r] = h]
  BY DEF ReqTypes, Go
<1> QED
  BY <1>1, <1>2, Moved

LEMMA InitTypes == Init => Types /\ FlagMatchesRow
<1> SUFFICES ASSUME Init PROVE Types /\ FlagMatchesRow
  OBVIOUS
<1>1. wanted \in Subnets \union {None}
  BY WgAssumption DEF Init, Hydrated
<1>2. DbTypes
  BY <1>1, WgAssumption DEF Init, DbTypes
<1>3. MemTypes
  BY <1>1, RebuiltTypes, {} \in SUBSET Row DEF Init, MemTypes
<1>4. DOMAIN dev = {}
  BY NothingInstalled DEF Init
<1>5. DeviceTypes
  BY <1>4 DEF Init, DeviceTypes
<1>6. ReqTypes
  BY Nones DEF Init, ReqTypes
<1>7. SyncTypes
  BY DEF Init, SyncTypes, NoSync
<1>8. FlagMatchesRow
  BY DEF Init, FlagMatchesRow, RowsOf
<1> QED
  BY <1>2, <1>3, <1>5, <1>6, <1>7, <1>8 DEF Types

(* What InsertRow inserts.                                                 *)
LEMMA NewRow ==
  ASSUME Types, NEW r \in Reqs, req[r].pc = "insert", fresh < MaxFresh
  PROVE  LET p == [id |-> fresh + 1, user |-> req[r].user, key |-> KeyOf(r), psk |-> fresh + 1,
                   ip |-> req[r].ip]
         IN p \in Row
<1>1. fresh + 1 \in 1 .. MaxFresh
  BY WgAssumption DEF Types, DbTypes
<1>2. req[r] \in Handlers /\ req[r].user \in Users /\ req[r].ip \in Nat
  BY DEF Types, ReqTypes, Carries
<1>3. KeyOf(r) \in Keys
  BY <1>1, <1>2 DEF KeyOf, Keys, Handlers, Positions
<1> QED
  BY <1>1, <1>2, <1>3 DEF Row

(* enable_user_wg and disable_user_wg.                                     *)
LEMMA EnableTypes ==
  ASSUME Types, FlagMatchesRow, UNCHANGED scope, NEW r \in Reqs, Enable(r)
  PROVE  Types' /\ FlagMatchesRow'
<1> USE DEF Types
<1>1. req[r] \in Handlers /\ Carries(req[r]) /\ req \in [Reqs -> Handlers]
  BY DEF ReqTypes
<1>2. CASE Allocate(r)
  <2>1. UNCHANGED <<db, scope, subnet, started, device, sync, fresh>>
    BY <1>2 DEF Allocate
  <2>2. MemTypes'
    BY <1>2, <2>1, TakeTypes DEF Allocate, MemTypes
  <2>3. ReqTypes'
    <3>1. CASE Done(r)
      BY <3>1, Ends
    <3>2. CASE /\ ipam # None /\ Free(ipam) # {}
               /\ req' = [req EXCEPT ![r].pc = "insert", ![r].ip = NextFree(ipam)]
      <4> DEFINE h == [req[r] EXCEPT !.pc = "insert", !.ip = NextFree(ipam)]
      <4>1. h \in Handlers /\ Carries(h)
        <5>1. NextFree(ipam) \in Nat
          BY <3>2, TakeTypes
        <5>2. req[r].user \in Users
          BY <1>1, <1>2 DEF Allocate, Carries
        <5>3. h \in Handlers
          BY <1>1, <5>1 DEF Handlers, Positions
        <5>4. h.pc = "insert" /\ h.ip = NextFree(ipam) /\ h.user = req[r].user
          BY <1>1 DEF Handlers
        <5> HIDE DEF h
        <5> QED
          BY <5>1, <5>2, <5>3, <5>4 DEF Carries
      <4>2. req' = [req EXCEPT ![r] = h]
        BY <1>1, <3>2
      <4> QED
        BY <4>1, <4>2, Moved
    <3> QED
      BY <1>2, <3>1, <3>2 DEF Allocate
  <2> QED
    BY <2>1, <2>2, <2>3 DEF db, device, DbTypes, DeviceTypes, SyncTypes, FlagMatchesRow, RowsOf
<1>3. CASE InsertRow(r)
  <2>1. UNCHANGED <<users, wanted, mem, device, sync, scope>> /\ req[r].ip \in Nat
    BY <1>1, <1>3 DEF InsertRow, Carries
  <2>2. \/ Go(r, "release") /\ UNCHANGED <<peers, enabled, fresh>>
        \/ \E p \in Row : /\ p.user \in users /\ peers' = peers \union {p}
                          /\ enabled' = enabled \union {p.user} /\ fresh' = fresh + 1
                          /\ req' = [req EXCEPT ![r].pc = "install", ![r].row = p]
    BY <1>1, <1>3, NewRow DEF InsertRow
  <2>3. ASSUME NEW p \in Row, p.user \in users, peers' = peers \union {p}, enabled' = enabled \union {p.user},
               fresh' = fresh + 1, req' = [req EXCEPT ![r].pc = "install", ![r].row = p]
        PROVE  Types' /\ FlagMatchesRow'
    <3>1. DbTypes'
      BY <1>3, <2>1, <2>3, WgAssumption DEF InsertRow, DbTypes
    <3>2. ReqTypes'
      <4> DEFINE h == [req[r] EXCEPT !.pc = "install", !.row = p]
      <4>1. p \in Row \union {None}
        BY <2>3
      <4>2. h \in Handlers
        BY <1>1, <4>1 DEF Handlers, Positions
      <4>3. Carries(h)
        BY <1>1, <2>1, <2>3 DEF Handlers, Positions, Carries
      <4>4. req' = [req EXCEPT ![r] = h]
        BY <1>1, <2>3
      <4> HIDE DEF h
      <4> QED
        BY <4>2, <4>4, <4>3, Moved
    <3>3. FlagMatchesRow'
      BY <2>3 DEF FlagMatchesRow, RowsOf
    <3>4. MemTypes' /\ DeviceTypes' /\ SyncTypes'
      BY <2>1 DEF mem, device, MemTypes, DeviceTypes, SyncTypes
    <3> QED
      BY <3>1, <3>2, <3>3, <3>4
  <2>4. CASE Go(r, "release") /\ UNCHANGED <<peers, enabled, fresh>>
    <3>1. ReqTypes'
      <4>1. Carries([req[r] EXCEPT !.pc = "release"])
        BY <1>1, <2>1 DEF Handlers, Carries
      <4> QED
        BY <2>4, <4>1, Advances DEF Positions
    <3> QED
      BY <2>1, <2>4, <3>1 DEF mem, device, DbTypes, MemTypes, DeviceTypes, SyncTypes, FlagMatchesRow, RowsOf
  <2> QED
    BY <2>2, <2>3, <2>4
<1>4. CASE Install(r)
  <2>1. UNCHANGED <<db, mem, up, sync, fresh, scope>>
    BY <1>4 DEF Install
  <2>2. DeviceTypes'
    BY <1>1, <1>4, <2>1, PutTypes DEF Install, DeviceTypes, Carries
  <2>3. ReqTypes'
    <3>1. CASE Done(r)
      BY <3>1, Ends
    <3>2. CASE Go(r, "release")
      <4>1. Carries([req[r] EXCEPT !.pc = "release"])
        BY <1>1, <1>4 DEF Install, Handlers, Carries
      <4> QED
        BY <3>2, <4>1, Advances DEF Positions
    <3> QED
      BY <1>4, <3>1, <3>2 DEF Install
  <2> QED
    BY <2>1, <2>2, <2>3 DEF db, mem, DbTypes, MemTypes, SyncTypes, FlagMatchesRow, RowsOf
<1>5. CASE ReleaseIp(r)
  <2>1. UNCHANGED <<db, subnet, started, device, sync, fresh, scope>>
    BY <1>5 DEF ReleaseIp
  <2>2. MemTypes'
    BY <1>1, <1>5, <2>1, ReleaseTypes DEF ReleaseIp, MemTypes, Carries
  <2>3. ReqTypes'
    BY <1>5, Ends DEF ReleaseIp
  <2> QED
    BY <2>1, <2>2, <2>3 DEF db, device, DbTypes, DeviceTypes, SyncTypes, FlagMatchesRow, RowsOf
<1> QED
  BY <1>2, <1>3, <1>4, <1>5 DEF Enable

LEMMA DisableTypes ==
  ASSUME Types, FlagMatchesRow, UNCHANGED scope, NEW r \in Reqs, Disable(r)
  PROVE  Types' /\ FlagMatchesRow'
<1> USE DEF Types
<1>1. req[r] \in Handlers /\ Carries(req[r]) /\ req \in [Reqs -> Handlers]
  BY DEF ReqTypes
<1>2. CASE Unplug(r)
  <2>1. UNCHANGED <<db, mem, up, sync, fresh, scope>>
    BY <1>2 DEF Unplug
  <2>2. DeviceTypes'
    <3>1. dev' = dev \/ (up /\ \E k : dev' = Without(dev, k))
      BY <1>2 DEF Unplug
    <3> QED
      BY <2>1, <3>1 DEF DeviceTypes, Without
  <2>3. ReqTypes'
    <3>1. Carries([req[r] EXCEPT !.pc = "delete"])
      BY <1>1 DEF Handlers, Carries
    <3> QED
      BY <1>2, <3>1, Advances DEF Unplug, Positions
  <2> QED
    BY <2>1, <2>2, <2>3 DEF db, mem, DbTypes, MemTypes, SyncTypes, FlagMatchesRow, RowsOf
<1>3. CASE DeleteRows(r)
  <2>1. UNCHANGED <<users, wanted, mem, device, sync, fresh, scope>>
        /\ peers' = {p \in peers : p.user # req[r].user} /\ enabled' = enabled \ {req[r].user}
    BY <1>3 DEF DeleteRows
  <2>2. DbTypes' /\ FlagMatchesRow'
    BY <2>1 DEF DbTypes, FlagMatchesRow, RowsOf
  <2>3. ReqTypes'
    <3>1. CASE Done(r)
      BY <3>1, Ends
    <3>2. CASE /\ req[r].row # None
               /\ req' = [req EXCEPT ![r] = [Idle EXCEPT !.pc = "release", !.ip = req[r].row.ip]]
      <4>1. req[r].row.ip \in Nat
        BY <1>1, <3>2 DEF Handlers, Row
      <4> DEFINE h == [Idle EXCEPT !.pc = "release", !.ip = req[r].row.ip]
      <4>2. h \in Handlers
        BY <4>1, Nones DEF Handlers, Positions
      <4>3. Carries(h)
        BY <4>1, Nones DEF Handlers, Carries
      <4> QED
        BY <3>2, <4>2, <4>3, Moved
    <3> QED
      BY <1>3, <3>1, <3>2 DEF DeleteRows
  <2> QED
    BY <2>1, <2>2, <2>3 DEF mem, device, MemTypes, DeviceTypes, SyncTypes
<1> QED
  BY <1>2, <1>3 DEF Disable

(* rotate_user_wg: a rotated row keeps its user and its address.           *)
LEMMA RekeyRows ==
  ASSUME Types, NEW r \in Reqs, Rekey(r)
  PROVE  \/ Done(r) /\ UNCHANGED <<peers, fresh>>
         \/ /\ Go(r, "reread") /\ fresh' \in 0 .. MaxFresh
            /\ \E f \in [peers -> Row] :
                 /\ peers' = {f[q] : q \in peers}
                 /\ \A q \in peers : f[q].user = q.user /\ f[q].ip = q.ip
<1>1. fresh < MaxFresh
  BY DEF Rekey
<1>2. fresh + 1 \in 1 .. MaxFresh /\ fresh + 1 \in 0 .. MaxFresh
  BY <1>1, WgAssumption DEF Types, DbTypes
<1> DEFINE mine == {p \in peers : p.id = req[r].row.id}
           new(p) == [p EXCEPT !.key = KeyOf(r), !.psk = fresh + 1]
<1>3. ASSUME peers' = (peers \ mine) \union {new(p) : p \in mine}
      PROVE  \E f \in [peers -> Row] :
               /\ peers' = {f[q] : q \in peers}
               /\ \A q \in peers : f[q].user = q.user /\ f[q].ip = q.ip
  <2>1. req[r] \in Handlers
    BY DEF Types, ReqTypes
  <2>2. KeyOf(r) \in Keys
    BY <1>2, <2>1 DEF KeyOf, Keys, Handlers
  <2>3. ASSUME NEW p \in Row
        PROVE  new(p) \in Row /\ new(p).user = p.user /\ new(p).ip = p.ip
    BY <1>2, <2>2 DEF Row
  <2>4. peers \subseteq Row
    BY DEF Types, DbTypes
  <2> DEFINE f == [q \in peers |-> IF q \in mine THEN new(q) ELSE q]
  <2> HIDE DEF new
  <2>5. f \in [peers -> Row] /\ \A q \in peers : f[q].user = q.user /\ f[q].ip = q.ip
    BY <2>3, <2>4
  <2>6. peers' = {f[q] : q \in peers}
    BY <1>3
  <2> HIDE DEF f
  <2> QED
    BY <2>5, <2>6
<1> QED
  BY <1>2, <1>3 DEF Rekey

LEMMA RotateTypes ==
  ASSUME Types, FlagMatchesRow, UNCHANGED scope, NEW r \in Reqs, Rotate(r)
  PROVE  Types' /\ FlagMatchesRow'
<1> USE DEF Types
<1>1. req[r] \in Handlers /\ Carries(req[r]) /\ req \in [Reqs -> Handlers]
  BY DEF ReqTypes
<1>2. CASE Rekey(r)
  <2>1. UNCHANGED <<users, enabled, wanted, mem, device, sync, scope>>
    BY <1>2 DEF Rekey
  <2>2. DbTypes'
    BY <1>2, <2>1, RekeyRows DEF DbTypes
  <2>3. FlagMatchesRow'
    BY <1>2, <2>1, RekeyRows DEF FlagMatchesRow, RowsOf
  <2>4. ReqTypes'
    <3>1. Carries([req[r] EXCEPT !.pc = "reread"])
      BY <1>1, <1>2 DEF Rekey, Handlers, Carries
    <3> QED
      BY <1>2, <3>1, RekeyRows, Advances, Ends DEF Positions
  <2> QED
    BY <2>1, <2>2, <2>3, <2>4 DEF mem, device, MemTypes, DeviceTypes, SyncTypes
<1>3. CASE Reread(r)
  <2>1. UNCHANGED <<db, mem, device, sync, fresh, scope>>
    BY <1>3 DEF Reread
  <2>2. ReqTypes'
    <3>1. CASE Done(r)
      BY <3>1, Ends
    <3>2. ASSUME NEW p \in peers, req' = [req EXCEPT ![r].pc = "swap", ![r].new = p]
          PROVE  ReqTypes'
      <4>1. p \in Row /\ p \in Row \union {None}
        BY DEF DbTypes
      <4> DEFINE h == [req[r] EXCEPT !.pc = "swap", !.new = p]
      <4>2. h \in Handlers
        BY <1>1, <4>1 DEF Handlers, Positions
      <4>3. Carries(h)
        BY <1>1, <1>3, <4>1 DEF Reread, Handlers, Carries
      <4>4. req' = [req EXCEPT ![r] = h]
        BY <1>1, <3>2
      <4> HIDE DEF h
      <4> QED
        BY <4>2, <4>3, <4>4, Moved
    <3> QED
      BY <1>3, <3>1, <3>2 DEF Reread
  <2> QED
    BY <2>1, <2>2 DEF db, mem, device, DbTypes, MemTypes, DeviceTypes, SyncTypes, FlagMatchesRow, RowsOf
<1>4. CASE SwapOut(r) \/ SwapIn(r)
  <2>1. UNCHANGED <<db, mem, up, sync, fresh, scope>>
    BY <1>4 DEF SwapOut, SwapIn
  <2>2. DeviceTypes'
    <3>1. dev' = dev \/ (up /\ \E k : dev' = Without(dev, k)) \/ (up /\ \E p \in Row : dev' = Put(dev, p))
      BY <1>1, <1>4 DEF SwapOut, SwapIn, Carries
    <3> QED
      BY <2>1, <3>1, PutTypes DEF DeviceTypes, Without
  <2>3. ReqTypes'
    <3>1. ASSUME Go(r, "replace"), SwapOut(r) PROVE ReqTypes'
      <4>1. Carries([req[r] EXCEPT !.pc = "replace"])
        BY <1>1, <3>1 DEF SwapOut, Handlers, Carries
      <4> QED
        BY <3>1, <4>1, Advances DEF Positions
    <3> QED
      BY <1>4, <3>1, Ends DEF SwapOut, SwapIn
  <2> QED
    BY <2>1, <2>2, <2>3 DEF db, mem, DbTypes, MemTypes, SyncTypes, FlagMatchesRow, RowsOf
<1> QED
  BY <1>2, <1>3, <1>4 DEF Rotate

(* A settings change, as far as seed_ipam.                                 *)
LEMMA ResizeTypes ==
  ASSUME Types, FlagMatchesRow, UNCHANGED scope, NEW r \in Reqs, Resize(r)
  PROVE  Types' /\ FlagMatchesRow'
<1> USE DEF Types
<1>1. req[r] \in Handlers /\ Carries(req[r]) /\ req \in [Reqs -> Handlers]
  BY DEF ReqTypes
<1>2. req[r].net \in Subnets \union {None} /\ req[r].rows \in SUBSET Row
  BY <1>1 DEF Handlers
<1>3. /\ UNCHANGED <<users, enabled, peers, started, device, sync, fresh, scope>>
      /\ wanted' = wanted \/ wanted' = req[r].net
      /\ subnet' = subnet \/ subnet' = req[r].net
  BY DEF Resize, SavePatch, Reload, SetSubnet, SeedList, SeedStore, db, mem
<1>4. DbTypes' /\ DeviceTypes' /\ SyncTypes' /\ FlagMatchesRow'
  BY <1>2, <1>3 DEF device, DbTypes, DeviceTypes, SyncTypes, FlagMatchesRow, RowsOf
<1>5. MemTypes'
  <2>1. ipam' = ipam \/ ipam' = None \/ ipam' = Rebuilt(req[r].net, req[r].rows)
    BY DEF Resize, SavePatch, Reload, SetSubnet, SeedList, SeedStore, mem
  <2> QED
    BY <1>2, <1>3, <2>1, RebuiltTypes DEF MemTypes
<1>6. ReqTypes'
  <2>1. CASE Done(r)
    BY <2>1, Ends
  <2>2. ASSUME NEW p \in {"subnet", "seed", "list"}, Go(r, p)
        PROVE  ReqTypes'
    <3>1. Carries([req[r] EXCEPT !.pc = p])
      BY <1>1 DEF Handlers, Carries
    <3> QED
      BY <2>2, <3>1, Advances DEF Positions
  <2>3. ASSUME Reload(r) PROVE ReqTypes'
    <3> DEFINE h == [Idle EXCEPT !.pc = "subnet", !.net = wanted]
    <3>1. wanted \in Subnets \union {None}
      BY DEF DbTypes
    <3>2. h \in Handlers
      BY <3>1, Nones DEF Handlers, Positions
    <3>3. Carries(h)
      BY Nones DEF Handlers, Carries
    <3> QED
      BY <2>3, <3>2, <3>3, Moved DEF Reload
  <2>4. ASSUME subnet \in Subnets,
               req' = [req EXCEPT ![r].pc = "store", ![r].net = subnet, ![r].rows = peers]
        PROVE  ReqTypes'
    <3> DEFINE h == [req[r] EXCEPT !.pc = "store", !.net = subnet, !.rows = peers]
    <3>1. subnet \in Subnets \union {None} /\ peers \in SUBSET Row
      BY <2>4 DEF DbTypes
    <3>2. h \in Handlers
      BY <1>1, <3>1 DEF Handlers, Positions
    <3>3. Carries(h)
      BY <1>1, <2>4 DEF Handlers, Carries
    <3>4. req' = [req EXCEPT ![r] = h]
      BY <1>1, <2>4
    <3> HIDE DEF h
    <3> QED
      BY <3>2, <3>3, <3>4, Moved
  <2>5. CASE SavePatch(r)
    BY <2>1, <2>2, <2>5 DEF SavePatch
  <2>6. CASE SetSubnet(r)
    BY <2>2, <2>6 DEF SetSubnet
  <2>7. CASE SeedList(r)
    BY <2>1, <2>2, <2>4, <2>7 DEF SeedList, AfterSeed, MemTypes
  <2>8. CASE SeedStore(r)
    BY <2>1, <2>2, <2>8 DEF SeedStore, AfterSeed
  <2> QED
    BY <2>3, <2>5, <2>6, <2>7, <2>8 DEF Resize
<1> QED
  BY <1>4, <1>5, <1>6

(* spawn_real and stop.                                                    *)
LEMMA LifecycleTypes ==
  ASSUME Types, FlagMatchesRow, UNCHANGED scope, NEW r \in Reqs, Lifecycle(r)
  PROVE  Types' /\ FlagMatchesRow'
<1> USE DEF Types
<1>1. req[r] \in Handlers /\ Carries(req[r]) /\ req \in [Reqs -> Handlers]
  BY DEF ReqTypes
<1>2. UNCHANGED <<db, subnet, ipam, sync, fresh, scope>> /\ started' \in BOOLEAN
  BY DEF Lifecycle, StartBegin, SpawnList, BringUp, MarkStarted, StopBegin, Down, mem, MemTypes
<1>3. DbTypes' /\ MemTypes' /\ SyncTypes' /\ FlagMatchesRow'
  BY <1>2 DEF db, DbTypes, MemTypes, SyncTypes, FlagMatchesRow, RowsOf
<1>4. DeviceTypes'
  <2>1. req[r].rows \in SUBSET Row
    BY <1>1 DEF Handlers
  <2>2. CASE BringUp(r)
    BY <2>1, <2>2, InstalledTypes DEF BringUp, DeviceTypes
  <2>3. CASE Down(r)
    BY <2>3, NothingInstalled DEF Down, DeviceTypes
  <2>4. CASE UNCHANGED device
    BY <2>4 DEF device, DeviceTypes
  <2> QED
    BY <2>2, <2>3, <2>4 DEF Lifecycle, StartBegin, SpawnList, MarkStarted, StopBegin
<1>5. ReqTypes'
  <2>1. CASE Done(r)
    BY <2>1, Ends
  <2>2. CASE StartBegin(r) \/ StopBegin(r)
    <3> DEFINE seed == [Idle EXCEPT !.pc = "seed", !.spawn = TRUE]
               down == [Idle EXCEPT !.pc = "down"]
    <3>1. seed \in Handlers
      BY Nones DEF Handlers, Positions
    <3>2. down \in Handlers
      BY Nones DEF Handlers, Positions
    <3>3. Carries(seed) /\ Carries(down)
      BY Nones DEF Handlers, Carries
    <3> QED
      BY <2>2, <3>1, <3>2, <3>3, Moved DEF StartBegin, StopBegin
  <2>3. CASE SpawnList(r)
    <3> DEFINE h == [req[r] EXCEPT !.pc = "up", !.rows = peers]
    <3>1. peers \in SUBSET Row
      BY DEF DbTypes
    <3>2. h \in Handlers
      BY <1>1, <3>1 DEF Handlers, Positions
    <3>3. Carries(h)
      BY <1>1 DEF Handlers, Carries
    <3>4. req' = [req EXCEPT ![r] = h]
      BY <1>1, <2>3 DEF SpawnList
    <3> HIDE DEF h
    <3> QED
      BY <3>2, <3>3, <3>4, Moved
  <2>4. CASE BringUp(r)
    <3>1. Carries([req[r] EXCEPT !.pc = "mark"])
      BY <1>1 DEF Handlers, Carries
    <3> QED
      BY <2>4, <3>1, Advances DEF BringUp, Positions
  <2> QED
    BY <2>1, <2>2, <2>3, <2>4 DEF Lifecycle, MarkStarted, Down
<1> QED
  BY <1>3, <1>4, <1>5

(* A request arrives, or its future is dropped.                            *)
LEMMA ArrivalTypes ==
  ASSUME Types, FlagMatchesRow, UNCHANGED scope, NEW r \in Reqs,
         \/ GiveUp(r)
         \/ \E u \in Users : DisableStart(r, u)
         \/ \E u \in Users, k \in scope.keys \union {None} : EnableStart(r, u, k) \/ RotateStart(r, u, k)
         \/ \E s \in scope.subnets \union {None} : PatchStart(r, s)
  PROVE  Types' /\ FlagMatchesRow'
<1> USE DEF Types
<1>1. UNCHANGED <<db, mem, device, sync, fresh, scope>>
  BY DEF GiveUp, DisableStart, EnableStart, RotateStart, PatchStart
<1>2. scope.keys \subseteq ClientKeys /\ scope.subnets \subseteq Subnets
  BY WgAssumption DEF DbTypes
<1>3. ReqTypes'
  <2>1. CASE GiveUp(r)
    BY <2>1, Ends DEF GiveUp
  <2>2. ASSUME NEW u \in Users, NEW k \in scope.keys \union {None}, EnableStart(r, u, k)
        PROVE  ReqTypes'
    <3> DEFINE h == [Idle EXCEPT !.pc = "allocate", !.user = u, !.key = k]
    <3>1. h \in Handlers
      BY <1>2, <2>2, Nones DEF Handlers, Positions
    <3>2. Carries(h)
      BY Nones DEF Handlers, Carries
    <3> QED
      BY <2>2, <3>1, <3>2, Moved DEF EnableStart
  <2>3. ASSUME NEW u \in Users, DisableStart(r, u)
        PROVE  ReqTypes'
    <3>1. PICK row \in Row \union {None} :
            req' = [req EXCEPT ![r] = [Idle EXCEPT !.pc = "unplug", !.user = u, !.row = row]]
      BY <2>3 DEF DisableStart, RowsOf, DbTypes
    <3> DEFINE h == [Idle EXCEPT !.pc = "unplug", !.user = u, !.row = row]
    <3>2. h \in Handlers
      BY <2>3, <3>1, Nones DEF Handlers, Positions
    <3>3. Carries(h)
      BY Nones DEF Handlers, Carries
    <3> QED
      BY <3>1, <3>2, <3>3, Moved
  <2>4. ASSUME NEW u \in Users, NEW k \in scope.keys \union {None}, RotateStart(r, u, k)
        PROVE  ReqTypes'
    <3>1. PICK row \in Row :
            req' = [req EXCEPT ![r] = [Idle EXCEPT !.pc = "rekey", !.user = u, !.key = k, !.row = row]]
      BY <2>4 DEF RotateStart, RowsOf, DbTypes
    <3> DEFINE h == [Idle EXCEPT !.pc = "rekey", !.user = u, !.key = k, !.row = row]
    <3>2. row \in Row \union {None}
      OBVIOUS
    <3>3. h \in Handlers
      BY <1>2, <2>4, <3>2, Nones DEF Handlers, Positions
    <3>4. Carries(h)
      BY <3>1, Nones DEF Handlers, Carries
    <3> QED
      BY <3>1, <3>3, <3>4, Moved
  <2>5. ASSUME NEW s \in scope.subnets \union {None}, PatchStart(r, s)
        PROVE  ReqTypes'
    <3> DEFINE h == [Idle EXCEPT !.pc = "save", !.net = s, !.before = wanted]
    <3>1. s \in Subnets \union {None} /\ wanted \in Subnets \union {None}
      BY <1>2 DEF DbTypes
    <3>2. h \in Handlers
      BY <3>1, Nones DEF Handlers, Positions
    <3>3. Carries(h)
      BY Nones DEF Handlers, Carries
    <3> QED
      BY <2>5, <3>2, <3>3, Moved DEF PatchStart
  <2> QED
    BY <2>1, <2>2, <2>3, <2>4, <2>5
<1> QED
  BY <1>1, <1>3 DEF db, mem, device, DbTypes, MemTypes, DeviceTypes, SyncTypes, FlagMatchesRow, RowsOf

(* Nobody's request: a user leaves, the control center writes the row, ... *)
LEMMA OutsideTypes ==
  ASSUME Types, FlagMatchesRow, UNCHANGED scope,
         \/ \E u \in Users : DeleteUser(u)
         \/ \E s \in scope.subnets \union {None} : ControlPatch(s)
  PROVE  Types' /\ FlagMatchesRow'
<1> USE DEF Types
<1>1. UNCHANGED <<mem, device, req, sync, fresh, scope>>
  BY DEF DeleteUser, ControlPatch
<1>2. DbTypes' /\ FlagMatchesRow'
  <2>1. CASE \E u \in Users : DeleteUser(u)
    BY <1>1, <2>1 DEF DeleteUser, DbTypes, FlagMatchesRow, RowsOf
  <2>2. CASE \E s \in scope.subnets \union {None} : ControlPatch(s)
    BY <1>1, <2>2, WgAssumption DEF ControlPatch, DbTypes, FlagMatchesRow, RowsOf
  <2> QED
    BY <2>1, <2>2
<1> QED
  BY <1>1, <1>2 DEF mem, device, MemTypes, DeviceTypes, ReqTypes, SyncTypes

(* ... the reconciler passes, ...                                          *)
LEMMA SyncStepTypes ==
  ASSUME Types, FlagMatchesRow, UNCHANGED scope, Sync
  PROVE  Types' /\ FlagMatchesRow'
<1> USE DEF Types
<1>1. UNCHANGED <<db, mem, up, req, fresh, scope>>
  BY DEF Sync, SyncList, SyncLive, SyncRemove, SyncAdd, device
<1>2. peers \subseteq Row
  BY DEF DbTypes
<1>3. CASE SyncList
  <2>1. SyncTypes'
    BY <1>2, <1>3 DEF SyncList, NoSync, SyncTypes
  <2> QED
    BY <1>1, <1>3, <2>1 DEF SyncList, db, mem, device, DbTypes, MemTypes, DeviceTypes,
                                 ReqTypes, FlagMatchesRow, RowsOf
<1>4. CASE SyncLive
  <2>1. sync.rows \subseteq Row
    BY DEF SyncTypes
  <2>2. SyncTypes'
    BY <1>4, <2>1 DEF SyncLive, NoSync, SyncTypes, DeviceTypes
  <2> QED
    BY <1>1, <1>4, <2>2 DEF SyncLive, db, mem, device, DbTypes, MemTypes, DeviceTypes,
                                 ReqTypes, FlagMatchesRow, RowsOf
<1>5. ASSUME NEW k \in sync.gone, SyncRemove(k)
      PROVE  SyncTypes' /\ DeviceTypes'
  <2>1. SyncTypes'
    BY <1>5 DEF SyncRemove, SyncTypes
  <2>2. dev' = dev \/ dev' = Without(dev, k)
    BY <1>5 DEF SyncRemove
  <2> QED
    BY <1>1, <2>1, <2>2 DEF DeviceTypes, Without
<1>6. ASSUME NEW p \in sync.missing, SyncAdd(p)
      PROVE  SyncTypes' /\ DeviceTypes'
  <2>1. SyncTypes' /\ p \in Row
    BY <1>6 DEF SyncAdd, SyncTypes
  <2>2. dev' = dev \/ (up /\ dev' = Put(dev, p))
    BY <1>6 DEF SyncAdd
  <2> QED
    BY <1>1, <2>1, <2>2, PutTypes DEF DeviceTypes
<1> QED
  BY <1>1, <1>3, <1>4, <1>5, <1>6
  DEF Sync, db, mem, DbTypes, MemTypes, ReqTypes, FlagMatchesRow, RowsOf

(* ... the process restarts.                                               *)
LEMMA RestartTypes ==
  ASSUME Types, FlagMatchesRow, UNCHANGED scope, Restart
  PROVE  Types' /\ FlagMatchesRow'
<1> USE DEF Types
<1>1. wanted' \in Subnets \union {None} /\ peers \in SUBSET Row
  BY WgAssumption DEF Restart, Hydrated, DbTypes
<1>2. DbTypes' /\ FlagMatchesRow'
  BY <1>1 DEF Restart, DbTypes, FlagMatchesRow, RowsOf
<1>3. MemTypes'
  BY <1>1, RebuiltTypes DEF Restart, MemTypes
<1>4. DeviceTypes'
  BY <1>1, InstalledTypes, NothingInstalled DEF Restart, DeviceTypes
<1>5. ReqTypes'
  BY Nones DEF Restart, ReqTypes
<1>6. SyncTypes'
  BY DEF Restart, SyncTypes, NoSync
<1> QED
  BY <1>2, <1>3, <1>4, <1>5, <1>6

LEMMA StepTypes == Types /\ FlagMatchesRow /\ [Next /\ UNCHANGED scope]_vars => Types' /\ FlagMatchesRow'
<1> SUFFICES ASSUME Types, FlagMatchesRow, [Next /\ UNCHANGED scope]_vars
             PROVE  Types' /\ FlagMatchesRow'
  OBVIOUS
<1>1. CASE UNCHANGED vars
  BY <1>1 DEF vars, db, mem, device, Types, DbTypes, MemTypes, DeviceTypes, ReqTypes, SyncTypes,
              FlagMatchesRow, RowsOf
<1>2. CASE Next /\ UNCHANGED scope
  BY <1>2, EnableTypes, DisableTypes, RotateTypes, ResizeTypes, LifecycleTypes, ArrivalTypes,
     OutsideTypes, SyncStepTypes, RestartTypes
  DEF Next, Request
<1> QED
  BY <1>1, <1>2

LEMMA TypesHold == Spec => []Types /\ []FlagMatchesRow
BY InitTypes, StepTypes, PTL DEF Spec

(* Every variable keeps the type of the state it stands for: a subnet is   *)
(* one of the configured ones, what the allocator has handed out lies in   *)
(* its host range, and no device that is down holds a peer.                *)
THEOREM WgTypes == Spec => []TypeOK
<1>1. Types => TypeOK
  BY DEF Types, DbTypes, MemTypes, DeviceTypes, ReqTypes, SyncTypes, TypeOK, Handlers, Allocators, Entries
<1> QED
  BY <1>1, TypesHold, PTL

(* users.wg_enabled is set exactly for the users who have a row, whatever  *)
(* enables, disables, deletions and restarts run together (repo.rs         *)
(* 691-791).                                                               *)
THEOREM FlagsMatchRows == Spec => []FlagMatchesRow
BY TypesHold, PTL

----------------------------------------------------------------------------
LEMMA Written ==
  ASSUME ReqTypes, NEW r \in Reqs
  PROVE  /\ \A h : req' = [req EXCEPT ![r] = h] => req'[r] = h /\ \A q \in Reqs \ {r} : req'[q] = req[q]
         /\ Done(r) => req'[r] = Idle /\ \A q \in Reqs \ {r} : req'[q] = req[q]
         /\ \A p : Go(r, p) => /\ req'[r] = [req[r] EXCEPT !.pc = p] /\ req'[r].pc = p
                               /\ \A q \in Reqs \ {r} : req'[q] = req[q]
<1>1. req \in [Reqs -> Handlers] /\ req[r] \in Handlers
  BY DEF ReqTypes
<1> QED
  BY <1>1 DEF Done, Go, Handlers

(* A request that is at work was accepted in its scope, only the requests  *)
(* of SoloKinds get to SoloPositions, and the last step of a start or of a *)
(* stop follows the one before it.                                         *)
LEMMA Moves ==
  ASSUME Types, UNCHANGED scope, NEW r \in Reqs, Request(r)
  PROVE  /\ \A q \in Reqs \ {r} : req'[q] = req[q]
         /\ req'[r].pc # "idle" => req[r].pc # "idle" \/ r \in scope.reqs
         /\ req'[r].pc \in SoloPositions =>
              req[r].pc \in SoloPositions \/ scope.kinds \intersect SoloKinds # {}
         /\ req'[r].pc \in {"mark", "down"} => BringUp(r) \/ StopBegin(r)
<1>1. ReqTypes /\ req \in [Reqs -> Handlers] /\ req[r] \in Handlers
  BY DEF Types, ReqTypes
<1> DEFINE Conclusion ==
             /\ \A q \in Reqs \ {r} : req'[q] = req[q]
             /\ req'[r].pc # "idle" => req[r].pc # "idle" \/ r \in scope.reqs
             /\ req'[r].pc \in SoloPositions =>
                  req[r].pc \in SoloPositions \/ scope.kinds \intersect SoloKinds # {}
             /\ req'[r].pc \in {"mark", "down"} => BringUp(r) \/ StopBegin(r)
<1> SUFFICES Conclusion
  OBVIOUS
<1>2. ASSUME Done(r) PROVE Conclusion
  BY <1>1, <1>2, Written DEF Idle, SoloPositions
<1>3. ASSUME NEW p, Go(r, p), req[r].pc # "idle",
             p \in SoloPositions => req[r].pc \in SoloPositions,
             p \in {"mark", "down"} => BringUp(r) \/ StopBegin(r)
      PROVE  Conclusion
  BY <1>1, <1>3, Written
<1>4. ASSUME NEW h, req' = [req EXCEPT ![r] = h],
             req[r].pc # "idle" \/ r \in scope.reqs,
             h.pc \in SoloPositions =>
               req[r].pc \in SoloPositions \/ scope.kinds \intersect SoloKinds # {},
             h.pc \in {"mark", "down"} => BringUp(r) \/ StopBegin(r)
      PROVE  Conclusion
  BY <1>1, <1>4, Written
<1> HIDE DEF Conclusion
<1>5. CASE Enable(r)
  <2>1. ASSUME Allocate(r), ~Done(r) PROVE Conclusion
    <3> DEFINE h == [req[r] EXCEPT !.pc = "insert", !.ip = NextFree(ipam)]
    <3>1. req' = [req EXCEPT ![r] = h] /\ h.pc = "insert" /\ req[r].pc = "allocate"
      BY <1>1, <2>1 DEF Allocate, Handlers
    <3> HIDE DEF h
    <3> QED
      BY <1>4, <3>1 DEF SoloPositions
  <2>2. ASSUME InsertRow(r) PROVE Conclusion
    <3>1. CASE Go(r, "release")
      BY <1>3, <2>2, <3>1 DEF InsertRow, SoloPositions
    <3>2. ASSUME NEW p, req' = [req EXCEPT ![r].pc = "install", ![r].row = p]
          PROVE  Conclusion
      <4> DEFINE h == [req[r] EXCEPT !.pc = "install", !.row = p]
      <4>1. req' = [req EXCEPT ![r] = h] /\ h.pc = "install" /\ req[r].pc = "insert"
        BY <1>1, <2>2, <3>2 DEF InsertRow, Handlers
      <4> HIDE DEF h
      <4> QED
        BY <1>4, <4>1 DEF SoloPositions
    <3> QED
      BY <2>2, <3>1, <3>2 DEF InsertRow
  <2>3. ASSUME Install(r) PROVE Conclusion
    BY <1>2, <1>3, <2>3 DEF Install, SoloPositions
  <2> QED
    BY <1>2, <1>5, <2>1, <2>2, <2>3 DEF Enable, ReleaseIp
<1>6. CASE Disable(r)
  <2>1. ASSUME Unplug(r) PROVE Conclusion
    BY <1>3, <2>1 DEF Unplug, SoloPositions
  <2>2. ASSUME DeleteRows(r), ~Done(r) PROVE Conclusion
    <3> DEFINE h == [Idle EXCEPT !.pc = "release", !.ip = req[r].row.ip]
    <3>1. req' = [req EXCEPT ![r] = h] /\ h.pc = "release" /\ req[r].pc = "delete"
      BY <2>2 DEF DeleteRows, Idle
    <3> HIDE DEF h
    <3> QED
      BY <1>4, <3>1 DEF SoloPositions
  <2> QED
    BY <1>2, <1>6, <2>1, <2>2 DEF Disable
<1>7. CASE Rotate(r)
  <2>1. ASSUME Reread(r), ~Done(r) PROVE Conclusion
    <3>1. PICK p : req' = [req EXCEPT ![r].pc = "swap", ![r].new = p]
      BY <2>1 DEF Reread
    <3> DEFINE h == [req[r] EXCEPT !.pc = "swap", !.new = p]
    <3>2. req' = [req EXCEPT ![r] = h] /\ h.pc = "swap" /\ req[r].pc = "reread"
      BY <1>1, <2>1, <3>1 DEF Reread, Handlers
    <3> HIDE DEF h
    <3> QED
      BY <1>4, <3>2 DEF SoloPositions
  <2> QED
    BY <1>2, <1>3, <1>7, <2>1 DEF Rotate, Rekey, SwapOut, SwapIn, SoloPositions
<1>8. CASE Resize(r)
  <2>1. ASSUME Reload(r) PROVE Conclusion
    <3> DEFINE h == [Idle EXCEPT !.pc = "subnet", !.net = wanted]
    <3>1. req' = [req EXCEPT ![r] = h] /\ h.pc = "subnet"
      BY <2>1 DEF Reload, Idle
    <3> HIDE DEF h
    <3> QED
      BY <1>4, <2>1, <3>1 DEF Reload, Accepts, SoloKinds
  <2>2. ASSUME SeedList(r), ~Done(r), ~Go(r, "list") PROVE Conclusion
    <3> DEFINE h == [req[r] EXCEPT !.pc = "store", !.net = subnet, !.rows = peers]
    <3>1. req' = [req EXCEPT ![r] = h] /\ h.pc = "store" /\ req[r].pc = "seed"
      BY <1>1, <2>2 DEF SeedList, AfterSeed, Handlers
    <3> HIDE DEF h
    <3> QED
      BY <1>4, <3>1 DEF SoloPositions
  <2>3. ASSUME SavePatch(r) \/ SetSubnet(r) \/ SeedList(r) \/ SeedStore(r),
               Go(r, "subnet") \/ Go(r, "seed") \/ Go(r, "list")
        PROVE  Conclusion
    <3>1. req[r].pc \in {"save", "subnet", "seed", "store"}
      BY <2>3 DEF SavePatch, SetSubnet, SeedList, SeedStore
    <3> QED
      BY <1>3, <2>3, <3>1 DEF SoloPositions
  <2> QED
    BY <1>2, <1>8, <2>1, <2>2, <2>3 DEF Resize, SavePatch, SetSubnet, SeedList, SeedStore, AfterSeed
<1>9. CASE Lifecycle(r)
  <2>1. ASSUME StartBegin(r) PROVE Conclusion
    <3> DEFINE h == [Idle EXCEPT !.pc = "seed", !.spawn = TRUE]
    <3>1. req' = [req EXCEPT ![r] = h] /\ h.pc = "seed"
      BY <2>1 DEF StartBegin, Idle
    <3> HIDE DEF h
    <3> QED
      BY <1>4, <2>1, <3>1 DEF StartBegin, Accepts, SoloKinds
  <2>2. ASSUME StopBegin(r) PROVE Conclusion
    <3> DEFINE h == [Idle EXCEPT !.pc = "down"]
    <3>1. req' = [req EXCEPT ![r] = h] /\ h.pc = "down"
      BY <2>2 DEF StopBegin, Idle
    <3> HIDE DEF h
    <3> QED
      BY <1>4, <2>2, <3>1 DEF StopBegin, Accepts, SoloKinds
  <2>3. ASSUME SpawnList(r) PROVE Conclusion
    <3> DEFINE h == [req[r] EXCEPT !.pc = "up", !.rows = peers]
    <3>1. req' = [req EXCEPT ![r] = h] /\ h.pc = "up" /\ req[r].pc = "list"
      BY <1>1, <2>3 DEF SpawnList, Handlers
    <3> HIDE DEF h
    <3> QED
      BY <1>4, <3>1 DEF SoloPositions
  <2>4. ASSUME BringUp(r) PROVE Conclusion
    <3>1. Go(r, "mark") /\ req[r].pc = "up"
      BY <2>4 DEF BringUp
    <3> QED
      BY <1>3, <2>4, <3>1 DEF SoloPositions
  <2> QED
    BY <1>2, <1>9, <2>1, <2>2, <2>3, <2>4 DEF Lifecycle, MarkStarted, Down
<1>10. CASE GiveUp(r)
  BY <1>2, <1>10 DEF GiveUp
<1>11. ASSUME NEW u \in Users, DisableStart(r, u) PROVE Conclusion
  <2>1. PICK row : req' = [req EXCEPT ![r] = [Idle EXCEPT !.pc = "unplug", !.user = u, !.row = row]]
    BY <1>11 DEF DisableStart
  <2> DEFINE h == [Idle EXCEPT !.pc = "unplug", !.user = u, !.row = row]
  <2>2. req' = [req EXCEPT ![r] = h] /\ h.pc = "unplug"
    BY <2>1 DEF Idle
  <2> HIDE DEF h
  <2> QED
    BY <1>4, <1>11, <2>2 DEF DisableStart, Accepts, SoloKinds
<1>12. ASSUME NEW u \in Users, NEW k \in scope.keys \union {None}, EnableStart(r, u, k)
       PROVE  Conclusion
  <2> DEFINE h == [Idle EXCEPT !.pc = "allocate", !.user = u, !.key = k]
  <2>1. req' = [req EXCEPT ![r] = h] /\ h.pc = "allocate"
    BY <1>12 DEF EnableStart, Idle
  <2> HIDE DEF h
  <2> QED
    BY <1>4, <1>12, <2>1 DEF EnableStart, Accepts, SoloPositions
<1>13. ASSUME NEW u \in Users, NEW k \in scope.keys \union {None}, RotateStart(r, u, k)
       PROVE  Conclusion
  <2>1. PICK row : req' = [req EXCEPT ![r] = [Idle EXCEPT !.pc = "rekey", !.user = u, !.key = k, !.row = row]]
    BY <1>13 DEF RotateStart
  <2> DEFINE h == [Idle EXCEPT !.pc = "rekey", !.user = u, !.key = k, !.row = row]
  <2>2. req' = [req EXCEPT ![r] = h] /\ h.pc = "rekey"
    BY <2>1 DEF Idle
  <2> HIDE DEF h
  <2> QED
    BY <1>4, <1>13, <2>2 DEF RotateStart, Accepts, SoloPositions
<1>14. ASSUME NEW s \in scope.subnets \union {None}, PatchStart(r, s) PROVE Conclusion
  <2> DEFINE h == [Idle EXCEPT !.pc = "save", !.net = s, !.before = wanted]
  <2>1. req' = [req EXCEPT ![r] = h] /\ h.pc = "save"
    BY <1>14 DEF PatchStart, Idle
  <2> HIDE DEF h
  <2> QED
    BY <1>4, <1>14, <2>1 DEF PatchStart, Accepts, SoloKinds
<1> QED
  BY <1>5, <1>6, <1>7, <1>8, <1>9, <1>10, <1>11, <1>12, <1>13, <1>14 DEF Request

LEMMA AloneStep ==
  ASSUME Orderly, Types, Alone, [Next /\ UNCHANGED scope]_vars
  PROVE  Alone'
<1>1. scope \in Scopes /\ scope' = scope
  BY DEF Types, DbTypes, vars
<1>2. \/ \A q, r \in scope.reqs : q = r
      \/ scope.kinds \intersect SoloKinds = {}
  BY <1>1 DEF Orderly
<1>3. ASSUME NEW r \in Reqs, Request(r) PROVE Alone'
  BY <1>1, <1>2, <1>3, Moves DEF Alone
<1>4. CASE Restart
  BY <1>4 DEF Restart, Alone, Idle, SoloPositions
<1>5. CASE UNCHANGED req
  BY <1>1, <1>5 DEF Alone
<1> QED
  BY <1>3, <1>4, <1>5
  DEF Next, vars, DeleteUser, ControlPatch, Sync, SyncList, SyncLive, SyncRemove, SyncAdd

LEMMA DeviceStep ==
  ASSUME Orderly, Types, Alone, Device, [Next /\ UNCHANGED scope]_vars
  PROVE  Device'
<1>1. ReqTypes /\ scope' = scope
  BY DEF Types, vars
<1>2. ASSUME NEW r \in Reqs, Request(r) PROVE Device'
  <2>1. /\ \A q \in Reqs \ {r} : req'[q] = req[q]
        /\ req'[r].pc \in {"mark", "down"} => BringUp(r) \/ StopBegin(r)
    BY <1>1, <1>2, Moves
  <2>2. req[r].pc \in {"mark", "down"} => \A q \in Reqs \ {r} : req[q].pc = "idle"
    BY DEF Alone, SoloPositions
  <2>3. CASE BringUp(r)
    <3>1. up' = TRUE /\ started' = started /\ req'[r].pc = "mark"
      BY <1>1, <2>3, Written DEF BringUp, mem
    <3> QED
      BY <2>1, <3>1 DEF Device
  <2>4. CASE MarkStarted(r)
    <3>1. req[r].pc = "mark" /\ up' = up /\ req'[r].pc = "idle"
      BY <1>1, <2>4, Written DEF MarkStarted, device, Idle
    <3> QED
      BY <2>1, <2>2, <3>1 DEF Device
  <2>5. CASE StopBegin(r)
    <3>1. started' = FALSE /\ up' = up
      BY <2>5 DEF StopBegin, device
    <3> DEFINE h == [Idle EXCEPT !.pc = "down"]
    <3>2. req' = [req EXCEPT ![r] = h] /\ h.pc = "down"
      BY <2>5 DEF StopBegin, Idle
    <3> HIDE DEF h
    <3>3. req'[r].pc = "down"
      BY <1>1, <3>2, Written
    <3> QED
      BY <2>1, <3>1, <3>3 DEF Device
  <2>6. CASE Down(r)
    <3>1. req[r].pc = "down" /\ started' = started /\ req'[r].pc = "idle"
      BY <1>1, <2>6, Written DEF Down, mem, Idle
    <3> QED
      BY <2>1, <2>2, <3>1 DEF Device
  <2>7. UNCHANGED <<up, started>> \/ BringUp(r) \/ MarkStarted(r) \/ StopBegin(r) \/ Down(r)
    BY <1>2 DEF Request, Enable, Allocate, InsertRow, Install, ReleaseIp, Disable, Unplug, DeleteRows,
                Rotate, Rekey, Reread, SwapOut, SwapIn,
                Resize, SavePatch, Reload, SetSubnet, SeedList, SeedStore,
                Lifecycle, StartBegin, SpawnList, GiveUp,
                DisableStart, EnableStart, RotateStart, PatchStart, mem, device
  <2>8. ASSUME UNCHANGED <<up, started>>, ~BringUp(r), ~StopBegin(r) PROVE Device'
    BY <2>1, <2>8 DEF Device
  <2> QED
    BY <2>3, <2>4, <2>5, <2>6, <2>7, <2>8
<1>3. CASE Restart
  <2>1. started' = up' /\ \A r \in Reqs : req'[r].pc = "idle"
    BY <1>3 DEF Restart, Idle
  <2> QED
    BY <2>1 DEF Device
<1>4. CASE UNCHANGED <<up, started, req>>
  BY <1>4 DEF Device
<1> QED
  BY <1>2, <1>3, <1>4
  DEF Next, vars, mem, device, DeleteUser, ControlPatch, Sync, SyncList, SyncLive, SyncRemove, SyncAdd

LEMMA InitDevice == Init => Alone /\ Device
BY DEF Init, Idle, Alone, Device, SoloPositions

LEMMA DeviceHolds ==
  ASSUME Orderly
  PROVE  Spec => [](Types /\ Alone /\ Device)
<1>1. Types /\ Alone /\ Device /\ [Next /\ UNCHANGED scope]_vars => (Alone /\ Device)'
  BY AloneStep, DeviceStep
<1> QED
  BY <1>1, InitDevice, TypesHold, PTL DEF Spec

----------------------------------------------------------------------------
(* The addresses.  Most steps hand none out and take none back.            *)
LEMMA Kept ==
  ASSUME Addresses, NEW r \in Reqs, ipam' = ipam, peers' \subseteq peers,
         \A q \in Reqs \ {r} : req'[q] = req[q],
         req'[r] = req[r] \/ req'[r].pc \notin {"insert", "release", "unplug", "delete", "store"}
  PROVE  Addresses'
<1>1. ASSUME NEW ip PROVE (Leased(ip)' => Leased(ip)) /\ (Marked(ip) => Marked(ip)')
  BY DEF Leased, Marked, IpsOf
<1>2. Rows'
  BY <1>1 DEF Addresses, Rows
<1>3. ASSUME NEW q \in Reqs PROVE Owns(req[q])'
  <2>1. CASE req'[q] = req[q]
    <3>1. Owns(req[q])
      BY DEF Addresses
    <3> QED
      BY <1>1, <2>1, <3>1 DEF Owns, Holds
  <2>2. CASE req'[q].pc \notin {"insert", "release", "unplug", "delete", "store"}
    BY <2>2 DEF Owns, Holds
  <2> QED
    BY <2>1, <2>2
<1>4. Apart'
  BY DEF Addresses, Apart, Holds
<1> QED
  BY <1>2, <1>3, <1>4 DEF Addresses

LEMMA InitAddresses == Init => Addresses
BY DEF Init, Idle, Addresses, Rows, Apart, Owns, Holds, Marked

(* An address that the allocator hands out is free: nobody has it.         *)
LEMMA AllocateAddresses ==
  ASSUME Types, Addresses, NEW r \in Reqs, Allocate(r)
  PROVE  Addresses'
<1>1. ReqTypes /\ MemTypes /\ req[r] \in Handlers /\ peers' = peers
  BY DEF Types, ReqTypes, Allocate, db
<1>2. CASE Done(r) /\ ipam' = ipam
  <2>1. /\ req'[r].pc = "idle" /\ \A q \in Reqs \ {r} : req'[q] = req[q]
    BY <1>1, <1>2, Written DEF Idle
  <2> QED
    BY <1>1, <1>2, <2>1, Kept
<1>3. ASSUME ipam # None, Free(ipam) # {}, ipam' = Take(ipam, NextFree(ipam)),
             req' = [req EXCEPT ![r].pc = "insert", ![r].ip = NextFree(ipam)]
      PROVE  Addresses'
  <2>1. PICK ip : ip = NextFree(ipam)
    OBVIOUS
  <2> DEFINE h == [req[r] EXCEPT !.pc = "insert", !.ip = ip]
  <2>2. /\ InRange(ipam.subnet, ip) /\ ip \notin ipam.used
        /\ ipam'.subnet = ipam.subnet /\ ipam'.used = ipam.used \union {ip} /\ ipam' \in Allocators
    BY <1>1, <1>3, <2>1, TakeTypes
  <2>3. req' = [req EXCEPT ![r] = h] /\ h.pc = "insert" /\ h.ip = ip
    BY <1>1, <1>3, <2>1 DEF ReqTypes, Handlers
  <2> HIDE DEF h
  <2>4. req'[r].pc = "insert" /\ req'[r].ip = ip /\ \A q \in Reqs \ {r} : req'[q] = req[q]
    BY <1>1, <2>3, Written
  <2>5. ~Marked(ip) /\ Marked(ip)'
    BY <1>3, <2>2 DEF Marked
  <2>6. ASSUME NEW x PROVE (Leased(x)' <=> Leased(x)) /\ (Marked(x) => Marked(x)')
    BY <1>1, <1>3, <2>2 DEF Marked, Leased
  <2>7. ~Leased(ip)
    BY <2>5 DEF Addresses, Rows, Leased, IpsOf
  <2>8. Rows'
    BY <1>1, <2>6 DEF Addresses, Rows
  <2>9. ASSUME NEW q \in Reqs PROVE Owns(req[q])'
    <3>1. CASE q = r
      BY <2>4, <2>5, <2>6, <2>7, <3>1 DEF Owns, Holds
    <3>2. CASE q # r
      BY <1>1, <2>4, <2>6, <3>2 DEF Addresses, Owns, Holds
    <3> QED
      BY <3>1, <3>2
  <2>10. ASSUME NEW q \in Reqs \ {r}, Holds(req[q]) PROVE req[q].ip # ip
    BY <2>5, <2>10 DEF Addresses, Owns
  <2>11. Apart'
    BY <2>4, <2>10 DEF Addresses, Apart, Holds
  <2> QED
    BY <2>8, <2>9, <2>11 DEF Addresses
<1> QED
  BY <1>1, <1>2, <1>3 DEF Allocate

(* Its row is the only one with the address.                               *)
LEMMA InsertAddresses ==
  ASSUME Types, Alone, Addresses, NEW r \in Reqs, InsertRow(r)
  PROVE  Addresses'
<1>1. ReqTypes /\ req[r] \in Handlers /\ ipam' = ipam /\ req[r].pc = "insert"
  BY DEF Types, ReqTypes, InsertRow, mem
<1>2. CASE Go(r, "release") /\ peers' = peers
  <2>1. /\ req'[r].pc = "release" /\ req'[r].ip = req[r].ip
        /\ \A q \in Reqs \ {r} : req'[q] = req[q]
    <3>1. req'[r] = [req[r] EXCEPT !.pc = "release"] /\ \A q \in Reqs \ {r} : req'[q] = req[q]
      BY <1>1, <1>2, Written
    <3> QED
      BY <1>1, <3>1 DEF Handlers
  <2>2. ASSUME NEW x PROVE (Leased(x)' <=> Leased(x)) /\ (Marked(x) <=> Marked(x)')
    BY <1>1, <1>2 DEF Marked, Leased
  <2>3. Rows'
    BY <1>2, <2>2 DEF Addresses, Rows
  <2>4. ASSUME NEW q \in Reqs PROVE Owns(req[q])'
    BY <1>1, <1>2, <2>1, <2>2 DEF Addresses, Owns, Holds
  <2>5. Apart'
    BY <1>1, <2>1 DEF Addresses, Apart, Holds
  <2> QED
    BY <2>3, <2>4, <2>5 DEF Addresses
<1>3. ASSUME NEW p, p.ip = req[r].ip, peers' = peers \union {p},
             req' = [req EXCEPT ![r].pc = "install", ![r].row = p]
      PROVE  Addresses'
  <2> DEFINE h == [req[r] EXCEPT !.pc = "install", !.row = p]
  <2>1. req' = [req EXCEPT ![r] = h] /\ h.pc = "install"
    BY <1>1, <1>3 DEF ReqTypes, Handlers
  <2> HIDE DEF h
  <2>2. req'[r].pc = "install" /\ \A q \in Reqs \ {r} : req'[q] = req[q]
    BY <1>1, <2>1, Written
  <2>3. ~Leased(p.ip) /\ Marked(p.ip)
    BY <1>1, <1>3 DEF Addresses, Owns, Holds
  <2>4. \A q \in Reqs \ {r} : req[q].pc \notin SoloPositions
    BY <1>1 DEF Alone, SoloPositions
  <2>5. ASSUME NEW x PROVE (Leased(x)' <=> Leased(x) \/ x = p.ip) /\ (Marked(x)' <=> Marked(x))
    BY <1>1, <1>3 DEF Leased, Marked, IpsOf
  <2>6. \A q \in peers : q.ip # p.ip
    BY <2>3 DEF Leased, IpsOf
  <2>7. Rows'
    BY <1>3, <2>3, <2>5, <2>6 DEF Addresses, Rows
  <2>8. ASSUME NEW q \in Reqs \ {r}, Holds(req[q]) PROVE req[q].ip # p.ip
    BY <1>1, <1>3, <2>8 DEF Addresses, Apart, Holds
  <2>9. ASSUME NEW q \in Reqs PROVE Owns(req[q])'
    <3>1. CASE q = r
      BY <2>2, <3>1 DEF Owns, Holds
    <3>2. CASE q # r
      <4>1. req'[q] = req[q] /\ Owns(req[q]) /\ req[q].pc \notin {"unplug", "delete", "store"}
        BY <2>2, <2>4, <3>2 DEF Addresses, SoloPositions
      <4> QED
        BY <2>5, <2>8, <3>2, <4>1 DEF Owns, Holds
    <3> QED
      BY <3>1, <3>2
  <2>10. Apart'
    BY <2>2 DEF Addresses, Apart, Holds
  <2> QED
    BY <2>7, <2>9, <2>10 DEF Addresses
<1> QED
  BY <1>1, <1>2, <1>3 DEF InsertRow

(* An address is given back when no row has it and no request holds it.    *)
LEMMA ReleaseAddresses ==
  ASSUME Types, Addresses, NEW r \in Reqs, Alone, ReleaseIp(r)
  PROVE  Addresses'
<1>1. ReqTypes /\ MemTypes /\ req[r] \in Handlers /\ req[r].pc = "release" /\ peers' = peers
  BY DEF Types, ReqTypes, ReleaseIp, db
<1>2. PICK ip \in Nat : ip = req[r].ip
  BY <1>1 DEF Types, ReqTypes, Carries
<1>3. ~Leased(ip) /\ \A q \in Reqs \ {r} : Holds(req[q]) => req[q].ip # ip
  BY <1>1, <1>2 DEF Addresses, Owns, Apart, Holds
<1>4. req'[r].pc = "idle" /\ \A q \in Reqs \ {r} : req'[q] = req[q]
  BY <1>1, Written DEF ReleaseIp, Idle
<1>5. \A q \in Reqs \ {r} : req[q].pc \notin SoloPositions
  BY <1>1 DEF Alone, SoloPositions
<1>6. \A x : x # ip => (Marked(x) => Marked(x)')
  <2>1. CASE ipam = None
    BY <2>1 DEF Marked, ReleaseIp
  <2>2. CASE ipam # None
    <3>1. /\ ipam'.subnet = ipam.subnet /\ ipam.used \ {ip} \subseteq ipam'.used
      BY <1>1, <1>2, <2>2, ReleaseTypes DEF ReleaseIp
    <3> QED
      BY <2>2, <3>1 DEF Marked
  <2> QED
    BY <2>1, <2>2
<1>7. \A x : Leased(x)' <=> Leased(x)
  BY <1>1 DEF Leased
<1>8. Rows'
  <2>1. \A p \in peers : p.ip # ip
    BY <1>3 DEF Leased, IpsOf
  <2> QED
    BY <1>1, <1>6, <2>1 DEF Addresses, Rows
<1>9. ASSUME NEW q \in Reqs PROVE Owns(req[q])'
  <2>1. CASE q = r
    BY <1>4, <2>1 DEF Owns, Holds
  <2>2. CASE q # r
    <3>1. req'[q] = req[q] /\ Owns(req[q]) /\ req[q].pc \notin {"unplug", "delete", "store"}
      BY <1>4, <1>5, <2>2 DEF Addresses, SoloPositions
    <3> QED
      BY <1>3, <1>6, <1>7, <2>2, <3>1 DEF Owns, Holds
  <2> QED
    BY <2>1, <2>2
<1>10. Apart'
  BY <1>4 DEF Addresses, Apart, Holds
<1> QED
  BY <1>8, <1>9, <1>10 DEF Addresses

(* A disable gives back the address of the row it has deleted.             *)
LEMMA DisableAddresses ==
  ASSUME Types, Alone, Addresses, NEW r \in Reqs,
         Disable(r) \/ \E u \in Users : DisableStart(r, u) /\ "disable" \in scope.kinds
  PROVE  Addresses'
<1>1. ReqTypes /\ req[r] \in Handlers /\ ipam' = ipam
  BY DEF Types, ReqTypes, Disable, Unplug, DeleteRows, DisableStart, mem
<1>2. CASE Unplug(r)
  <2>1. /\ req[r].pc = "unplug" /\ req'[r].pc = "delete" /\ peers' = peers
        /\ req'[r].row = req[r].row /\ req'[r].user = req[r].user
        /\ \A q \in Reqs \ {r} : req'[q] = req[q]
    <3>1. req[r].pc = "unplug" /\ Go(r, "delete") /\ peers' = peers
      BY <1>2 DEF Unplug, db
    <3>2. req'[r] = [req[r] EXCEPT !.pc = "delete"] /\ \A q \in Reqs \ {r} : req'[q] = req[q]
      BY <1>1, <3>1, Written
    <3> QED
      BY <1>1, <3>1, <3>2 DEF Handlers
  <2>2. \A x : (Leased(x)' <=> Leased(x)) /\ (Marked(x)' <=> Marked(x))
    BY <1>1, <2>1 DEF Leased, Marked
  <2>3. Rows'
    BY <2>1, <2>2 DEF Addresses, Rows
  <2>4. ASSUME NEW q \in Reqs PROVE Owns(req[q])'
    BY <2>1, <2>2 DEF Addresses, Owns, Holds
  <2>5. Apart'
    BY <2>1 DEF Addresses, Apart, Holds
  <2> QED
    BY <2>3, <2>4, <2>5 DEF Addresses
<1>3. CASE DeleteRows(r)
  <2>1. peers' = {p \in peers : p.user # req[r].user} /\ req[r].pc = "delete"
    BY <1>3 DEF DeleteRows
  <2>2. CASE Done(r)
    <3>1. req'[r].pc = "idle" /\ \A q \in Reqs \ {r} : req'[q] = req[q]
      BY <1>1, <2>2, Written DEF Idle
    <3> QED
      BY <1>1, <2>1, <3>1, Kept
  <2>3. ASSUME req[r].row # None,
               req' = [req EXCEPT ![r] = [Idle EXCEPT !.pc = "release", !.ip = req[r].row.ip]]
        PROVE  Addresses'
    <3>1. PICK ip : ip = req[r].row.ip
      OBVIOUS
    <3> DEFINE h == [Idle EXCEPT !.pc = "release", !.ip = ip]
    <3>2. req' = [req EXCEPT ![r] = h] /\ h.pc = "release" /\ h.ip = ip
      BY <2>3, <3>1 DEF Idle
    <3> HIDE DEF h
    <3>3. /\ req'[r].pc = "release" /\ req'[r].ip = ip
          /\ \A q \in Reqs \ {r} : req'[q] = req[q]
      BY <1>1, <3>2, Written
    <3>4. Marked(ip) /\ \A p \in peers : p.ip = ip => p.user = req[r].user
      BY <2>1, <2>3, <3>1 DEF Addresses, Owns
    <3>5. ~Leased(ip)'
      BY <2>1, <3>4 DEF Leased, IpsOf
    <3>6. \A x : (Leased(x)' => Leased(x)) /\ (Marked(x)' <=> Marked(x))
      BY <1>1, <2>1 DEF Leased, Marked, IpsOf
    <3>7. \A q \in Reqs \ {r} : req[q].pc = "idle"
      BY <2>1 DEF Alone, SoloPositions
    <3>8. Rows'
      BY <2>1, <3>6 DEF Addresses, Rows
    <3>9. ASSUME NEW q \in Reqs PROVE Owns(req[q])'
      <4>1. CASE q = r
        BY <3>3, <3>4, <3>5, <3>6, <4>1 DEF Owns, Holds
      <4>2. CASE q # r
        BY <3>3, <3>7, <4>2 DEF Owns, Holds
      <4> QED
        BY <4>1, <4>2
    <3>10. Apart'
      BY <3>3, <3>7 DEF Apart, Holds
    <3> QED
      BY <3>8, <3>9, <3>10 DEF Addresses
  <2> QED
    BY <1>3, <2>2, <2>3 DEF DeleteRows
<1>4. ASSUME NEW u \in Users, DisableStart(r, u) PROVE Addresses'
  <2>1. PICK row \in RowsOf(u) \union {None} :
          req' = [req EXCEPT ![r] = [Idle EXCEPT !.pc = "unplug", !.user = u, !.row = row]]
    BY <1>4 DEF DisableStart
  <2> DEFINE h == [Idle EXCEPT !.pc = "unplug", !.user = u, !.row = row]
  <2>2. req' = [req EXCEPT ![r] = h] /\ h.pc = "unplug" /\ h.user = u /\ h.row = row
    BY <2>1 DEF Idle
  <2> HIDE DEF h
  <2>3. /\ req'[r].pc = "unplug" /\ req'[r].user = u /\ req'[r].row = row
        /\ peers' = peers /\ \A q \in Reqs \ {r} : req'[q] = req[q]
    BY <1>1, <1>4, <2>2, Written DEF DisableStart, db
  <2>4. row # None => Marked(row.ip) /\ \A p \in peers : p.ip = row.ip => p.user = u
    BY DEF RowsOf, Addresses, Rows
  <2>5. \A x : (Leased(x)' <=> Leased(x)) /\ (Marked(x)' <=> Marked(x))
    BY <1>1, <2>3 DEF Leased, Marked
  <2>6. Rows'
    BY <2>3, <2>5 DEF Addresses, Rows
  <2>7. ASSUME NEW q \in Reqs PROVE Owns(req[q])'
    <3>1. CASE q = r
      BY <2>3, <2>4, <2>5, <3>1 DEF Owns, Holds
    <3>2. CASE q # r
      BY <2>3, <2>5, <3>2 DEF Addresses, Owns, Holds
    <3> QED
      BY <3>1, <3>2
  <2>8. Apart'
    BY <2>3 DEF Addresses, Apart, Holds
  <2> QED
    BY <2>6, <2>7, <2>8 DEF Addresses
<1> QED
  BY <1>2, <1>3, <1>4 DEF Disable

(* A rotation leaves every address where it is.                            *)
LEMMA RekeyAddresses ==
  ASSUME Types, Alone, Addresses, NEW r \in Reqs, Rekey(r)
  PROVE  Addresses'
<1>1. ReqTypes /\ ipam' = ipam /\ req[r].pc = "rekey"
  BY DEF Types, Rekey, mem
<1>2. CASE Done(r) /\ peers' = peers
  <2>1. req'[r].pc = "idle" /\ \A q \in Reqs \ {r} : req'[q] = req[q]
    BY <1>1, <1>2, Written DEF Idle
  <2> QED
    BY <1>1, <1>2, <2>1, Kept
<1>3. ASSUME Go(r, "reread"), NEW f \in [peers -> Row], peers' = {f[q] : q \in peers},
             \A q \in peers : f[q].user = q.user /\ f[q].ip = q.ip
      PROVE  Addresses'
  <2>1. req'[r].pc = "reread" /\ \A q \in Reqs \ {r} : req'[q] = req[q]
    BY <1>1, <1>3, Written
  <2>2. \A x : (Leased(x)' <=> Leased(x)) /\ (Marked(x)' <=> Marked(x))
    BY <1>1, <1>3 DEF Leased, Marked, IpsOf
  <2>3. \A q \in Reqs \ {r} : req[q].pc \notin SoloPositions
    BY <1>1 DEF Alone, SoloPositions
  <2>4. Rows'
    BY <1>3, <2>2 DEF Addresses, Rows
  <2>5. ASSUME NEW q \in Reqs PROVE Owns(req[q])'
    <3>1. CASE q = r
      BY <2>1, <3>1 DEF Owns, Holds
    <3>2. CASE q # r
      <4>1. req'[q] = req[q] /\ Owns(req[q]) /\ req[q].pc \notin {"unplug", "delete", "store"}
        BY <2>1, <2>3, <3>2 DEF Addresses, SoloPositions
      <4> QED
        BY <2>2, <4>1 DEF Owns, Holds
    <3> QED
      BY <3>1, <3>2
  <2>6. Apart'
    BY <2>1 DEF Addresses, Apart, Holds
  <2> QED
    BY <2>4, <2>5, <2>6 DEF Addresses
<1> QED
  BY <1>2, <1>3, RekeyRows

(* A new allocator knows every row there is.                               *)
LEMMA SeedAddresses ==
  ASSUME Types, Alone, Addresses, NEW r \in Reqs, SeedList(r) \/ SeedStore(r)
  PROVE  Addresses'
<1>1. /\ ReqTypes /\ req[r] \in Handlers /\ peers' = peers /\ req[r].pc \in {"seed", "store"}
      /\ MemTypes /\ peers \subseteq Row
  BY DEF Types, DbTypes, ReqTypes, SeedList, SeedStore, db
<1>2. \A q \in Reqs \ {r} : req[q].pc = "idle"
  BY <1>1 DEF Alone, SoloPositions
<1>3. /\ \A q \in Reqs \ {r} : req'[q].pc = "idle"
      /\ ~Holds(req'[r]) /\ req'[r].pc \notin {"unplug", "delete"}
      /\ req'[r].pc = "store" => peers' \subseteq req'[r].rows
  <2>1. ASSUME Done(r) \/ Go(r, "list")
        PROVE  /\ \A q \in Reqs \ {r} : req'[q] = req[q]
               /\ req'[r].pc \in {"idle", "list"}
    <3>1. CASE Done(r)
      BY <1>1, <3>1, Written DEF Idle
    <3>2. CASE Go(r, "list")
      BY <1>1, <3>2, Written
    <3> QED
      BY <2>1, <3>1, <3>2
  <2>2. ASSUME req' = [req EXCEPT ![r].pc = "store", ![r].net = subnet, ![r].rows = peers]
        PROVE  /\ \A q \in Reqs \ {r} : req'[q] = req[q]
               /\ req'[r].pc = "store" /\ req'[r].rows = peers
    <3>1. PICK h : h = [req[r] EXCEPT !.pc = "store", !.net = subnet, !.rows = peers]
      OBVIOUS
    <3>2. req' = [req EXCEPT ![r] = h] /\ h.pc = "store" /\ h.rows = peers
      BY <1>1, <2>2, <3>1 DEF ReqTypes, Handlers
    <3> QED
      BY <1>1, <3>2, Written
  <2> QED
    BY <1>1, <1>2, <2>1, <2>2 DEF SeedList, SeedStore, AfterSeed, Holds
<1>4. Rows'
  <2>1. \A p, q \in peers : p.ip = q.ip => p = q
    BY DEF Addresses, Rows
  <2>2. CASE UNCHANGED ipam
    BY <1>1, <2>2 DEF Addresses, Rows, Marked
  <2>3. CASE ipam' = None
    BY <1>1, <2>1, <2>3 DEF Rows, Marked
  <2>4. CASE SeedStore(r)
    <3>1. /\ req[r].net \in Subnets \union {None} /\ req[r].rows \in SUBSET Row
          /\ ipam' = Rebuilt(req[r].net, req[r].rows)
      BY <1>1, <2>4 DEF SeedStore, Handlers
    <3>2. peers \subseteq req[r].rows
      BY <2>4 DEF SeedStore, Addresses, Owns
    <3>3. ipam' # None => \A p \in req[r].rows : InRange(ipam'.subnet, p.ip) => p.ip \in ipam'.used
      BY <3>1, RebuiltTypes
    <3>4. \A p \in peers' : Marked(p.ip)'
      BY <1>1, <3>2, <3>3 DEF Marked
    <3> QED
      BY <1>1, <2>1, <3>4 DEF Rows
  <2> QED
    BY <2>2, <2>3, <2>4 DEF SeedList
<1>5. ASSUME NEW q \in Reqs PROVE Owns(req[q])'
  BY <1>3 DEF Owns, Holds
<1>6. Apart'
  BY <1>3 DEF Apart, Holds
<1> QED
  BY <1>4, <1>5, <1>6 DEF Addresses

LEMMA RestartAddresses ==
  ASSUME Types, Addresses, Restart
  PROVE  Addresses'
<1>1. /\ wanted' \in Subnets \union {None} /\ peers \in SUBSET Row /\ peers' = peers
      /\ ipam' = Rebuilt(wanted', peers) /\ \A r \in Reqs : req'[r].pc = "idle"
  BY WgAssumption DEF Restart, Hydrated, Types, DbTypes, Idle
<1>2. Rows'
  BY <1>1, RebuiltTypes DEF Addresses, Rows, Marked
<1>3. Apart' /\ \A r \in Reqs : Owns(req[r])'
  BY <1>1 DEF Apart, Owns, Holds
<1> QED
  BY <1>2, <1>3 DEF Addresses

(* Every other request of the driver.                                      *)
LEMMA OtherAddresses ==
  ASSUME ~MayFail, Types, Device, Addresses, UNCHANGED scope, NEW r \in Reqs,
         \/ Install(r) \/ Reread(r) \/ SwapOut(r) \/ SwapIn(r)
         \/ SavePatch(r) \/ Reload(r) \/ SetSubnet(r) \/ Lifecycle(r) \/ GiveUp(r)
         \/ \E u \in Users, k \in scope.keys \union {None} : EnableStart(r, u, k) \/ RotateStart(r, u, k)
         \/ \E s \in scope.subnets \union {None} : PatchStart(r, s)
  PROVE  Addresses'
<1> DEFINE Away == {"idle", "swap", "replace", "subnet", "seed", "list", "up", "mark", "down",
                    "allocate", "rekey", "save"}
<1>1. ReqTypes /\ req[r] \in Handlers
  BY DEF Types, ReqTypes
<1>2. ipam' = ipam /\ peers' = peers
  BY DEF Install, Reread, SwapOut, SwapIn, SavePatch, Reload, SetSubnet, GiveUp,
         Lifecycle, StartBegin, SpawnList, BringUp, MarkStarted, StopBegin, Down,
         EnableStart, RotateStart, PatchStart, db, mem
<1>3. ASSUME NEW h, req' = [req EXCEPT ![r] = h], h.pc \in Away PROVE Addresses'
  <2>1. req'[r].pc \in Away /\ \A q \in Reqs \ {r} : req'[q] = req[q]
    BY <1>1, <1>3, Written
  <2> QED
    BY <1>2, <2>1, Kept
<1>4. CASE Done(r)
  BY <1>3, <1>4 DEF Done, Idle
<1>5. ASSUME NEW p \in Away, Go(r, p) PROVE Addresses'
  <2>1. req'[r].pc = p /\ \A q \in Reqs \ {r} : req'[q] = req[q]
    BY <1>1, <1>5, Written
  <2> QED
    BY <1>2, <1>5, <2>1, Kept
<1>6. CASE Install(r)
  BY <1>4, <1>6 DEF Install, Device
<1>7. CASE Reread(r)
  <2>1. ASSUME NEW p, req' = [req EXCEPT ![r].pc = "swap", ![r].new = p] PROVE Addresses'
    <3>1. PICK h : h = [req[r] EXCEPT !.pc = "swap", !.new = p]
      OBVIOUS
    <3>2. req' = [req EXCEPT ![r] = h] /\ h.pc = "swap"
      BY <1>1, <2>1, <3>1 DEF ReqTypes, Handlers
    <3> QED
      BY <1>3, <3>2
  <2> QED
    BY <1>4, <1>7, <2>1 DEF Reread
<1>8. CASE SwapOut(r) \/ SwapIn(r)
  BY <1>4, <1>5, <1>8 DEF SwapOut, SwapIn
<1>9. CASE SavePatch(r) \/ SetSubnet(r)
  BY <1>4, <1>5, <1>9 DEF SavePatch, SetSubnet
<1>10. CASE Reload(r)
  <2>1. PICK h : h = [Idle EXCEPT !.pc = "subnet", !.net = wanted]
    OBVIOUS
  <2> QED
    BY <1>3, <1>10, <2>1 DEF Reload, Idle
<1>11. CASE StartBegin(r)
  <2>1. PICK h : h = [Idle EXCEPT !.pc = "seed", !.spawn = TRUE]
    OBVIOUS
  <2> QED
    BY <1>3, <1>11, <2>1 DEF StartBegin, Idle
<1>12. CASE SpawnList(r)
  <2>1. PICK h : h = [req[r] EXCEPT !.pc = "up", !.rows = peers]
    OBVIOUS
  <2>2. req' = [req EXCEPT ![r] = h] /\ h.pc = "up"
    BY <1>1, <1>12, <2>1 DEF SpawnList, ReqTypes, Handlers
  <2> QED
    BY <1>3, <2>2
<1>13. CASE BringUp(r)
  BY <1>5, <1>13 DEF BringUp
<1>14. CASE StopBegin(r)
  <2>1. PICK h : h = [Idle EXCEPT !.pc = "down"]
    OBVIOUS
  <2> QED
    BY <1>3, <1>14, <2>1 DEF StopBegin, Idle
<1>15. CASE MarkStarted(r) \/ Down(r) \/ GiveUp(r)
  BY <1>4, <1>15 DEF MarkStarted, Down, GiveUp
<1>16. ASSUME NEW u, NEW k, EnableStart(r, u, k) PROVE Addresses'
  <2>1. PICK h : h = [Idle EXCEPT !.pc = "allocate", !.user = u, !.key = k]
    OBVIOUS
  <2> QED
    BY <1>3, <1>16, <2>1 DEF EnableStart, Idle
<1>17. ASSUME NEW u, NEW k, RotateStart(r, u, k) PROVE Addresses'
  <2>1. PICK row \in RowsOf(u) :
          req' = [req EXCEPT ![r] = [Idle EXCEPT !.pc = "rekey", !.user = u, !.key = k, !.row = row]]
    BY <1>17 DEF RotateStart
  <2>2. PICK h : h = [Idle EXCEPT !.pc = "rekey", !.user = u, !.key = k, !.row = row]
    OBVIOUS
  <2>3. req' = [req EXCEPT ![r] = h] /\ h.pc = "rekey"
    BY <2>1, <2>2 DEF Idle
  <2> QED
    BY <1>3, <2>3
<1>18. ASSUME NEW s, PatchStart(r, s) PROVE Addresses'
  <2>1. PICK h : h = [Idle EXCEPT !.pc = "save", !.net = s, !.before = wanted]
    OBVIOUS
  <2> QED
    BY <1>3, <1>18, <2>1 DEF PatchStart, Idle
<1> QED
  BY <1>6, <1>7, <1>8, <1>9, <1>10, <1>11, <1>12, <1>13, <1>14, <1>15, <1>16, <1>17, <1>18 DEF Lifecycle

LEMMA AddressesStep ==
  ASSUME Orderly, ~MayFail, Types, Alone, Device, Addresses, [Next /\ UNCHANGED scope]_vars
  PROVE  Addresses'
<1>1. scope' = scope
  BY DEF vars
<1>2. ASSUME NEW r \in Reqs, Request(r) PROVE Addresses'
  BY <1>1, <1>2, AllocateAddresses, InsertAddresses, ReleaseAddresses, DisableAddresses,
     RekeyAddresses, SeedAddresses, OtherAddresses
  DEF Request, Enable, Disable, Rotate, Resize, DisableStart, Accepts
<1>3. CASE ipam' = ipam /\ req' = req /\ peers' \subseteq peers
  <2>1. CASE Reqs = {}
    BY <1>3, <2>1 DEF Addresses, Rows, Apart, Marked
  <2>2. ASSUME NEW r \in Reqs PROVE Addresses'
    BY <1>3, Kept
  <2> QED
    BY <2>1, <2>2
<1> QED
  BY <1>2, <1>3, RestartAddresses
  DEF Next, vars, db, mem, DeleteUser, ControlPatch, Sync, SyncList, SyncLive, SyncRemove, SyncAdd

LEMMA AddressesHold ==
  ASSUME Orderly, ~MayFail
  PROVE  Spec => []Addresses
<1>1. Types /\ Alone /\ Device /\ Addresses /\ [Next /\ UNCHANGED scope]_vars => Addresses'
  BY AddressesStep
<1> QED
  BY <1>1, InitAddresses, DeviceHolds, PTL DEF Spec

(* The allocator never offers an address that a row of wg_peers has, when  *)
(* admins keep to Orderly and no backend call fails (ipam.rs 3-5).         *)
THEOREM LeasedStayMarked ==
  ASSUME Orderly, ~MayFail
  PROVE  Spec => []LeasedAreMarked
<1>1. Addresses => LeasedAreMarked
  BY DEF Addresses, Rows, Marked, LeasedAreMarked
<1> QED
  BY <1>1, AddressesHold, PTL

(* An address on its way into a row is nobody else's, so the UNIQUE column *)
(* never refuses it.                                                       *)
THEOREM HandoutsAreExclusive ==
  ASSUME Orderly, ~MayFail
  PROVE  Spec => []HandoutsExclusive
<1>1. Addresses => HandoutsExclusive
  BY DEF Addresses, Apart, Owns, Holds, Leased, HandoutsExclusive
<1> QED
  BY <1>1, AddressesHold, PTL
=============================================================================
