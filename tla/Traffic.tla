------------------------------ MODULE Traffic ------------------------------
(***************************************************************************)
(* Traffic accounting: the sampler of the WireGuard driver                 *)
(* (wg-driver/src/traffic.rs) folds the counters of the device, which      *)
(* start at zero whenever a peer is installed, into a total and hourly     *)
(* buckets per peer (db/src/traffic.rs).  A pass lists the counters, then  *)
(* the rows, and records one peer after the other, while peers come and    *)
(* go, change their keys, and the driver starts and stops.                 *)
(*                                                                         *)
(* One of the two directions is modelled; record treats both alike.        *)
(* Widths are left out: a total saturates at 2^63 - 1 bytes.               *)
(***************************************************************************)
EXTENDS Integers, FiniteSets, Functions

CONSTANTS
  Ids,       \* ids of peer rows, each used once (UUIDv7)
  Keys,      \* public keys
  Samplers,  \* loops that start_traffic_sampler may spawn
  None,
  MaxBytes,  \* bound on the bytes a key carries
  MaxHour,   \* bound on the clock
  MaxEvents, \* bound on what happens to rows, peers and the driver
  Scopes     \* one of these sets of "clock" (hours pass), "churn" (peers come
             \* and go), "reuse" (of keys) and "overlap" (a start during a stop)

ASSUME TrafficAssumption ==
  /\ None \notin Ids \union Keys \union Samplers /\ None \notin [total : Nat, last : Nat]
  /\ IsFiniteSet(Keys) /\ MaxBytes \in Nat /\ MaxHour \in Nat \ {0} /\ MaxEvents \in Nat
  /\ Scopes \subseteq SUBSET {"clock", "churn", "reuse", "overlap"}

VARIABLES
  rows,     \* the key of a peer row
  traffic,  \* wg_peer_traffic
  samples,  \* wg_peer_traffic_samples
  counter,  \* of each key on the device
  carried,  \* what each key has carried in all
  owned,    \* the keys each row has had
  hour,
  started,  \* WgDriverInner.started
  device,   \* the backend is up
  slot,     \* WgDriverInner.traffic_sampler
  stopping, \* the sampler that stop waits for
  pass,     \* each sampler's pass
  events, scope

vars == <<rows, traffic, samples, counter, carried, owned, hour, started, device, slot, stopping, pass, events, scope>>

table  == <<rows, traffic, samples, owned>>
wire   == <<counter, carried>>
driver == <<started, device, slot, stopping>>

Absent == -1
Hours  == 1 .. MaxHour
Off    == [at |-> "off", stats |-> [k \in Keys |-> Absent], ids |-> [k \in Keys |-> None], now |-> 1]
Rest   == [Off EXCEPT !.at = "rest"]

Init ==
  /\ rows = [i \in Ids |-> None] /\ owned = [i \in Ids |-> {}]
  /\ traffic = [i \in Ids |-> None] /\ samples = [i \in Ids |-> [h \in Hours |-> 0]]
  /\ counter = [k \in Keys |-> Absent] /\ carried = [k \in Keys |-> 0] /\ hour = 1
  /\ started = FALSE /\ device = FALSE /\ slot = None /\ stopping = None
  /\ pass = [s \in Samplers |-> Off] /\ events = 0 /\ scope \in Scopes

Event == events < MaxEvents /\ events' = events + 1
Has(k) == \E i \in Ids : rows[i] = k
Fresh(k) == ~Has(k) /\ ("reuse" \in scope \/ \A i \in Ids : k \notin owned[i])

----------------------------------------------------------------------------
(* The device.                                                             *)

Carry(k) ==
  /\ counter[k] # Absent /\ carried[k] < MaxBytes
  /\ counter' = [counter EXCEPT ![k] = @ + 1] /\ carried' = [carried EXCEPT ![k] = @ + 1]
  /\ UNCHANGED <<table, hour, driver, pass, events>>

(* Any of enable, rotate, sync_from_db and the lazy lookup.                *)
Install(k) ==
  /\ started /\ device /\ counter[k] = Absent /\ Has(k)
  /\ counter' = [counter EXCEPT ![k] = 0]
  /\ UNCHANGED <<table, carried, hour, driver, pass, events>>

(* disable, rotate, sync_from_db and the eviction of idle peers.           *)
Remove(k) ==
  /\ "churn" \in scope /\ Event
  /\ counter[k] # Absent /\ counter' = [counter EXCEPT ![k] = Absent]
  /\ UNCHANGED <<table, carried, hour, driver, pass>>

NextHour ==
  /\ "clock" \in scope /\ hour < MaxHour /\ hour' = hour + 1
  /\ UNCHANGED <<table, wire, driver, pass, events>>

----------------------------------------------------------------------------
(* The rows.                                                               *)

Create(i, k) ==
  /\ rows[i] = None /\ owned[i] = {} /\ Fresh(k)
  /\ rows' = [rows EXCEPT ![i] = k] /\ owned' = [owned EXCEPT ![i] = {k}]
  /\ UNCHANGED <<traffic, samples, wire, hour, driver, pass, events>>

Rekey(i, k) ==
  /\ "churn" \in scope /\ Event /\ rows[i] # None /\ Fresh(k)
  /\ rows' = [rows EXCEPT ![i] = k] /\ owned' = [owned EXCEPT ![i] = @ \union {k}]
  /\ UNCHANGED <<traffic, samples, wire, hour, driver, pass>>

(* ON DELETE CASCADE.                                                      *)
Delete(i) ==
  /\ "churn" \in scope /\ Event /\ rows[i] # None
  /\ rows' = [rows EXCEPT ![i] = None] /\ traffic' = [traffic EXCEPT ![i] = None]
  /\ samples' = [samples EXCEPT ![i] = [h \in Hours |-> 0]]
  /\ UNCHANGED <<owned, wire, hour, driver, pass>>

----------------------------------------------------------------------------
(* WgTrafficRepo::record, one transaction.  A counter below the last one   *)
(* has started again.                                                      *)
Last(i)  == IF traffic[i] = None THEN 0 ELSE traffic[i].last
Total(i) == IF traffic[i] = None THEN 0 ELSE traffic[i].total
(* Mutation: the first reading is the base line, not traffic.              *)
DeltaFromFirst(i, raw) ==
  IF traffic[i] = None THEN 0 ELSE IF raw < Last(i) THEN raw ELSE raw - Last(i)

Delta(i, raw) == IF raw < Last(i) THEN raw ELSE raw - Last(i)

(* Mutation: the last reading is kept only when it is the larger.          *)
RecordHighWater(i, raw, now) ==
  /\ traffic' = [traffic EXCEPT ![i] =
                   [total |-> Total(i) + Delta(i, raw), last |-> IF raw > Last(i) THEN raw ELSE Last(i)]]
  /\ samples' = [samples EXCEPT ![i][now] = @ + Delta(i, raw)]

Record(i, raw, now) ==
  /\ traffic' = [traffic EXCEPT ![i] = [total |-> Total(i) + Delta(i, raw), last |-> raw]]
  /\ samples' = [samples EXCEPT ![i][now] = @ + Delta(i, raw)]

----------------------------------------------------------------------------
(* sample_once.                                                            *)

(* list_peer_stats: a backend without a device has none.                   *)
Readings == [k \in Keys |-> IF device THEN counter[k] ELSE Absent]

ListStats(s) ==
  /\ pass[s].at = "rest" /\ \E k \in Keys : Readings[k] # Absent
  /\ pass' = [pass EXCEPT ![s] = [Rest EXCEPT !.at = "stats", !.stats = Readings]]
  /\ UNCHANGED <<table, wire, hour, driver, events>>

ListRows(s) ==
  /\ pass[s].at = "stats"
  /\ pass' = [pass EXCEPT ![s].at = "record", ![s].now = hour,
               ![s].ids = [k \in Keys |-> IF Has(k) THEN CHOOSE i \in Ids : rows[i] = k ELSE None]]
  /\ UNCHANGED <<table, wire, hour, driver, events>>

Due(s) == {k \in Keys : pass[s].stats[k] # Absent}

(* A key without a row is passed over.  A row that has gone refuses the    *)
(* insert (foreign key); that is logged and passed over too.               *)
RecordOne(s) ==
  /\ pass[s].at = "record"
  /\ \E k \in Due(s) :
       LET i == pass[s].ids[k]
           known == i # None /\ rows[i] # None
       IN /\ IF known THEN Record(i, pass[s].stats[k], pass[s].now) ELSE UNCHANGED <<traffic, samples>>
          /\ pass' = [pass EXCEPT ![s] = IF Due(s) = {k} THEN Rest ELSE [@ EXCEPT !.stats[k] = Absent]]
  /\ UNCHANGED <<rows, owned, wire, hour, driver, events>>

(* The loop looks at its token between passes only.                        *)
LoopEnds(s) ==
  /\ pass[s].at = "rest" /\ slot # s
  /\ pass' = [pass EXCEPT ![s] = Off]
  /\ UNCHANGED <<table, wire, hour, driver, events>>

Sample(s) == ListStats(s) \/ ListRows(s) \/ RecordOne(s) \/ LoopEnds(s)

----------------------------------------------------------------------------
(* spawn_real: up, started, then start_traffic_sampler.  The counters of a *)
(* device that a stop has not yet taken down go on.                        *)
Start ==
  /\ ~started /\ slot = None /\ (stopping = None \/ "overlap" \in scope)
  /\ \E s \in Samplers :
       /\ pass[s].at = "off" /\ slot' = s /\ pass' = [pass EXCEPT ![s] = Rest]
  /\ started' = TRUE /\ device' = TRUE
  /\ UNCHANGED <<table, wire, hour, stopping, events>>

(* stop: the flag, the sampler's token.                                    *)
StopBegin ==
  /\ started /\ stopping = None /\ Event
  /\ started' = FALSE /\ stopping' = slot /\ slot' = None
  /\ UNCHANGED <<table, wire, hour, device, pass>>

(* The sampler has been awaited; the device goes.                          *)
Down ==
  /\ stopping # None /\ pass[stopping].at = "off"
  /\ stopping' = None /\ device' = FALSE /\ counter' = [k \in Keys |-> Absent]
  /\ UNCHANGED <<table, carried, hour, started, slot, pass, events>>

Crash ==
  /\ "churn" \in scope /\ Event
  /\ started' = FALSE /\ device' = FALSE /\ slot' = None /\ stopping' = None
  /\ pass' = [s \in Samplers |-> Off] /\ counter' = [k \in Keys |-> Absent]
  /\ UNCHANGED <<table, carried, hour>>

----------------------------------------------------------------------------
Rows == \E i \in Ids : Delete(i) \/ \E k \in Keys : Create(i, k) \/ Rekey(i, k)

Next ==
  \/ \E k \in Keys : Carry(k) \/ Install(k) \/ Remove(k)
  \/ NextHour \/ Rows
  \/ \E s \in Samplers : Sample(s)
  \/ Start \/ StopBegin \/ Down \/ Crash

Spec == Init /\ [][Next /\ UNCHANGED scope]_vars

(* The loop has its own timer and waits for nothing but the database.      *)
FairSpec == Spec /\ \A s \in Samplers : WF_vars(Sample(s) /\ UNCHANGED scope)

----------------------------------------------------------------------------
Sum(f, S) == FoldFunctionOnSet(LAMBDA x, y : x + y, 0, f, S)

TypeOK ==
  /\ rows \in [Ids -> Keys \union {None}] /\ owned \in [Ids -> SUBSET Keys]
  /\ traffic \in [Ids -> [total : Nat, last : Nat] \union {None}]
  /\ samples \in [Ids -> [Hours -> Nat]]
  /\ counter \in [Keys -> Nat \union {Absent}] /\ carried \in [Keys -> 0 .. MaxBytes] /\ hour \in Hours
  /\ {started, device} \subseteq BOOLEAN /\ slot \in Samplers \union {None} /\ stopping \in Samplers \union {None}
  /\ pass \in [Samplers -> [at : {"off", "rest", "stats", "record"}, stats : [Keys -> Nat \union {Absent}],
                            ids : [Keys -> Ids \union {None}], now : Hours]]
  /\ events \in 0 .. MaxEvents /\ scope \in Scopes

(* A peer is never charged for more than its keys have carried, whatever    *)
(* is reinstalled, rekeyed, deleted or restarted between two statements of *)
(* a pass (the unit test knows one reset), and its total and its hourly    *)
(* buckets tell the same story (0002_traffic_stats.sql).                   *)
NeverOvercharged ==
  \A i \in Ids : Total(i) = Sum(samples[i], Hours) /\ Total(i) <= Sum(carried, owned[i])

(* A peer that stays on the device of a driver that runs is charged for     *)
(* every byte.                                                             *)
SteadyCountsAll ==
  \A i \in Ids, k \in Keys :
    <>[](started /\ rows[i] = k) /\ [](owned[i] \subseteq {k} /\ "churn" \notin scope /\ events = 0)
      => <>[](Total(i) = carried[k])

(* users.rs:192-194 "since the peer was first observed; survives interface  *)
(* and process restarts": what was carried is counted in the end.          *)
RestartsCountAll ==
  \A i \in Ids, k \in Keys :
    <>[](started /\ rows[i] = k) /\ []("churn" \notin scope) => <>[](Total(i) = carried[k])
=============================================================================
