------------------------------- MODULE WgIpam -------------------------------
(* The address allocator of crates/wg-driver/src/ipam.rs.  An address is a *)
(* number, a subnet the record [net, bcast] of its first and last address, *)
(* an allocator the record [subnet, used].                                 *)
EXTENDS Naturals

Contains(s, ip) == ip \in s.net .. s.bcast

(* host_range: nothing is usable in a /31 or a /32.                        *)
HostRange(s) == IF s.bcast > s.net + 1 THEN (s.net + 1) .. (s.bcast - 1) ELSE {}

(* The first host address is the server's.                                 *)
Server(s) == s.net + 1

(* check_in_range: the server's own address passes it.                     *)
InRange(s, ip) == Contains(s, ip) /\ ip # s.net /\ ip # s.bcast

(* new + mark_used for every leased address; those outside are skipped.    *)
Seeded(s, ips) == [subnet |-> s, used |-> {ip \in ips : InRange(s, ip)}]

(* Mutation: addresses in use are offered again.                           *)
FreeAny(m) == HostRange(m.subnet) \ {Server(m.subnet)}

Free(m) == HostRange(m.subnet) \ (m.used \union {Server(m.subnet)})

(* allocate takes the lowest free host address.                            *)
NextFree(m) == CHOOSE ip \in Free(m) : \A other \in Free(m) : ip <= other

Take(m, ip) == [m EXCEPT !.used = @ \union {ip}]

(* release: out of range and the server's address are refused.             *)
Release(m, ip) ==
  IF InRange(m.subnet, ip) /\ ip # Server(m.subnet)
  THEN [m EXCEPT !.used = @ \ {ip}] ELSE m
=============================================================================
