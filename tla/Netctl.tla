------------------------------- MODULE Netctl -------------------------------
(***************************************************************************)
(* The iptables rule manager (crates/netctl/src/manager.rs): the table     *)
(* iptables_rules, the live ruleset of the kernel, and the tasks that      *)
(* change both: admin requests, the control poller's rules                 *)
(* (apply_iptables), the baseline rules of the WireGuard driver and the    *)
(* reconcile of the boot.                                                  *)
(*                                                                         *)
(* A task is the list of statements it still has to run; each statement is *)
(* one await on the database or on an iptables process, and replaces       *)
(* itself by the statements that follow from its answer.  No lock covers   *)
(* two of them.                                                            *)
(***************************************************************************)
EXTENDS Naturals, Sequences, FiniteSets, Functions

CONSTANTS
  Tasks,      \* tasks that may run together
  Scopes,     \* what takes part: task -> the operations it may start
  Keys,       \* rule contents: table, chain, spec, comment, priority
  Prio,       \* key -> its priority
  Rule,       \* key -> its table, its chain and the words of its spec, in lower
              \* case; a word is the set of its parts between commas
  Baseline,   \* contents of the WireGuard driver's rules, in order
  Snapshots,  \* rule sets the control center may declare
  Strays,     \* nsp rules that an earlier installation may have left
  MayFail,    \* TRUE: a call of iptables, or a rollback, may fail
  MaxFresh    \* bound on the rule ids

Sources  == {"user", "wg-driver", "control"}
AllKinds == {"register", "remove", "reconcile", "start", "stop", "subnet", "control", "giveup"}
Boot     == "boot"

ASSUME NetAssumption ==
  /\ Scopes \subseteq [Tasks -> SUBSET AllKinds] /\ Boot \notin Tasks
  /\ Prio \in [Keys -> Nat] /\ Rule \in [Keys -> [table : STRING, chain : STRING, words : Seq(SUBSET STRING)]]
  /\ Baseline \in Seq(Keys) /\ \A s \in Snapshots : s \subseteq Keys /\ IsFiniteSet(s)
  /\ Strays \subseteq [id : {0}, src : Sources, key : Keys, at : {1}]
  /\ MayFail \in BOOLEAN /\ MaxFresh \in Nat

VARIABLES
  rows,    \* table iptables_rules
  kernel,  \* live rules tagged nsp:<src>:<id>; `at` is their place in the chain
  job,     \* task -> what it is running
  wg,      \* the WireGuard driver's `started`
  fresh,   \* last rule id
  scope,   \* never changes: a behaviour belongs to one of Scopes
  refused, \* history: the ids of the rules that stayed when -D was refused
  owed     \* history: task -> the rows its reconcile listed, without those on
           \* which another task has called -D since

vars == <<rows, kernel, job, wg, fresh, scope, refused, owed>>

Row   == [id : 0 .. MaxFresh, src : Sources, key : Keys]
Entry == [id : 0 .. MaxFresh, src : Sources, key : Keys, at : Nat]

-----------------------------------------------------------------------------
(* Statements.                                                             *)

Insert(src, key) == [do |-> "insert", src |-> src, key |-> key]
OnRow(do, row)   == [do |-> do, row |-> row]
Get(id, src)     == [do |-> "get", id |-> id, src |-> src]
BySource(src)    == [do |-> "bysource", src |-> src]
ListRows         == [do |-> "listrows"]
ListLive(set)    == [do |-> "listlive", rows |-> set]
Match            == [do |-> "match"]
Report           == [do |-> "report"]

Inserts(src, keys) == [i \in DOMAIN keys |-> Insert(src, keys[i])]

Gets(src, list)    == [i \in DOMAIN list |-> Get(list[i].id, src)]
OnRows(do, list)   == [i \in DOMAIN list |-> OnRow(do, list[i])]

Repairs(missing, stale) == Append(OnRows("reinsert", missing) \o OnRows("prune", stale), Report)
Declares(list, keys)    == Append(Gets("control", list) \o Inserts("control", keys), Report)

(* Each row in turn: first the one statement on it, then the other.        *)
Both(one, other, list) ==
  [i \in 1 .. 2 * Len(list) |-> OnRow(IF i % 2 = 1 THEN one ELSE other, list[(i + 1) \div 2])]

(* Mutation: the row goes before the rule.                                 *)
UninstallsLate(list) == Both("delete", "uninstall", list)
Uninstalls(list) == Both("uninstall", "delete", list)

(* The members of a finite set in some order, and the order of             *)
(* IptablesRepo::list: by priority, then age.                              *)
Orders(set) == Bijection(1 .. Cardinality(set), set)
Earlier(a, b) == \/ Prio[a.key] < Prio[b.key]
                 \/ Prio[a.key] = Prio[b.key] /\ a.id < b.id
Listed(set) == {list \in Orders(set) : \A i, j \in DOMAIN list : i < j => Earlier(list[i], list[j])}

NoJob == [kind |-> "none", todo |-> <<>>, clean |-> TRUE, dropped |-> FALSE,
          desired |-> {}, prune |-> FALSE]
NewJob(kind, todo) == [NoJob EXCEPT !.kind = kind, !.todo = todo]

Idle(t) == job[t] = NoJob
At(t, do) == job[t].todo # <<>> /\ Head(job[t].todo).do = do
Stmt(t) == Head(job[t].todo)

(* A request whose client has gone: the iptables process it spawned runs   *)
(* to its end, and nothing after it does.                                  *)
Continue(t, todo, clean) ==
  job' = [job EXCEPT ![t] =
            IF todo = <<>> \/ job[t].dropped THEN NoJob
            ELSE [job[t] EXCEPT !.todo = todo, !.clean = job[t].clean /\ clean]]
Advance(t)         == Continue(t, Tail(job[t].todo), TRUE)
Expand(t, stmts)   == Continue(t, stmts \o Tail(job[t].todo), TRUE)

(* An error ends the operation; set_subnet and the boot only log it and    *)
(* go on to register the baseline rules.                                   *)
BaselineRules == Inserts("wg-driver", Baseline)
GoesOn(t) ==
  /\ Stmt(t).do \in {"uninstall", "listlive", "reinsert"}
  /\ job[t].kind = "subnet" \/ (job[t].kind = Boot /\ wg)
Fail(t) == Continue(t, IF GoesOn(t) THEN BaselineRules ELSE <<>>, FALSE)

-----------------------------------------------------------------------------
(* The kernel.                                                             *)

RowOf(e) == [id |-> e.id, src |-> e.src, key |-> e.key]
LastPlace == IF kernel = {} THEN 0 ELSE CHOOSE n \in {e.at : e \in kernel} : \A e \in kernel : e.at <= n
First(set) == {e \in set : \A f \in set : e.at <= f.at}
Copies(row) == {e \in kernel : e.id = row.id}

AppendRule(row) ==
  kernel' = kernel \union {[id |-> row.id, src |-> row.src, key |-> row.key, at |-> LastPlace + 1]}
(* iptables -D takes the first rule that matches; the ones behind move up. *)
DeleteRule(row) ==
  \/ Copies(row) = {} /\ UNCHANGED kernel
  \/ \E gone \in First(Copies(row)) :
       kernel' = {[e EXCEPT !.at = IF @ > gone.at THEN @ - 1 ELSE @] : e \in kernel \ {gone}}

(* Mutation: live_contains compares contents instead of tags.              *)
InstalledAs(live, row) == \E e \in live : e.key = row.key

(* live_contains compares the tag of a rule.                               *)
Installed(live, row) == \E e \in live : e.id = row.id

-----------------------------------------------------------------------------
(* What a rule must pass before it is stored.                              *)

Words(key)    == Rule[key].words
After(key, flags, values) ==
  \E i \in 2 .. Len(Words(key)) : Words(key)[i - 1] \in flags /\ Words(key)[i] \in values

(* validate_iptables_rule, for a whole snapshot of the control center.     *)
Complete == {k \in Keys : Rule[k].table # "" /\ Rule[k].chain # "" /\ Words(k) # <<>>}

(* validate_tokens.  A part with a shell metacharacter is one of these.    *)
Meta == {";", "|", "backquote", "$"}
Valid == {k \in Complete : \A i \in DOMAIN Words(k) : Words(k)[i] \intersect Meta = {}}

(* ssh_guard.rs.                                                           *)
SshPort == {"22", "ssh"}
MatchesSshPort(key) ==
  \/ After(key, {{"--dport"}, {"--destination-port"}}, {{p} : p \in SshPort})
  \/ \E w \in {Words(key)[i] : i \in DOMAIN Words(key)} :
       w \intersect SshPort # {} /\ After(key, {{"--dports"}, {"--destination-ports"}}, {w})
MentionsDropOrReject(key) == After(key, {{"-j"}, {"--jump"}}, {{"drop"}, {"reject"}})
Guarded == {k \in Keys : /\ Rule[k].table = "filter" /\ Rule[k].chain \in {"input", "forward"}
                         /\ MatchesSshPort(k) /\ MentionsDropOrReject(k)}

-----------------------------------------------------------------------------
(* register.                                                               *)

(* Mutation: an id is used twice.                                          *)
InsertRowAgain(t) ==
  /\ At(t, "insert")
  /\ LET row == [id |-> fresh + 1, src |-> Stmt(t).src, key |-> Stmt(t).key] IN
     /\ rows' = rows \union {row} /\ Expand(t, <<OnRow("append", row)>>)
  /\ UNCHANGED <<kernel, wg, fresh>>

InsertRow(t) ==
  /\ At(t, "insert") /\ Stmt(t).key \in Valid /\ fresh < MaxFresh
  /\ LET row == [id |-> fresh + 1, src |-> Stmt(t).src, key |-> Stmt(t).key] IN
     /\ fresh' = fresh + 1 /\ rows' = rows \union {row}
     /\ Expand(t, <<OnRow("append", row)>>)
  /\ UNCHANGED <<kernel, wg>>

(* The rules before it in the list stay.                                   *)
RefuseRule(t) ==
  /\ At(t, "insert") /\ Stmt(t).key \notin Valid /\ Fail(t)
  /\ UNCHANGED <<rows, kernel, wg, fresh>>

InstallRule(t) ==
  /\ At(t, "append") /\ AppendRule(Stmt(t).row) /\ Advance(t)
  /\ UNCHANGED <<rows, wg, fresh>>

InstallFails(t) ==
  /\ MayFail /\ At(t, "append") /\ Continue(t, <<OnRow("rollback", Stmt(t).row)>>, FALSE)
  /\ UNCHANGED <<rows, kernel, wg, fresh>>

Rollback(t) ==
  /\ At(t, "rollback") /\ Fail(t)
  /\ \/ rows' = rows \ {Stmt(t).row}
     \/ MayFail /\ UNCHANGED rows
  /\ UNCHANGED <<kernel, wg, fresh>>

-----------------------------------------------------------------------------
(* remove_one_by_id and remove_by_source.                                  *)

(* Mutation: the source of the row is not compared.                        *)
OwnedByAny(id, src) == {r \in rows : r.id = id}
Owned(id, src) == {r \in rows : r.id = id /\ r.src = src}

GetRow(t) ==
  /\ At(t, "get")
  /\ \/ Owned(Stmt(t).id, Stmt(t).src) = {} /\ Fail(t)
     \/ \E r \in Owned(Stmt(t).id, Stmt(t).src) : Expand(t, Uninstalls(<<r>>))
  /\ UNCHANGED <<rows, kernel, wg, fresh>>

ListSource(t) ==
  /\ At(t, "bysource")
  /\ \E list \in Listed({r \in rows : r.src = Stmt(t).src}) : Expand(t, Uninstalls(list))
  /\ UNCHANGED <<rows, kernel, wg, fresh>>

(* Whatever iptables refuses is not an error: a rule that is not there, or *)
(* a lock that another program holds.                                      *)
Uninstall(t) ==
  /\ At(t, "uninstall") /\ DeleteRule(Stmt(t).row) /\ Advance(t)
  /\ UNCHANGED <<rows, wg, fresh>>
UninstallRefused(t) ==
  /\ MayFail /\ At(t, "uninstall") /\ Advance(t)
  /\ UNCHANGED <<rows, kernel, wg, fresh>>

UninstallFails(t) ==
  /\ MayFail /\ At(t, "uninstall") /\ Fail(t)
  /\ UNCHANGED <<rows, kernel, wg, fresh>>

DeleteRow(t) ==
  /\ At(t, "delete") /\ rows' = rows \ {Stmt(t).row}
  /\ IF Stmt(t).row \in rows \/ job[t].kind \in {"stop", "subnet"} THEN Advance(t) ELSE Fail(t)
  /\ UNCHANGED <<kernel, wg, fresh>>

-----------------------------------------------------------------------------
(* reconcile.                                                              *)

ReadRows(t) ==
  /\ At(t, "listrows") /\ Expand(t, <<ListLive(rows)>>)
  /\ UNCHANGED <<rows, kernel, wg, fresh>>

ReadLive(t) ==
  /\ At(t, "listlive")
  /\ \E missing \in Listed({r \in Stmt(t).rows : ~Installed(kernel, r)}),
        stale \in Orders({e \in kernel : \A r \in Stmt(t).rows : r.id # e.id}) :
       /\ \A i, j \in DOMAIN stale : i < j => stale[i].at <= stale[j].at
       /\ Expand(t, Repairs(missing, [i \in DOMAIN stale |-> RowOf(stale[i])]))
  /\ UNCHANGED <<rows, kernel, wg, fresh>>

Reinsert(t) ==
  /\ At(t, "reinsert") /\ AppendRule(Stmt(t).row) /\ Advance(t)
  /\ UNCHANGED <<rows, wg, fresh>>

ReconcileFails(t) ==
  /\ MayFail /\ (At(t, "listlive") \/ At(t, "reinsert")) /\ Fail(t)
  /\ UNCHANGED <<rows, kernel, wg, fresh>>

(* A rule that iptables does not take away is logged, and the report says  *)
(* nothing of it.  The arguments are the words of iptables-save: a comment *)
(* that it printed in quotes is passed on with them and matches no rule.   *)
Prune(t) ==
  /\ At(t, "prune") /\ Advance(t)
  /\ DeleteRule(Stmt(t).row) \/ UNCHANGED kernel
  /\ UNCHANGED <<rows, wg, fresh>>

Return(t) ==
  /\ At(t, "report") /\ Advance(t)
  /\ UNCHANGED <<rows, kernel, wg, fresh>>

-----------------------------------------------------------------------------
(* The control poller's section of a response (control.rs, apply_iptables).*)

(* Mutation: the rules that are there already are declared again.          *)
WantedAgain(desired, existing) == desired
Wanted(desired, existing) == {k \in desired : \A r \in existing : r.key # k}

(* Of the rules with one content the first is kept.                        *)
Extra(existing, desired) ==
  {r \in existing : \/ r.key \notin desired
                    \/ \E s \in existing : s.key = r.key /\ Earlier(s, r)}

MatchControl(t) ==
  /\ At(t, "match")
  /\ LET existing == {r \in rows : r.src = "control"}
         removed  == IF job[t].prune THEN Extra(existing, job[t].desired) ELSE {}
     IN \/ ~(job[t].desired \subseteq Complete) /\ Fail(t)
        \/ /\ job[t].desired \subseteq Complete
           /\ \E list \in Listed(removed), keys \in Orders(Wanted(job[t].desired, existing)) :
                Expand(t, Declares(list, keys))
  /\ UNCHANGED <<rows, kernel, wg, fresh>>

-----------------------------------------------------------------------------
(* Where operations start.                                                 *)

Up == Idle(Boot)
Begin(t, kind, todo) ==
  /\ Up /\ Idle(t) /\ kind \in scope[t] /\ todo # <<>>
  /\ job' = [job EXCEPT ![t] = NewJob(kind, todo)] /\ UNCHANGED <<rows, kernel, fresh>>

StartRegister(t) ==
  \E key \in Valid, force \in BOOLEAN :
    (force \/ key \notin Guarded) /\ Begin(t, "register", <<Insert("user", key)>>) /\ UNCHANGED wg
(* The id may be of any row, since the API lists them all.                 *)
StartRemove(t) ==
  \E id \in 1 .. fresh : Begin(t, "remove", <<Get(id, "user")>>) /\ UNCHANGED wg
StartReconcile(t) == Begin(t, "reconcile", <<ListRows>>) /\ UNCHANGED wg
StartWg(t) == ~wg /\ Begin(t, "start", BaselineRules) /\ wg' = TRUE
StopWg(t)  == wg /\ Begin(t, "stop", <<BySource("wg-driver")>>) /\ wg' = FALSE
SetSubnet(t) ==
  /\ wg /\ Begin(t, "subnet", <<BySource("wg-driver")>> \o BaselineRules)
  /\ UNCHANGED wg
StartControl(t) ==
  \E desired \in Snapshots, prune \in BOOLEAN :
    /\ Up /\ Idle(t) /\ "control" \in scope[t]
    /\ job' = [job EXCEPT ![t] = [NewJob("control", <<Match>>) EXCEPT !.desired = desired, !.prune = prune]]
    /\ UNCHANGED <<rows, kernel, wg, fresh>>

(* The client of a request goes away: at once, or while an iptables        *)
(* process is running.                                                     *)
GiveUp(t) ==
  /\ "giveup" \in scope[t] /\ job[t].kind \notin {"none", "control"} /\ ~job[t].dropped
  /\ \/ job' = [job EXCEPT ![t] = NoJob]
     \/ /\ Stmt(t).do \in {"append", "uninstall", "reinsert", "prune"}
        /\ job' = [job EXCEPT ![t].dropped = TRUE]
  /\ UNCHANGED <<rows, kernel, wg, fresh>>

(* The process dies, alone or with the machine, and boots again:           *)
(* probe_iptables reconciles, then spawn_real registers the baseline.      *)
BootJob(enabled) ==
  NewJob(Boot, <<ListRows>> \o IF enabled THEN BaselineRules ELSE <<>>)
Restart ==
  /\ \/ kernel' = kernel
     \/ kernel' = {}
  /\ \E enabled \in BOOLEAN :
       wg' = enabled /\ job' = [t \in Tasks \union {Boot} |-> IF t = Boot THEN BootJob(enabled) ELSE NoJob]
  /\ UNCHANGED <<rows, fresh>>

-----------------------------------------------------------------------------
Init ==
  /\ scope \in Scopes /\ rows = {} /\ fresh = 0
  /\ kernel \in {{}} \union {{e} : e \in Strays}
  /\ wg \in BOOLEAN
  /\ job = [t \in Tasks \union {Boot} |-> IF t = Boot THEN BootJob(wg) ELSE NoJob]
  /\ refused = {} /\ owed = [t \in Tasks \union {Boot} |-> {}]

Run(t) ==
  \/ InsertRow(t) \/ RefuseRule(t) \/ InstallRule(t) \/ InstallFails(t) \/ Rollback(t)
  \/ GetRow(t) \/ ListSource(t) \/ Uninstall(t) \/ UninstallRefused(t) \/ UninstallFails(t)
  \/ DeleteRow(t) \/ ReadRows(t) \/ ReadLive(t) \/ Reinsert(t) \/ ReconcileFails(t) \/ Prune(t) \/ Return(t)
  \/ MatchControl(t)

Request(t) ==
  \/ StartRegister(t) \/ StartRemove(t) \/ StartReconcile(t)
  \/ StartWg(t) \/ StopWg(t) \/ SetSubnet(t) \/ StartControl(t) \/ GiveUp(t)

(* What the histories keep of a step of t.                                 *)
Remaining(ids) == {n \in ids : \E e \in kernel' : e.id = n}
Remember(t) ==
  /\ refused' = Remaining(refused \union IF UninstallRefused(t) THEN {Stmt(t).row.id} ELSE {})
  /\ owed' = [u \in Tasks \union {Boot} |->
       IF job'[u] = NoJob THEN {}
       ELSE IF u = t THEN IF At(t, "listrows") THEN rows ELSE owed[t]
       ELSE {r \in owed[u] : ~((At(t, "uninstall") \/ At(t, "prune")) /\ Stmt(t).row.id = r.id)}]

Next ==
  \/ \E t \in Tasks \union {Boot} : Run(t) /\ Remember(t)
  \/ \E t \in Tasks : Request(t) /\ UNCHANGED refused /\ owed' = [owed EXCEPT ![t] = {}]
  \/ Restart /\ refused' = Remaining(refused) /\ owed' = [t \in Tasks \union {Boot} |-> {}]

Spec == Init /\ [][Next /\ UNCHANGED scope]_vars
-----------------------------------------------------------------------------
(* Properties.                                                             *)

(* Types; a rule id is used once, so that a tag names one row.             *)
TypeOK ==
  /\ rows \subseteq Row /\ kernel \subseteq Entry /\ wg \in BOOLEAN /\ fresh \in 0 .. MaxFresh /\ scope \in Scopes
  /\ \A t \in Tasks \union {Boot} :
       /\ job[t].kind \in {"none"} \union IF t = Boot THEN {Boot} ELSE scope[t]
       /\ job[t].clean \in BOOLEAN /\ job[t].dropped \in BOOLEAN /\ job[t].prune \in BOOLEAN
       /\ job[t].desired \subseteq Keys
  /\ \A r, s \in rows : r.id = s.id => r = s
  /\ \A r \in rows : r.id \in 1 .. fresh
  /\ refused \subseteq 1 .. MaxFresh /\ owed \in [Tasks \union {Boot} -> SUBSET Row]

(* As long as what runs together has to do with different sources, every   *)
(* rule that this installation has put in the kernel has its row, at       *)
(* whatever statement a task is dropped or the process dies (register      *)
(* persists first, the removals delete the row last); only a rule on which *)
(* iptables has refused -D may have lost it, since the removals go on.     *)
SourceOf(kind) == CASE kind \in {"register", "remove"} -> {"user"}
                    [] kind \in {"start", "stop", "subnet", Boot} -> {"wg-driver"}
                    [] kind = "control" -> {"control"}
                    [] OTHER -> {}
RuleSourceOf(kind) == IF kind \in {"reconcile", Boot} THEN Sources ELSE SourceOf(kind)

Separate == \A t, u \in Tasks : t # u =>
  \A k \in scope[t], l \in scope[u] : RuleSourceOf(k) \intersect RuleSourceOf(l) = {}
Accounted == \A e \in kernel : e.id # 0 => RowOf(e) \in rows \/ e.id \in refused
RuleHasRow == Separate => Accounted

(* When a reconcile reports without an error, each row it listed has its   *)
(* rule in the kernel, whatever ran beside it and however the kernel was   *)
(* before, unless another task has called -D on that rule in the meantime. *)
Reporting(t) == At(t, "report") /\ job[t].kind \in {"reconcile", Boot} /\ job[t].clean
ReconcileRestores ==
  \A t \in Tasks \union {Boot} : Reporting(t) => \A r \in owed[t] : Copies(r) # {}

(* When a reconcile beside which nothing has run reports without an error, *)
(* each row has one rule, and no other nsp rule is left.  Not so: see the  *)
(* README.                                                                 *)
Agrees ==
  /\ \A r \in rows : Cardinality(Copies(r)) = 1
  /\ \A e \in kernel : \E r \in rows : r.id = e.id
ReconcileAgrees == \A t \in Tasks \union {Boot} : Reporting(t) /\ owed[t] = rows => Agrees

(* When a pass over the control center's rules reports, each declared rule *)
(* has one row, and after a pruning pass no other control rule has one,    *)
(* whatever the admin and the driver do meanwhile.                         *)
ControlRows(key) == {r \in rows : r.src = "control" /\ r.key = key}
ControlDeclared ==
  \A t \in Tasks : At(t, "report") /\ job[t].kind = "control" =>
    /\ \A k \in job[t].desired : Cardinality(ControlRows(k)) = 1
    /\ job[t].prune => \A r \in rows : r.src = "control" => r.key \in job[t].desired

(* The rows and the rules of a source are changed by operations of that    *)
(* source only, reconcile (which puts rules back and prunes them) aside.   *)
Live(set) == {RowOf(e) : e \in set}
Difference(a, b) == (a \ b) \union (b \ a)
Restarts == job'[Boot] # NoJob /\ Head(job'[Boot].todo) = ListRows
SourceBoundary ==
  [][\A t \in Tasks \union {Boot} : job'[t] # job[t] /\ ~Restarts =>
       /\ \A r \in Difference(rows, rows') : r.src \in SourceOf(job[t].kind)
       /\ \A r \in Difference(Live(kernel), Live(kernel')) : r.src \in RuleSourceOf(job[t].kind)]_vars

(* Within a source, rules apply in the order of their priority.            *)
PriorityOrder ==
  \A e, f \in kernel : e.src = f.src /\ e.at < f.at => Prio[e.key] <= Prio[f.key]

(* While nothing runs, the driver's rules are there once, and only while   *)
(* it is started.                                                          *)
BaselineOnce ==
  (\A t \in Tasks \union {Boot} : Idle(t)) =>
    Cardinality({r \in rows : r.src = "wg-driver"}) <= IF wg THEN Len(Baseline) ELSE 0
=============================================================================
