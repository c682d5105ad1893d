--------------------------- MODULE ControlCenter ---------------------------
(***************************************************************************)
(* The poller and its control center.  The node is that of ControlSync;    *)
(* here the three loops of control::spawn run against a server that keeps  *)
(* versions of what it wants and answers by its decision tree              *)
(* (docs/control-center.md): nothing when the reported hashes match, the   *)
(* difference since a cursor it knows, everything otherwise.  Requests and *)
(* answers are lost, statements fail and the process dies, a bounded number *)
(* of times in all.                                                        *)
(*                                                                         *)
(* A hash is taken to tell two contents apart, so a report holds contents. *)
(* Of the admin API only what moves a row between owners takes part.       *)
(***************************************************************************)
EXTENDS ControlSync, Sequences, Functions

CONSTANTS
  History,     \* what the server wants, version after version
  LocalUsers,  \* the rows the administrator may create, by id
  SsEnabled,   \* TRUE: there is a Shadowsocks driver
  WgBackend,   \* the WireGuard backend asked for; "off": there is no driver
  KernelReady, \* TRUE: the kernel backend can run on this host
  MaxFaults,   \* bound on losses, failures and crashes together
  Scopes       \* what takes part beside the /config loop: one of these sets

Versions == 1 .. Len(History)

ASSUME CenterAssumption ==
  /\ Cursors = Versions /\ Versions # {} /\ None \notin Nat
  /\ History \in Seq([settings : Settings, users : UNION {[S -> Want] : S \in SUBSET Ids},
                      rules : SUBSET Rules])
  /\ LocalUsers \in UNION {[S -> Want] : S \in SUBSET Ids} /\ MaxFaults \in Nat
  /\ Scopes \subseteq SUBSET {"admin", "status", "truncate"}
  /\ SsEnabled \in BOOLEAN /\ KernelReady \in BOOLEAN
  /\ WgBackend \in {"off", "userspace", "kernel", "auto"}

VARIABLES
  head,       \* the server's newest version
  oldest,     \* the oldest one its changelog reaches back to
  delivered,  \* the events it has received on /report
  heard,      \* the last /status it has received
  queue,      \* events in the report channel
  batch,      \* events being posted
  apply,      \* shared.last_apply
  noted,      \* the cursor run_status_once has read, Idle in between
  faults,
  scope       \* never changes

server  == <<head, oldest, delivered, heard>>
reports == <<queue, batch>>
status  == <<apply, noted>>
ccvars  == <<vars, server, reports, status, faults, scope>>

NoApply == [kind |-> "none", touched |-> FALSE, refused |-> {}]
Idle == -1

CCInit ==
  /\ Init /\ settings = History[1].settings
  /\ head = 1 /\ oldest = 1 /\ delivered = {}
  /\ heard = [cursor |-> None, apply |-> NoApply, issues |-> {}]
  /\ queue = {} /\ batch = {} /\ apply = NoApply /\ noted = Idle /\ faults = 0
  /\ scope \in Scopes

Fault == faults < MaxFaults /\ faults' = faults + 1

----------------------------------------------------------------------------
(* The server.                                                             *)

Advance ==
  /\ head < Len(History) /\ head' = head + 1
  /\ UNCHANGED <<vars, oldest, delivered, heard, reports, status, faults>>

(* It forgets old versions, or restarts with a new changelog.              *)
Truncate ==
  /\ "truncate" \in scope /\ oldest < head /\ oldest' = head
  /\ UNCHANGED <<vars, head, delivered, heard, reports, status, faults>>

Nothing ==
  [mode |-> "merge", reset |-> FALSE, cursor |-> head, settings |-> None, kind |-> "none",
   users |-> <<>>, delete |-> {}, hasRules |-> FALSE, rules |-> {}]

(* diff_since: the sections that differ, the users as a Delta.             *)
Since(c) ==
  LET old == History[c]
      new == History[head]
      changed == {i \in DOMAIN new.users : i \in DOMAIN old.users => old.users[i] # new.users[i]}
      gone == DOMAIN old.users \ DOMAIN new.users
  IN [Nothing EXCEPT
        !.settings = IF old.settings = new.settings THEN None ELSE new.settings,
        !.kind = IF changed \union gone = {} THEN "none" ELSE "delta",
        !.users = Restrict(new.users, changed), !.delete = gone,
        !.hasRules = old.rules # new.rules, !.rules = IF old.rules = new.rules THEN {} ELSE new.rules]

(* The cursor is the newest but a hash is not: the sections that drifted,  *)
(* authoritative.                                                          *)
Drifted(content) ==
  LET new == History[head]
  IN [Nothing EXCEPT !.mode = "replace",
        !.settings = IF content.settings = new.settings THEN None ELSE new.settings,
        !.kind = IF content.users = new.users THEN "none" ELSE "full",
        !.users = IF content.users = new.users THEN <<>> ELSE new.users,
        !.hasRules = content.rules # new.rules,
        !.rules = IF content.rules = new.rules THEN {} ELSE new.rules]

Everything ==
  [Nothing EXCEPT !.mode = "replace", !.reset = TRUE, !.settings = History[head].settings,
     !.kind = "full", !.users = History[head].users,
     !.hasRules = TRUE, !.rules = History[head].rules]

Answer(r) ==
  CASE r.cursor = head -> IF r.content = History[head] THEN Nothing ELSE Drifted(r.content)
    [] r.cursor \in oldest .. head - 1 -> Since(r.cursor)
    [] OTHER -> Everything

----------------------------------------------------------------------------
(* The /config loop.                                                       *)

Slice(S) == [i \in S |-> [name |-> users[i].name, note |-> users[i].note]]

(* Mutation: the digest leaves the notes out, so they never drift.         *)
HeldNoNotes ==
  [settings |-> settings,
   users |-> [i \in {j \in Ids : IsControl(j)} |->
                [name |-> users[i].name, note |-> IF i \in DOMAIN History[head].users
                                                  THEN History[head].users[i].note ELSE users[i].note]],
   rules |-> IF HasIptables THEN rules ELSE {}]

(* Mutation: the digest covers the local rows as well.                     *)
HeldAllRows ==
  [settings |-> settings,
   users |-> Slice({i \in Ids : Exists(i)}),
   rules |-> IF HasIptables THEN rules ELSE {}]

(* The digests cover the rows sorted, so that no order of theirs matters;  *)
(* a host without iptables digests an empty list.                          *)
SettingsDigest == settings
UsersDigest    == Slice({i \in Ids : IsControl(i)})
RulesDigest    == IF HasIptables THEN rules ELSE {}

(* collect_state: digests of the settings, of the control slice and of the *)
(* control rules.                                                          *)
Held == [settings |-> SettingsDigest, users |-> UsersDigest, rules |-> RulesDigest]

(* The digest of settings that cannot be read is that of no content.       *)
EmptySettings == None

(* A cursor or a section that cannot be read is reported as empty.         *)
Garbled ==
  {[cursor |-> None, content |-> Held],
   [cursor |-> cursor, content |-> [Held EXCEPT !.settings = EmptySettings]],
   [cursor |-> cursor, content |-> [Held EXCEPT !.users = <<>>]],
   [cursor |-> cursor, content |-> [Held EXCEPT !.rules = {}]]}

Ask(r) == Answer(r) \in Snapshots /\ Receive(Answer(r))

Tick ==
  /\ Ask([cursor |-> cursor, content |-> Held])
  /\ UNCHANGED <<server, reports, status, faults>>

TickGarbled ==
  /\ Fault /\ \E r \in Garbled : Ask(r)
  /\ UNCHANGED <<server, reports, status>>

(* A UNIQUE violation ends the tick: another row has the name.             *)
Collides ==
  /\ pc = "upsert" /\ ReconcileFails
  /\ IF seen = None THEN Exists(cur) \/ NameTaken(snap.users[cur].name, cur)
                    ELSE seen.src = "control" /\ Exists(cur) /\ NameTaken(snap.users[cur].name, cur)
  /\ UNCHANGED <<server, reports, status, faults>>

(* Any other statement or iptables call that fails.                        *)
TickFails ==
  /\ Fault /\ ReconcileFails
  /\ UNCHANGED <<server, reports, status>>

(* The statements before the cursor's.                                     *)
Step ==
  /\ pc \notin {"idle", "write"} /\ Apply
  /\ UNCHANGED <<server, reports, status, faults>>

Capability(code)    == [code |-> code, subject |-> None]
ForSubject(code, i) == [code |-> code, subject |-> i]

(* upsert_user and apply_user_delta collect these, the iptables section    *)
(* adds its own.                                                           *)
Events ==
  {ForSubject(IF i \in snap.delete THEN "user_delete_refused_local"
                                   ELSE "user_id_conflict_local", i) : i \in skipped}
  \union (IF snap.hasRules /\ ~HasIptables THEN {Capability("iptables_section_skipped")} ELSE {})

(* The tick ends well: cursor, notify, last_apply, events.  The cursor      *)
(* stays when its statement fails.                                         *)
Finish ==
  /\ pc = "write" /\ WriteCursor
  /\ IF snap.cursor = None \/ cursor' = snap.cursor THEN UNCHANGED faults ELSE Fault
  /\ apply' = [kind |-> snap.kind, touched |-> touched, refused |-> skipped]
  /\ queue' = queue \union Events
  /\ UNCHANGED <<server, batch, noted>>

----------------------------------------------------------------------------
(* The /report loop.                                                       *)

(* The first event, whatever follows within 200 ms, and the rest.          *)
Drain ==
  /\ queue # {} /\ batch = {}
  /\ batch' = queue /\ queue' = {}
  /\ UNCHANGED <<vars, server, status, faults>>

(* The body of POST /report.                                               *)
ReportRequest == batch

PostReport ==
  /\ batch # {}
  /\ delivered' = delivered \union ReportRequest /\ batch' = {}
  /\ UNCHANGED <<vars, head, oldest, heard, queue, status, faults>>

(* A post that fails drops the batch; the server may have it all the same. *)
ReportFails ==
  /\ batch # {} /\ Fault
  /\ batch' = {} /\ delivered' \in {delivered, delivered \union ReportRequest}
  /\ UNCHANGED <<vars, head, oldest, heard, queue, status>>

----------------------------------------------------------------------------
(* The /status loop: the cursor first, last_apply after the drivers were    *)
(* asked.                                                                  *)
ReadStatus ==
  /\ "status" \in scope /\ noted = Idle /\ noted' = cursor
  /\ UNCHANGED <<vars, server, reports, apply, faults>>

(* backend::build: only "auto" looks at the host.                          *)
Effective ==
  CASE WgBackend # "auto" -> WgBackend
    [] WgBackend = "auto" -> IF KernelReady THEN "kernel" ELSE "userspace"

(* collect_live_issues: what is noteworthy about this host now.            *)
Issue(code, holds) == IF holds THEN {Capability(code)} ELSE {}
LiveIssues ==
  Issue("iptables_unavailable", ~HasIptables) \union Issue("ss_disabled", ~SsEnabled)
    \union Issue("wg_disabled", WgBackend = "off")
    \union Issue("wg_backend_fallback", WgBackend # Effective)

(* The body of POST /status.                                               *)
StatusRequest == [cursor |-> noted, apply |-> apply, issues |-> LiveIssues]

(* Mutation: a heartbeat whose last_apply is empty is not sent.            *)
PostStatusNonEmpty ==
  /\ noted # Idle /\ noted' = Idle
  /\ heard' = IF apply.kind = "none" /\ ~apply.touched THEN heard
              ELSE StatusRequest
  /\ UNCHANGED <<vars, head, oldest, delivered, reports, apply, faults>>

PostStatus ==
  /\ noted # Idle /\ noted' = Idle
  /\ heard' = StatusRequest
  /\ UNCHANGED <<vars, head, oldest, delivered, reports, apply, faults>>

StatusFails ==
  /\ noted # Idle /\ noted' = Idle /\ Fault
  /\ UNCHANGED <<vars, server, reports, apply>>

----------------------------------------------------------------------------
AdminAct ==
  /\ "admin" \in scope
  /\ \/ \E i \in DOMAIN LocalUsers : AdminCreate(i, LocalUsers[i].name, LocalUsers[i].note)
     \/ \E a \in Admins, i \in Ids : AdminDelete(a, i) \/ AdminErase(a)
  /\ UNCHANGED <<server, reports, status, faults>>

CCCrash ==
  /\ Fault /\ Crash
  /\ queue' = {} /\ batch' = {} /\ apply' = NoApply /\ noted' = Idle
  /\ UNCHANGED server

CCNext ==
  \/ Advance \/ Truncate
  \/ Tick \/ TickGarbled \/ Collides \/ TickFails \/ Step \/ Finish
  \/ Drain \/ PostReport \/ ReportFails
  \/ ReadStatus \/ PostStatus \/ StatusFails
  \/ AdminAct \/ CCCrash

CCSpec == CCInit /\ [][CCNext /\ UNCHANGED scope]_ccvars

(* The three loops are joined in one task and each awaits only its own      *)
(* timer, channel and requests.                                            *)
CCFairSpec ==
  /\ CCSpec
  /\ WF_ccvars(Tick /\ UNCHANGED scope)
  /\ WF_ccvars((Step \/ Collides) /\ UNCHANGED scope)
  /\ WF_ccvars(Finish /\ UNCHANGED scope)
  /\ WF_ccvars((Drain \/ PostReport) /\ UNCHANGED scope)
  /\ WF_ccvars((ReadStatus \/ PostStatus) /\ UNCHANGED scope)

----------------------------------------------------------------------------
(* The node holds the server's newest version, but for ids that are the     *)
(* administrator's.                                                        *)
Follows ==
  LET want == History[head] IN
  /\ settings = want.settings
  /\ HasIptables => rules = want.rules
  /\ \A i \in Ids : IsControl(i) => i \in DOMAIN want.users /\ Slice({i})[i] = want.users[i]
  /\ \A i \in DOMAIN want.users : Exists(i)

(* docs/control-center.md "After applying, nsp's local state matches the    *)
(* server's exactly": once losses and failures end, so it is and stays,    *)
(* whatever was half applied when they came.                               *)
FollowsServer == <>[]Follows

(* control.rs 1095-1099: dropped events are no loss, as a conflict that     *)
(* persists is found again.  The server hears of every listed id that      *)
(* stays the administrator's.                                              *)
Heard(i, code) == [code |-> code, subject |-> i] \in delivered

ConflictHeard ==
  \A i \in Ids :
    <>[](IsLocal(i) /\ i \in DOMAIN History[head].users) => <>Heard(i, "user_id_conflict_local")

(* The same of a delete that was refused.                                  *)
RefusalHeard ==
  \A i \in Ids :
    [](i \in skipped /\ pc = "write" /\ i \in snap.delete =>
         <>(Heard(i, "user_delete_refused_local") \/ ~IsLocal(i)))

(* docs/control-center.md:316 "Operator requested a WG backend but its      *)
(* preconditions weren't met".                                             *)
FallbackIsReal ==
  Capability("wg_backend_fallback") \in heard.issues => WgBackend = "auto" /\ ~KernelReady

(* control.rs 789-793: the heartbeat.  When the node's cursor and *)
(* outcome settle, the server ends up with both, although they are read at *)
(* different times.                                                        *)
StatusCatchesUp ==
  \A c \in Cursors, k \in {"none", "full", "delta"} :
    <>[]("status" \in scope /\ cursor = c /\ apply.kind = k)
      => <>[](heard.cursor = c /\ heard.apply.kind = k)
=============================================================================
