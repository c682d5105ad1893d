---------------------------- MODULE ControlSync ----------------------------
(***************************************************************************)
(* The /config loop of the control-center poller (crates/nsp/src/control.rs) *)
(* at the grain of one SQLite statement per step, together with the admin  *)
(* API handlers that write the same `users` table                          *)
(* (crates/api/src/users.rs).                                              *)
(*                                                                         *)
(* The poller asks the control center for a snapshot and applies it in a   *)
(* fixed order: settings, users (upserts, then deletes), iptables, cursor. *)
(* No transaction spans two statements, so every admin request, every      *)
(* failure and every crash can fall between any two of them.  The server   *)
(* is arbitrary here: it may answer with any member of Snapshots at any    *)
(* time.  Module ControlCenter restricts it to the documented one.         *)
(***************************************************************************)
EXTENDS Naturals, FiniteSets

CONSTANTS
  Ids,          \* user ids, local UUIDs and control-center ids alike
  Names,        \* user names; the column is UNIQUE
  Notes,        \* free-form notes
  Rules,        \* content keys of control-source iptables rules
  Settings,     \* values of the settings row the server can patch
  Cursors,      \* opaque server cursors
  Admins,       \* admin API requests that may be in flight together
  Snapshots,    \* responses the server may send
  Policy,       \* NSP_CONTROL_CONFLICT_POLICY: "keep" or "prune"
  HasIptables,  \* FALSE: the host has no iptables binary (manager is None)
  None          \* absent row, field, cursor, snapshot or id

Want == [name : Names, note : Notes]
Row  == [name : Names, note : Notes, src : {"local", "control"}]

(* A decoded response: `users` maps the listed ids to their wanted content *)
(* (the list of a Full payload, `upsert` of a Delta), `delete` is the       *)
(* Delta's delete[] and None stands for an omitted field.                  *)
SnapshotType ==
  [mode : {"merge", "replace"}, reset : BOOLEAN, cursor : Cursors \union {None},
   settings : Settings \union {None}, kind : {"full", "delta", "none"},
   users : UNION {[S -> Want] : S \in SUBSET Ids}, delete : SUBSET Ids,
   hasRules : BOOLEAN, rules : SUBSET Rules]

ASSUME ControlAssumption ==
  /\ Snapshots \subseteq SnapshotType
  /\ Policy \in {"keep", "prune"}
  /\ HasIptables \in BOOLEAN
  /\ None \notin Row /\ None \notin Ids /\ None \notin Names
  /\ None \notin Notes /\ None \notin Snapshots

VARIABLES
  \* SQLite, survives a crash
  users,     \* id -> row of the users table, or None
  rules,     \* control-source rows of iptables_rules
  settings,  \* the settings singleton
  cursor,    \* server_config.control_cursor, None when empty
  \* the poller task
  pc,        \* next statement of run_config_once
  snap,      \* the response being applied
  todo,      \* ids still to upsert
  cur,       \* id whose row was just read by users_repo.get
  seen,      \* that row, as it was when read
  dels,      \* ids still to delete
  stale,     \* control rules still to remove
  fresh,     \* control rules still to register
  skipped,   \* ids refused because the row is local (stats.users_skipped_local)
  touched,   \* stats.touched_users()
  \* everything else
  admin,     \* admin request -> its position in the handler
  permit,    \* the reconciler's Notify permit
  issued     \* every id the server has named or the table has held (UUIDs do
             \* not repeat: a new local user never gets one of these)

db     == <<users, rules, settings, cursor>>
poller == <<pc, snap, todo, cur, seen, dels, stale, fresh, skipped, touched>>
vars   == <<db, poller, admin, permit, issued>>

Exists(i)    == users[i] # None
IsLocal(i)   == Exists(i) /\ users[i].src = "local"
IsControl(i) == Exists(i) /\ users[i].src = "control"

(* The UNIQUE constraint on users.name, for a write to the row of id i.    *)
NameTaken(n, i) == \E j \in Ids \ {i} : Exists(j) /\ users[j].name = n

(* UPDATE users SET name / note WHERE id = ?: no row, no effect.           *)
SetName(i, n) ==
  IF Exists(i) THEN [users EXCEPT ![i] = [name |-> n, note |-> users[i].note,
                                          src |-> users[i].src]]
               ELSE users
SetNote(i, t) ==
  IF Exists(i) THEN [users EXCEPT ![i] = [name |-> users[i].name, note |-> t,
                                          src |-> users[i].src]]
               ELSE users

(* ConflictPolicy::prunes() || mode == Replace.                            *)
Prunes == Policy = "prune" \/ snap.mode = "replace"

IdleAdmin == [pc |-> "idle", id |-> None, name |-> None, note |-> None]

Init ==
  /\ users = [i \in Ids |-> None]
  /\ rules = {}
  /\ settings \in Settings
  /\ cursor = None
  /\ pc = "idle" /\ snap = None /\ todo = {} /\ cur = None /\ seen = None
  /\ dels = {} /\ stale = {} /\ fresh = {} /\ skipped = {} /\ touched = FALSE
  /\ admin = [a \in Admins |-> IdleAdmin]
  /\ permit = FALSE
  /\ issued = {}

----------------------------------------------------------------------------
(* The poller.                                                             *)

(* The tick ends: its in-memory state is dropped.                          *)
TickOver ==
  /\ pc' = "idle" /\ snap' = None /\ todo' = {} /\ cur' = None /\ seen' = None
  /\ dels' = {} /\ stale' = {} /\ fresh' = {} /\ skipped' = {} /\ touched' = FALSE

(* POST /config answered with s.  A request that fails changes nothing.    *)
Receive(s) ==
  /\ pc = "idle"
  /\ pc' = "settings"
  /\ snap' = s
  /\ issued' = issued \union DOMAIN s.users \union s.delete
  /\ UNCHANGED <<db, todo, cur, seen, dels, stale, fresh, skipped, touched, admin, permit>>

ApplySettings ==
  /\ pc = "settings"
  /\ settings' = IF snap.settings = None THEN settings ELSE snap.settings
  /\ IF snap.kind = "none"
     THEN pc' = "rules" /\ todo' = {}
     ELSE pc' = "users" /\ todo' = DOMAIN snap.users
  /\ UNCHANGED <<users, rules, cursor, snap, cur, seen, dels, stale, fresh,
                 skipped, touched, admin, permit, issued>>

(* upsert_user: users_repo.get(&incoming.id).  The order of the list is    *)
(* the server's, so any listed id may be next.                             *)
ReadForUpsert(i) ==
  /\ pc = "users" /\ i \in todo
  /\ cur' = i /\ seen' = users[i]
  /\ todo' = todo \ {i}
  /\ pc' = "upsert"
  /\ UNCHANGED <<db, snap, dels, stale, fresh, skipped, touched, admin, permit, issued>>

(* No row was there: INSERT, refused by the primary key or by the UNIQUE   *)
(* name, in which case the error aborts the whole tick.                    *)
CreateControl ==
  /\ pc = "upsert" /\ seen = None
  /\ ~Exists(cur) /\ ~NameTaken(snap.users[cur].name, cur)
  /\ users' = [users EXCEPT ![cur] = [name |-> snap.users[cur].name,
                                      note |-> snap.users[cur].note,
                                      src  |-> "control"]]
  /\ touched' = TRUE
  /\ pc' = "users" /\ cur' = None /\ seen' = None
  /\ UNCHANGED <<rules, settings, cursor, snap, todo, dels, stale, fresh, skipped,
                 admin, permit, issued>>

(* The row is the administrator's: count it, report it, leave it alone.    *)
SkipLocal ==
  /\ pc = "upsert" /\ seen # None /\ seen.src = "local"
  /\ skipped' = skipped \union {cur}
  /\ pc' = "users" /\ cur' = None /\ seen' = None
  /\ UNCHANGED <<db, snap, todo, dels, stale, fresh, touched, admin, permit, issued>>

(* The row is ours: rename when the name differs.  That the row may be     *)
(* gone by now is not an error here.                                       *)
RenameControl ==
  /\ pc = "upsert" /\ seen # None /\ seen.src = "control"
  /\ LET new == snap.users[cur].name IN
     IF seen.name = new
     THEN UNCHANGED <<users, touched>>
     ELSE /\ Exists(cur) => ~NameTaken(new, cur)
          /\ users' = SetName(cur, new)
          /\ touched' = TRUE
  /\ pc' = "note"
  /\ UNCHANGED <<rules, settings, cursor, snap, todo, cur, seen, dels, stale, fresh,
                 skipped, admin, permit, issued>>

(* Mutation: `else if`, the note is skipped when the name has changed.     *)
NoteControlElse ==
  /\ pc = "note"
  /\ LET want == snap.users[cur] IN
     IF seen.note = want.note \/ seen.name # want.name
     THEN UNCHANGED <<users, touched>>
     ELSE /\ users' = SetNote(cur, want.note)
          /\ touched' = TRUE
  /\ pc' = "users" /\ cur' = None /\ seen' = None
  /\ UNCHANGED <<rules, settings, cursor, snap, todo, dels, stale, fresh, skipped,
                 admin, permit, issued>>

NoteControl ==
  /\ pc = "note"
  /\ LET new == snap.users[cur].note IN
     IF seen.note = new
     THEN UNCHANGED <<users, touched>>
     ELSE /\ users' = SetNote(cur, new)
          /\ touched' = TRUE
  /\ pc' = "users" /\ cur' = None /\ seen' = None
  /\ UNCHANGED <<rules, settings, cursor, snap, todo, dels, stale, fresh, skipped,
                 admin, permit, issued>>

(* Mutation: the prune scan lists every row, not only the control slice.   *)
UpsertsDoneAllRows ==
  /\ pc = "users" /\ todo = {}
  /\ IF snap.kind = "full"
     THEN /\ dels' = IF Prunes THEN {i \in Ids : Exists(i)} \ DOMAIN snap.users ELSE {}
          /\ pc' = "prune"
     ELSE dels' = snap.delete /\ pc' = "delta"
  /\ UNCHANGED <<db, snap, todo, cur, seen, stale, fresh, skipped, touched, admin, permit, issued>>

(* Every listed user is done.  A Full payload prunes, if it may, whatever  *)
(* the control slice holds beyond the list; a Delta has its own list.      *)
UpsertsDone ==
  /\ pc = "users" /\ todo = {}
  /\ IF snap.kind = "full"
     THEN /\ dels' = IF Prunes THEN {i \in Ids : IsControl(i)} \ DOMAIN snap.users ELSE {}
          /\ pc' = "prune"
     ELSE dels' = snap.delete /\ pc' = "delta"
  /\ UNCHANGED <<db, snap, todo, cur, seen, stale, fresh, skipped, touched, admin, permit, issued>>

(* apply_full_users: DELETE by id, with no second look at the source.      *)
PruneOne(i) ==
  /\ pc = "prune" /\ i \in dels
  /\ users' = [users EXCEPT ![i] = None]
  /\ touched' = (touched \/ Exists(i))
  /\ dels' = dels \ {i}
  /\ UNCHANGED <<rules, settings, cursor, pc, snap, todo, cur, seen, stale, fresh, skipped,
                 admin, permit, issued>>

(* apply_user_delta: get the row, then decide.                             *)
ReadForDelete(i) ==
  /\ pc = "delta" /\ i \in dels
  /\ dels' = dels \ {i}
  /\ IF Exists(i)
     THEN pc' = "delete" /\ cur' = i /\ seen' = users[i]
     ELSE UNCHANGED <<pc, cur, seen>>
  /\ UNCHANGED <<db, snap, todo, stale, fresh, skipped, touched, admin, permit, issued>>

DeleteControl ==
  /\ pc = "delete"
  /\ IF seen.src = "local"
     THEN skipped' = skipped \union {cur} /\ UNCHANGED <<users, touched>>
     ELSE /\ users' = [users EXCEPT ![cur] = None]
          /\ touched' = (touched \/ Exists(cur))
          /\ UNCHANGED skipped
  /\ pc' = "delta" /\ cur' = None /\ seen' = None
  /\ UNCHANGED <<rules, settings, cursor, snap, todo, dels, stale, fresh, admin, permit, issued>>

DeletesDone ==
  /\ pc \in {"prune", "delta"} /\ dels = {}
  /\ pc' = "rules"
  /\ UNCHANGED <<db, snap, todo, cur, seen, dels, stale, fresh, skipped, touched, admin,
                 permit, issued>>

(* apply_iptables, passes 1 to 3: keep what matches, remove the rest when  *)
(* pruning, register what is missing.                                      *)
ReadRules ==
  /\ pc = "rules"
  /\ IF snap.hasRules /\ HasIptables
     THEN /\ stale' = IF Prunes THEN rules \ snap.rules ELSE {}
          /\ fresh' = snap.rules \ rules
     ELSE stale' = {} /\ fresh' = {}
  /\ pc' = "apply"
  /\ UNCHANGED <<db, snap, todo, cur, seen, dels, skipped, touched, admin, permit, issued>>

RemoveRule(r) ==
  /\ pc = "apply" /\ r \in stale
  /\ rules' = rules \ {r}
  /\ stale' = stale \ {r}
  /\ UNCHANGED <<users, settings, cursor, pc, snap, todo, cur, seen, dels, fresh, skipped,
                 touched, admin, permit, issued>>

AddRule(r) ==
  /\ pc = "apply" /\ stale = {} /\ r \in fresh
  /\ rules' = rules \union {r}
  /\ fresh' = fresh \ {r}
  /\ UNCHANGED <<users, settings, cursor, pc, snap, todo, cur, seen, dels, stale, skipped,
                 touched, admin, permit, issued>>

RulesDone ==
  /\ pc = "apply" /\ stale = {} /\ fresh = {}
  /\ pc' = "clear"
  /\ UNCHANGED <<db, snap, todo, cur, seen, dels, stale, fresh, skipped, touched, admin,
                 permit, issued>>

(* `reset` empties the slot; a failed write is only logged.                *)
ClearCursor ==
  /\ pc = "clear"
  /\ cursor' \in IF snap.reset THEN {None, cursor} ELSE {cursor}
  /\ pc' = "write"
  /\ UNCHANGED <<users, rules, settings, snap, todo, cur, seen, dels, stale, fresh, skipped,
                 touched, admin, permit, issued>>

(* Persist the new cursor (a failed write is only logged), wake the        *)
(* reconciler when a user row changed, end the tick.                       *)
WriteCursor ==
  /\ pc = "write"
  /\ cursor' \in IF snap.cursor = None THEN {cursor} ELSE {snap.cursor, cursor}
  /\ permit' = (permit \/ touched)
  /\ TickOver
  /\ UNCHANGED <<users, rules, settings, admin, issued>>

(* reconcile_outcome returned Err: a UNIQUE violation, or any statement or *)
(* iptables call that failed.  What was written stays; nothing is notified *)
(* and the cursor is not moved.                                            *)
ReconcileFails ==
  /\ pc \notin {"idle", "clear", "write"}
  /\ TickOver
  /\ UNCHANGED <<db, admin, permit, issued>>

----------------------------------------------------------------------------
(* The admin API.                                                          *)

(* create_user: a fresh UUID, refused when the name is taken.              *)
AdminCreate(i, n, t) ==
  /\ i \notin issued /\ ~Exists(i) /\ ~NameTaken(n, i)
  /\ users' = [users EXCEPT ![i] = [name |-> n, note |-> t, src |-> "local"]]
  /\ issued' = issued \union {i}
  /\ UNCHANGED <<rules, settings, cursor, poller, admin, permit>>

(* update_user and delete_user: get the row and check assert_locally_writable; *)
(* a 403 or a 404 changes nothing.                                         *)
AdminPatch(a, i, n, t) ==
  /\ admin[a].pc = "idle" /\ IsLocal(i)
  /\ n # None \/ t # None
  /\ admin' = [admin EXCEPT ![a] = [pc |-> IF n = None THEN "note" ELSE "rename",
                                    id |-> i, name |-> n, note |-> t]]
  /\ UNCHANGED <<db, poller, permit, issued>>

(* Mutation: delete_user without assert_locally_writable.                  *)
AdminDeleteAny(a, i) ==
  /\ admin[a].pc = "idle" /\ Exists(i)
  /\ admin' = [admin EXCEPT ![a] = [pc |-> "delete", id |-> i, name |-> None, note |-> None]]
  /\ UNCHANGED <<db, poller, permit, issued>>

AdminDelete(a, i) ==
  /\ admin[a].pc = "idle" /\ IsLocal(i)
  /\ admin' = [admin EXCEPT ![a] = [pc |-> "delete", id |-> i, name |-> None, note |-> None]]
  /\ UNCHANGED <<db, poller, permit, issued>>

(* UPDATE users SET name: a collision or a missing row ends the request.   *)
AdminRename(a) ==
  /\ admin[a].pc = "rename"
  /\ LET i == admin[a].id
         ok == Exists(i) /\ ~NameTaken(admin[a].name, i)
     IN /\ users' = IF ok THEN SetName(i, admin[a].name) ELSE users
        /\ admin' = [admin EXCEPT ![a] = IF ok /\ admin[a].note # None
                                         THEN [admin[a] EXCEPT !.pc = "note"]
                                         ELSE IdleAdmin]
  /\ UNCHANGED <<rules, settings, cursor, poller, permit, issued>>

AdminNote(a) ==
  /\ admin[a].pc = "note"
  /\ users' = SetNote(admin[a].id, admin[a].note)
  /\ admin' = [admin EXCEPT ![a] = IdleAdmin]
  /\ UNCHANGED <<rules, settings, cursor, poller, permit, issued>>

(* DELETE FROM users WHERE id = ?, then notify when a row went away.       *)
AdminErase(a) ==
  /\ admin[a].pc = "delete"
  /\ users' = [users EXCEPT ![admin[a].id] = None]
  /\ permit' = (permit \/ Exists(admin[a].id))
  /\ admin' = [admin EXCEPT ![a] = IdleAdmin]
  /\ UNCHANGED <<rules, settings, cursor, poller, issued>>

(* A statement fails, or the client hangs up and the handler's future is   *)
(* dropped at its await.                                                   *)
AdminGivesUp(a) ==
  /\ admin[a].pc # "idle"
  /\ admin' = [admin EXCEPT ![a] = IdleAdmin]
  /\ UNCHANGED <<db, poller, permit, issued>>

----------------------------------------------------------------------------
(* The reconciler takes the permit (module Reconciler has the rest).       *)
TakePermit ==
  /\ permit
  /\ permit' = FALSE
  /\ UNCHANGED <<db, poller, admin, issued>>

(* The process dies and restarts: only SQLite survives.                    *)
Crash ==
  /\ TickOver
  /\ admin' = [a \in Admins |-> IdleAdmin]
  /\ permit' = FALSE
  /\ UNCHANGED <<db, issued>>

(* The statements of reconcile_outcome and of the cursor update after it.  *)
Apply ==
  \/ ApplySettings \/ CreateControl \/ SkipLocal \/ RenameControl \/ NoteControl
  \/ UpsertsDone \/ DeleteControl \/ DeletesDone
  \/ ReadRules \/ RulesDone \/ ClearCursor \/ WriteCursor
  \/ \E i \in Ids : ReadForUpsert(i) \/ PruneOne(i) \/ ReadForDelete(i)
  \/ \E r \in Rules : RemoveRule(r) \/ AddRule(r)

Poller == Apply \/ ReconcileFails \/ \E s \in Snapshots : Receive(s)

Admin ==
  \/ \E i \in Ids, n \in Names, t \in Notes : AdminCreate(i, n, t)
  \/ \E a \in Admins :
       \/ \E i \in Ids, n \in Names \union {None}, t \in Notes \union {None} :
            AdminPatch(a, i, n, t)
       \/ \E i \in Ids : AdminDelete(a, i)
       \/ AdminRename(a) \/ AdminNote(a) \/ AdminErase(a) \/ AdminGivesUp(a)

Next == Poller \/ Admin \/ TakePermit \/ Crash

Spec == Init /\ [][Next]_vars

----------------------------------------------------------------------------
(* Type invariant: every variable has the shape the code gives it.         *)
TypeOK ==
  /\ users \in [Ids -> Row \union {None}]
  /\ rules \subseteq Rules
  /\ settings \in Settings
  /\ cursor \in Cursors \union {None}
  /\ pc \in {"idle", "settings", "users", "upsert", "note", "prune", "delta", "delete",
             "rules", "apply", "clear", "write"}
  /\ snap \in Snapshots \union {None}
  /\ pc # "idle" => snap # None
  /\ todo \subseteq Ids /\ dels \subseteq Ids /\ skipped \subseteq Ids
  /\ cur \in Ids \union {None} /\ seen \in Row \union {None}
  /\ stale \subseteq Rules /\ fresh \subseteq Rules
  /\ touched \in BOOLEAN /\ permit \in BOOLEAN
  /\ admin \in [Admins -> [pc : {"idle", "rename", "note", "delete"}, id : Ids \union {None},
                           name : Names \union {None}, note : Notes \union {None}]]
  /\ issued \subseteq Ids

(* The ownership boundary, from the poller's side: no statement of the     *)
(* poller changes or removes a row that is local when the statement runs,  *)
(* although the source was checked in an earlier statement and DELETE and  *)
(* UPDATE name only the id (control.rs 1377-1413, 1565-1688).              *)
PollerSparesLocal ==
  [][Poller => \A i \in Ids : IsLocal(i) => users'[i] = users[i]]_vars

(* The ownership boundary, from the API's side: an admin request never     *)
(* changes a control row (users.rs assert_locally_writable).               *)
AdminSparesControl ==
  [][Admin => \A i \in Ids : IsControl(i) => users'[i] = users[i]]_vars

(* What each program point knows (the control part of the induction).      *)
PointsOK ==
  /\ pc \in {"users", "upsert", "note"} =>
       snap.kind # "none" /\ todo \subseteq DOMAIN snap.users
  /\ pc \in {"upsert", "note"} => cur \in DOMAIN snap.users
  /\ pc \in {"note", "delete"} => cur \in Ids /\ seen # None
  /\ pc = "note" => seen.src = "control"
  /\ \A a \in Admins :
       /\ admin[a].pc # "idle" => admin[a].id # None
       /\ admin[a].pc = "rename" => admin[a].name # None
       /\ admin[a].pc = "note" => admin[a].note # None

(* Why the check made one statement early still holds when it is used: the *)
(* ids in the poller's hands are all spoken for, so no local row can appear *)
(* under them, and a row it has seen as its own is not local any more.     *)
Claimed ==
  /\ \A i \in Ids : Exists(i) => i \in issued
  /\ snap # None => DOMAIN snap.users \union snap.delete \subseteq issued
  /\ pc \in {"prune", "delta", "delete"} => dels \subseteq issued
  /\ pc = "prune" => \A i \in dels : ~IsLocal(i)
  /\ pc \in {"upsert", "note", "delete"} /\ seen # None =>
       /\ cur \in issued
       /\ seen.src = "control" => ~IsLocal(cur)

(* The inductive invariant behind PollerSparesLocal.                       *)
OwnershipInv == TypeOK /\ PointsOK /\ Claimed

(* The content the snapshot asks for is in place.                          *)
UserApplied(i) ==
  \/ i \in skipped /\ ~IsControl(i)
  \/ users[i] = [name |-> snap.users[i].name, note |-> snap.users[i].note, src |-> "control"]

UsersApplied ==
  CASE snap.kind = "full"  ->
         /\ \A i \in DOMAIN snap.users : UserApplied(i)
         /\ Prunes => \A i \in Ids \ DOMAIN snap.users : ~IsControl(i)
    [] snap.kind = "delta" ->
         /\ \A i \in DOMAIN snap.users \ snap.delete : UserApplied(i)
         /\ \A i \in snap.delete : ~IsControl(i)
    [] OTHER -> TRUE

RulesApplied ==
  snap.hasRules /\ HasIptables =>
    /\ snap.rules \subseteq rules
    /\ Prunes => rules = snap.rules

(* A cursor is only acknowledged for a snapshot that is in the database:   *)
(* when the poller reaches the cursor statements every user it was asked   *)
(* for is there with the asked content or was refused as local, everything *)
(* to delete is gone and the rules are in place (control.rs 1145-1178).    *)
CursorMeansApplied ==
  pc \in {"clear", "write"} => UsersApplied /\ RulesApplied

(* docs/control-center.md 394: "When true, nsp wipes the persisted cursor  *)
(* **before** anything else."                                              *)
ResetWipesFirst ==
  pc \notin {"idle", "settings", "clear", "write"} /\ snap.reset => cursor = None
=============================================================================
