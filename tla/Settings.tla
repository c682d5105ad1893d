----------------------------- MODULE Settings -----------------------------
(***************************************************************************)
(* The settings row and who depends on it: the configuration that is       *)
(* loaded at boot and overlaid with the row (nsp/src/cli.rs, main.rs), the *)
(* admin's sessions (api/src/routes.rs, core/src/auth.rs), PATCH           *)
(* /api/settings and POST /api/reload, which change the running drivers    *)
(* (api/src/settings.rs), and the control center, which writes the row     *)
(* behind them (control.rs apply_settings).                                *)
(*                                                                         *)
(* A handler awaits the database or a driver's lock between any two of its *)
(* steps, so requests interleave there.  Shadowsocks and WireGuard are     *)
(* both enabled.  The peers that a new subnet would leave outside are in   *)
(* WgPeers; here that refusal may or may not come.                         *)
(***************************************************************************)
EXTENDS Integers, FiniteSets

CONSTANTS
  Reqs,      \* requests under way
  Passwords, Domains, Subnets, SsPorts, WgPorts,
  Unset,
  Bind,      \* shadowsocks.bind, the host of client URLs when there is no domain
  Defaults,  \* core/src/config.rs: a value for each key
  Scenarios, \* what may come from outside, as sets of partial functions:
             \*   files      contents of nsp.toml, on the keys
             \*   overrides  NSP_* variables and flags, on the keys
             \*   patches    bodies of PATCH /api/settings, on the fields
             \*   snapshots  settings sections of the control center
  MaxGen,    \* bound on token_generation
  MaxEvents  \* bound on boots and control snapshots

(* Of the fifty odd keys, those that the settings row overlays, the admin  *)
(* password and security.api.                                              *)
Columns == {"domain", "subnet", "ssPort", "wgPort"}
Keys    == Columns \union {"password", "api"}
Modes   == {"enabled", "readonly", "disabled"}

ValuesOf == [domain |-> Domains \union {Unset}, subnet |-> Subnets \union {Unset},
             ssPort |-> SsPorts, wgPort |-> WgPorts,
             password |-> Passwords \union {Unset}, api |-> Modes]
Rows == [domain : ValuesOf["domain"], subnet : ValuesOf["subnet"], ssPort : SsPorts, wgPort : WgPorts,
         hash : ValuesOf["password"], gen : Nat]
Partial(f, S) == DOMAIN f \subseteq S /\ \A c \in DOMAIN f : f[c] \in ValuesOf[c]

ASSUME SettingsAssumption ==
  /\ Unset \notin Passwords /\ Unset \notin Domains /\ Unset \notin Subnets /\ Unset \notin Rows
  /\ SsPorts \subseteq Nat /\ WgPorts \subseteq Nat /\ 4433 \in SsPorts /\ 51820 \in WgPorts
  /\ Bind \notin Domains /\ MaxGen \in Nat /\ MaxEvents \in Nat
  /\ DOMAIN Defaults = Keys /\ Partial(Defaults, Keys)
  /\ \A s \in Scenarios :
       /\ \A f \in s.files \union s.overrides : Partial(f, Keys)
       /\ \A p \in s.patches : Partial(p, Columns \union {"password"}) /\ ~("password" \in DOMAIN p /\ p.password = Unset)
       /\ \A c \in s.snapshots : Partial(c, Columns)

VARIABLES
  row,       \* the settings row
  edited,    \* the columns that a patch or a snapshot has set
  phase,     \* how far the process has booted
  config,    \* what load_config returned
  live,      \* what the drivers run with
  tokens,    \* tokens issued: the password they were given for and their tgen
  req,       \* where each request stands
  alone,     \* the request, if any, that nothing has overlapped
  disturbed, \* no longer bound to agree with the row: see SettledMeansLive
  events,
  scenario   \* fixed

settingsVars == <<row, edited, phase, config, live, tokens, req, alone, disturbed, events, scenario>>

process == <<phase, config>>
overlap == <<alone, disturbed>>
AtRest == [at |-> "idle"]
Seed   == [domain |-> Unset, subnet |-> Unset, ssPort |-> 4433, wgPort |-> 51820, hash |-> Unset, gen |-> 1]
Off    == [ssPort |-> Unset, ssHost |-> Unset, subnet |-> Unset, host |-> Unset, wgPort |-> Unset]

(* migrations/0001_initial.sql inserts the row.                            *)
SettingsInit ==
  /\ row = Seed /\ edited = {} /\ phase = "down" /\ config = Defaults /\ live = Off
  /\ tokens = {} /\ req = [r \in Reqs |-> AtRest] /\ alone = {} /\ disturbed = FALSE /\ events = 0
  /\ scenario \in Scenarios

----------------------------------------------------------------------------
(* SettingsRepo.                                                           *)

(* SettingsRepo::patch, one transaction: a new password ends every session.*)
Written(s, p) ==
  [c \in DOMAIN s |-> IF c \in Columns \intersect DOMAIN p THEN p[c]
                      ELSE IF "password" \notin DOMAIN p THEN s[c]
                      ELSE CASE c = "hash" -> p.password [] c = "gen" -> s.gen + 1 [] OTHER -> s[c]]

----------------------------------------------------------------------------
(* Boot.                                                                   *)

(* load_config: the defaults, then the file, then variables and flags.     *)
Loaded(file, overrides) ==
  [k \in Keys |-> IF k \in DOMAIN overrides THEN overrides[k]
                  ELSE IF k \in DOMAIN file THEN file[k] ELSE Defaults[k]]

Load ==
  /\ phase = "down" /\ events < MaxEvents /\ events' = events + 1
  /\ \E f \in scenario.files, o \in scenario.overrides : config' = Loaded(f, o)
  /\ phase' = "loaded"
  /\ UNCHANGED <<row, edited, live, tokens, req, overlap>>

(* bootstrap_admin: the configured password counts only while there is none*)
BootAdmin ==
  /\ phase = "loaded" /\ phase' = "admin"
  /\ row' = IF row.hash = Unset /\ config.password # Unset
            THEN Written(row, [password |-> config.password]) ELSE row
  /\ UNCHANGED <<edited, config, live, tokens, req, overlap, events>>

(* hydrate_config_from_settings: a column that is NULL is filled from the  *)
(* configuration; then the row is what the drivers start with.             *)
Seeded ==
  [c \in DOMAIN row |-> IF c \in {"domain", "subnet"} /\ row[c] = Unset THEN config[c] ELSE row[c]]

BootDrivers ==
  /\ phase = "admin" /\ phase' = "up"
  /\ row' = Seeded
  /\ live' = [ssPort |-> Seeded.ssPort, ssHost |-> IF Seeded.domain = Unset THEN Bind ELSE Seeded.domain,
              subnet |-> Seeded.subnet, host |-> Seeded.domain, wgPort |-> Seeded.wgPort]
  /\ disturbed' = FALSE
  /\ UNCHANGED <<edited, config, tokens, req, alone, events>>

(* A shutdown, a crash or a boot step that fails.  Tokens are signed with a*)
(* key derived from the master key, so they outlive the process.           *)
Stop ==
  /\ phase # "down" /\ phase' = "down" /\ live' = Off
  /\ req' = [r \in Reqs |-> AtRest] /\ alone' = {} /\ disturbed' = FALSE
  /\ UNCHANGED <<row, edited, config, tokens, events>>

----------------------------------------------------------------------------
(* Sessions.  enforce_api_mode lets a POST or PATCH through only in        *)
(* "enabled"; in "disabled" the port is not even bound.                    *)
MayWrite == phase = "up" /\ config.api = "enabled"

(* login: one read of the row gives both the hash and the generation.      *)
LoginRead(r, pw) ==
  /\ MayWrite /\ req[r] = AtRest /\ row.hash # Unset
  /\ req' = [req EXCEPT ![r] = [at |-> "login", pw |-> pw, hash |-> row.hash, gen |-> row.gen]]
  /\ UNCHANGED <<row, edited, process, live, tokens, overlap, events>>

Matches(q) == q.pw = q.hash
Token(q)   == [pw |-> q.pw, gen |-> q.gen]

(* Mutation: the generation is read when the token is issued.              *)
LoginIssueLate(r) ==
  /\ req[r].at = "login" /\ req' = [req EXCEPT ![r] = AtRest]
  /\ tokens' = tokens \union {t \in {[pw |-> req[r].pw, gen |-> row.gen]} : Matches(req[r])}
  /\ UNCHANGED <<row, edited, process, live, overlap, events>>

LoginIssue(r) ==
  /\ req[r].at = "login" /\ req' = [req EXCEPT ![r] = AtRest]
  /\ tokens' = tokens \union {t \in {Token(req[r])} : Matches(req[r])}
  /\ UNCHANGED <<row, edited, process, live, overlap, events>>

(* exp, with five seconds of leeway.                                       *)
Expire(t) ==
  /\ tokens' = tokens \ {t}
  /\ UNCHANGED <<row, edited, process, live, req, overlap, events>>

(* require_auth.                                                           *)
Accepts(t) == t.gen >= row.gen

----------------------------------------------------------------------------
(* PATCH /api/settings and POST /api/reload.                               *)

Handling(q) == q.at \notin {"idle", "login"}
Busy        == \E q \in Reqs : Handling(req[q])
Done(r)     == req' = [req EXCEPT ![r] = AtRest]

Arrive(r, t, q) ==
  /\ MayWrite /\ req[r] = AtRest /\ Accepts(t)
  /\ req' = [req EXCEPT ![r] = q]
  /\ disturbed' = (disturbed \/ Busy) /\ alone' = IF Busy THEN {} ELSE {r}
  /\ UNCHANGED <<row, edited, process, live, tokens, events>>

ArrivePatch(r, t, p) == Arrive(r, t, [at |-> "auth", patch |-> p])
ArriveReload(r, t)   == Arrive(r, t, [at |-> "reload"])

(* The row before, for the comparison after the commit.                    *)
PatchRead(r) ==
  /\ req[r].at = "auth"
  /\ ~("wgPort" \in DOMAIN req[r].patch /\ req[r].patch.wgPort # row.wgPort)
  /\ req' = [req EXCEPT ![r] = [at |-> "read", patch |-> @.patch, before |-> row]]
  /\ UNCHANGED <<row, edited, process, live, tokens, overlap, events>>

(* 400 for a new WireGuard port, 409 for a subnet that leaves peers out.   *)
PatchRefused(r) ==
  /\ req[r].at = "auth"
  /\ \/ "wgPort" \in DOMAIN req[r].patch /\ req[r].patch.wgPort # row.wgPort
     \/ "subnet" \in DOMAIN req[r].patch
  /\ Done(r)
  /\ UNCHANGED <<row, edited, process, live, tokens, overlap, events>>

PatchCommit(r) ==
  /\ req[r].at = "read"
  /\ LET p == [c \in DOMAIN req[r].patch \ {"wgPort"} |-> req[r].patch[c]] IN
       /\ "password" \in DOMAIN p => row.gen < MaxGen
       /\ row' = Written(row, p)
       /\ edited' = edited \union (DOMAIN p \intersect Columns)
  /\ req' = [req EXCEPT ![r] = [at |-> "committed", before |-> @.before]]
  /\ UNCHANGED <<process, live, tokens, overlap, events>>

(* patch returns the row of a read of its own, after the commit.           *)
PatchGet(r) ==
  /\ req[r].at = "committed"
  /\ req' = [req EXCEPT ![r] = [at |-> "ss", before |-> @.before, after |-> row]]
  /\ UNCHANGED <<row, edited, process, live, tokens, overlap, events>>

ReloadRead(r) ==
  /\ req[r].at = "reload"
  /\ req' = [req EXCEPT ![r] = [at |-> "ss", before |-> Unset, after |-> row]]
  /\ UNCHANGED <<row, edited, process, live, tokens, overlap, events>>

----------------------------------------------------------------------------
(* apply_runtime: what differs between the two rows, all of it on a reload.*)

Differs(r, c) == req[r].before # Unset => req[r].before[c] # req[r].after[c]
After(r)      == req[r].after

(* Mutation: only the port is compared.                                    *)
ListenedPortOnly(r) ==
  IF Differs(r, "ssPort")
  THEN [live EXCEPT !.ssPort = After(r).ssPort, !.ssHost = IF After(r).domain = Unset THEN @ ELSE After(r).domain]
  ELSE live

(* SsDriver::set_listen, where no domain means leave the host as it is.    *)
Listened(r) ==
  IF Differs(r, "ssPort") \/ Differs(r, "domain")
  THEN [live EXCEPT !.ssPort = After(r).ssPort, !.ssHost = IF After(r).domain = Unset THEN @ ELSE After(r).domain]
  ELSE live

ApplySs(r) ==
  /\ req[r].at = "ss" /\ live' = Listened(r) /\ req' = [req EXCEPT ![r].at = "subnet"]
  /\ UNCHANGED <<row, edited, process, tokens, overlap, events>>

(* WgDriver::set_subnet.                                                   *)
Resized(r) == IF Differs(r, "subnet") THEN [live EXCEPT !.subnet = After(r).subnet] ELSE live

ApplySubnet(r) ==
  /\ req[r].at = "subnet" /\ live' = Resized(r) /\ req' = [req EXCEPT ![r].at = "host"]
  /\ UNCHANGED <<row, edited, process, tokens, overlap, events>>

(* Both drivers keep the new value when what follows fails, or the request *)
(* is dropped there; the rest of the row is not applied and the reconciler *)
(* is not woken.                                                           *)
ApplyFails(r) ==
  /\ \/ req[r].at = "ss" /\ live' = Listened(r) /\ live' # live
     \/ req[r].at = "subnet" /\ live' = Resized(r) /\ Differs(r, "subnet")
  /\ Done(r) /\ disturbed' = TRUE
  /\ UNCHANGED <<row, edited, process, tokens, alone, events>>

ApplyHost(r) ==
  /\ req[r].at = "host" /\ Done(r)
  /\ live' = IF Differs(r, "domain") THEN [live EXCEPT !.host = After(r).domain] ELSE live
  /\ disturbed' = (disturbed /\ ~(req[r].before = Unset /\ r \in alone))
  /\ UNCHANGED <<row, edited, process, tokens, alone, events>>

(* What a request has still to bring from the row to the drivers.  A patch *)
(* takes up only what differs, so what it leaves behind stays behind.      *)
Ahead(at) ==
  CASE at \in {"committed", "ss"} -> {"ssPort", "domain", "subnet"}
    [] at = "subnet" -> {"subnet", "domain"}
    [] at = "host" -> {"domain"}
    [] OTHER -> {}
Unapplied(q) ==
  \E c \in Ahead(q.at) :
    q.before # Unset /\ q.before[c] # (IF q.at = "committed" THEN row ELSE q.after)[c]

(* A request whose client goes away at any await, or whose read of the row *)
(* fails, the one after the commit among them.                             *)
GiveUp(r) ==
  /\ req[r].at # "idle" /\ Done(r)
  /\ disturbed' = (disturbed \/ Unapplied(req[r]))
  /\ UNCHANGED <<row, edited, process, live, tokens, alone, events>>

----------------------------------------------------------------------------
(* apply_settings of the control center writes the columns that differ,    *)
(* wgPort among them, and tells no driver.                                 *)
Snapshot(s) ==
  /\ phase = "up" /\ events < MaxEvents /\ events' = events + 1
  /\ LET d == {c \in DOMAIN s : s[c] # row[c]} IN
       /\ d # {}
       /\ row' = Written(row, [c \in d |-> s[c]]) /\ edited' = edited \union d
  /\ disturbed' = TRUE /\ alone' = {}
  /\ UNCHANGED <<process, live, tokens, req>>

Boot == Load \/ BootAdmin \/ BootDrivers
Handle(r) ==
  \/ LoginIssue(r) \/ PatchRead(r) \/ PatchRefused(r) \/ PatchCommit(r) \/ PatchGet(r) \/ ReloadRead(r)
  \/ ApplySs(r) \/ ApplySubnet(r) \/ ApplyFails(r) \/ ApplyHost(r) \/ GiveUp(r)
Client(r) ==
  \/ \E pw \in Passwords : LoginRead(r, pw)
  \/ \E t \in tokens : ArriveReload(r, t) \/ \E p \in scenario.patches : ArrivePatch(r, t, p)

SettingsNext ==
  /\ \/ Boot \/ Stop
     \/ \E t \in tokens : Expire(t)
     \/ \E s \in scenario.snapshots : Snapshot(s)
     \/ \E r \in Reqs : Client(r) \/ Handle(r)
  /\ UNCHANGED scenario

SettingsSpec == SettingsInit /\ [][SettingsNext]_settingsVars

----------------------------------------------------------------------------
(* Properties.                                                             *)

Fields == Columns \union {"password"}

(* Every variable ranges over the values the code can give it.             *)
SettingsTypeOK ==
  /\ row \in Rows /\ edited \subseteq Columns
  /\ phase \in {"down", "loaded", "admin", "up"} /\ DOMAIN config = Keys /\ Partial(config, Keys)
  /\ live = Off \/ live \in [ssPort : SsPorts, ssHost : Domains \union {Bind}, subnet : ValuesOf["subnet"],
                             host : ValuesOf["domain"], wgPort : WgPorts]
  /\ tokens \subseteq [pw : Passwords, gen : Nat] /\ alone \subseteq Reqs /\ disturbed \in BOOLEAN
  /\ \A r \in Reqs :
       /\ req[r].at \in {"idle", "login", "auth", "reload", "read", "committed", "ss", "subnet", "host"}
       /\ req[r].at = "login" => req[r].hash \in Passwords /\ req[r].gen \in Nat
       /\ req[r].at \in {"auth", "read"} => req[r].patch \in scenario.patches
       /\ req[r].at \in {"ss", "subnet", "host"} => req[r].after \in Rows /\ req[r].before \in Rows \union {Unset}
       /\ req[r].at # "idle" => phase = "up"

(* A token that the middleware still accepts was issued for the password   *)
(* the row holds now, whatever logins, rotations and restarts are under    *)
(* way: "tokens whose tgen lags the current value are rejected"            *)
(* (core/src/auth.rs:24).                                                  *)
OldTokensRefused == \A t \in tokens : Accepts(t) => t.pw = row.hash

Agrees ==
  /\ live.ssPort = row.ssPort /\ live.subnet = row.subnet /\ live.host = row.domain
  /\ row.domain # Unset => live.ssHost = row.domain

(* With no request under way the drivers run with what the row says, unless*)
(* since the last boot or the last undisturbed reload two requests         *)
(* overlapped, a patch that had committed a change was dropped or failed   *)
(* before it had brought it to every driver, or the control center wrote   *)
(* the row.  So reload re-asserts the whole row (api/src/settings.rs:166), *)
(* one patch after the other leaves nothing behind, and a request that is  *)
(* dropped anywhere else leaves the drivers as the row has them.           *)
SettledMeansLive ==
  (phase = "up" /\ ~disturbed /\ \A r \in Reqs : ~Handling(req[r])) => Agrees

----------------------------------------------------------------------------
(* Statements of the repository that the code does not keep.               *)

(* "the toml still provides defaults for fields the user hasn't set"       *)
(* (nsp/src/main.rs:103): the migration has already set both ports.         *)
TomlProvidesDefaults ==
  phase = "up" => \A c \in Columns \ edited : row[c] = config[c]

(* "Any field the user has set in the singleton row takes precedence over  *)
(* its toml / CLI value" (nsp/src/main.rs:383): a column the operator has  *)
(* cleared is filled again at the next boot.                               *)
EditsOutliveBoot == [][BootDrivers => \A c \in edited : row'[c] = row[c]]_settingsVars

(* "re-asserts the full DB state into the drivers" (api/src/settings.rs:   *)
(* 167): a domain that was cleared stays in the Shadowsocks client URLs.   *)
ReloadClearsHost ==
  [][\A r \in Reqs : (ApplyHost(r) /\ req[r].before = Unset /\ r \in alone)
       => (row.domain = Unset => live'.ssHost = Bind)]_settingsVars

(* "SPA still loads and shows current state" (docs/api-lockdown.md:21): to *)
(* show it takes a token, and login is itself a POST.                      *)
ReadonlyShowsState ==
  (phase = "up" /\ config.api = "readonly" /\ row.hash # Unset)
    => (\E t \in tokens : Accepts(t)) \/ \E r \in Reqs, pw \in Passwords : ENABLED LoginRead(r, pw)

(* "drives hot reload of the SS / WG drivers whenever a reload-critical    *)
(* field changes" (api/src/settings.rs:3): not after a driver failed half  *)
(* way or the client went away behind the commit, where the same patch     *)
(* again finds nothing changed, not when two patches are applied in the    *)
(* other order than they were committed, and not when the control center   *)
(* changes the field.                                                      *)
AgreesWhenQuiet ==
  (phase = "up" /\ \A r \in Reqs : req[r] = AtRest) => Agrees
=============================================================================
