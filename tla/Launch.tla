------------------------------- MODULE Launch -------------------------------
(***************************************************************************)
(* From engine.toml to a running engine: the configuration is resolved,    *)
(* the backends open, the add-ons are installed, the extensions linked and *)
(* wired, every manifest passes the pre-pass, the memory reservations are  *)
(* summed, each component is admitted, verified, compiled, checked against *)
(* its declarations and initialised, and the launch starts its tasks and   *)
(* decides whether anything is left to run.                                *)
(* The files on disk are the operator's and may be replaced at any moment. *)
(*                                                                         *)
(* An optional value is a set of at most one element.                      *)
(***************************************************************************)
EXTENDS Integers, Sequences, Functions

CONSTANTS Worlds,    \* [cfg, manifests, exts] the engine may be started in
          Imports,   \* digest -> the imports of the component with it
          Ambient, WasiCaps, CoreCaps, \* imports linked freely, gated, and core
          Disks,     \* states of the artifacts: path -> digest
          OverridePath,
          MaxU64,    \* saturation bound of the reservation sum
          MaxRewrites

\* The component entries are a list.
ASSUME LaunchAssumption ==
  \A w \in Worlds : w.cfg.entries \in Seq(Range(w.cfg.entries))

VARIABLES world, disk, rewrites, \* what the operator wrote
          boot,      \* the launch: phase, entry index, plan, modules, refusal
          host,      \* what the launch started in the process
          ran        \* the entries whose guest code ran, in order

launchVars == <<world, disk, rewrites, boot, host, ran>>

Or(opt, default) == IF opt = {} THEN default ELSE CHOOSE v \in opt : TRUE

cfg == world.cfg
Manifest(entry) == world.manifests[entry.path]

-----------------------------------------------------------------------------
(* Configuration: EngineConfig::try_from and the [policy] view of one id. *)

NoRow == [mem |-> {}, caps |-> {}, print |-> {}, retain |-> {}, targets |-> {}]

PolicyRetain(policy) == Or(policy.retain, policy.defaultLevel)

\* for_component: each unset field of the row falls back to [policy]; a row
\* that sets only retain derives its console from that retain.
ForComponent(policy, id) ==
  LET row     == IF id \in DOMAIN policy.rows THEN policy.rows[id] ELSE NoRow
      console == Or(policy.print, PolicyRetain(policy))
  IN  [mem     |-> Or(row.mem, policy.mem),
       caps    |-> IF row.caps # {} THEN row.caps ELSE policy.caps,
       console |-> Or(row.print, Or(row.retain, console)),
       retain  |-> Or(row.retain, PolicyRetain(policy)),
       targets |-> Or(row.targets, policy.targets)]

\* check_retention: the loudest console floor, target rows included, is kept.
RetentionOK(eff) == \A level \in {eff.console} \union eff.targets : level <= eff.retain

ResolvePolicy(policy, ids) ==
  /\ policy.mem > 0 /\ 0 \notin policy.total
  /\ DOMAIN policy.rows \subseteq ids
  /\ \A id \in DOMAIN policy.rows : 0 \notin policy.rows[id].mem
  /\ \A id \in DOMAIN policy.rows \union {""} : RetentionOK(ForComponent(policy, id))

\* Chains, then ids that are non-empty and unique, then the policy rows that
\* key on them, then the limits (a zero knob or a retired key refuses).
ResolveConfig(c) ==
  LET ids == [i \in DOMAIN c.entries |-> c.entries[i].id]
  IN  /\ \A ch \in c.chains : ch.ok
      /\ "" \notin Range(ids) /\ IsInjective(ids)
      /\ ResolvePolicy(c.policy, Range(ids))
      /\ c.limitsOK

-----------------------------------------------------------------------------
(* Extensions and manifests. *)

\* enforce_extension_uniqueness: one owner for each namespace, trigger kind
\* and manifest section.
ExtensionsUnique(exts) ==
  \A i, j \in DOMAIN exts : i < j =>
    /\ exts[i].ns # exts[j].ns
    /\ exts[i].kinds \intersect exts[j].kinds = {}
    /\ exts[i].sections \intersect exts[j].sections = {}

ExtKinds == UNION {e.kinds : e \in Range(world.exts)}
ExtSections == UNION {e.sections : e \in Range(world.exts)}
Registered == CoreCaps \union UNION {e.caps : e \in Range(world.exts)}

ChainTrigger(t) == t.on \in {"block", "event"}

\* Trigger::try_from: a start height needs a cursor to apply it once.
TriggerOK(t) == t.on = "event" /\ t.start # {} => t.resume

\* manifest::load: the value checks, then every dependency known to the
\* registry, then hosts only on http.
ManifestLoads(m) ==
  /\ m.exists /\ m.valuesOK
  /\ \A i \in DOMAIN m.triggers : TriggerOK(m.triggers[i])
  /\ m.deps # {}
  /\ LET deps == Or(m.deps, {}) IN
       /\ deps \subseteq Registered \union WasiCaps
       /\ m.hostsOn \subseteq {"http"}

ConfiguredChains == {ch.id : ch \in cfg.chains}

\* Mutant: only block triggers are gated
BlocksConfigured(m) ==
  \A i \in DOMAIN m.triggers : m.triggers[i].on = "block" => m.triggers[i].chain \in ConfiguredChains

TriggersConfigured(m) ==
  \A i \in DOMAIN m.triggers : ChainTrigger(m.triggers[i]) => m.triggers[i].chain \in ConfiguredChains

\* resolve_module_limits: a manifest narrows its ceiling and never widens it.
NarrowTo(requested, ceiling) ==
  LET value == Or(requested, ceiling) IN IF value > ceiling THEN ceiling ELSE value

\* The entries and the policy this launch boots: the override is no
\* configured component, so no row binds to it and no operator pin applies.
Entries == IF cfg.override THEN <<[id |-> "stem", path |-> OverridePath, pin |-> {}]>>
           ELSE cfg.entries
Policy == IF cfg.override THEN [cfg.policy EXCEPT !.rows = [id \in {} |-> NoRow]] ELSE cfg.policy
RequirePin == ~cfg.override /\ cfg.requireDigest

Effective(entry) == ForComponent(Policy, entry.id)
Saturated(n) == IF n > MaxU64 THEN MaxU64 ELSE n

-----------------------------------------------------------------------------
(* The launch sequence. *)

InPhase(phase) == boot.phase = phase
Entry == Entries[boot.i]
Go(phase) == boot' = [boot EXCEPT !.phase = phase] /\ UNCHANGED host
GoTo(phase, i) == boot' = [boot EXCEPT !.phase = phase, !.i = i] /\ UNCHANGED host

\* Dropping the TaskSet aborts its pumps; dropping the TaskManager, as an
\* early return does too, fires the signal. A plain task's handle detaches.
DropTaskSet(h) == [h EXCEPT !.pumps = {}]
DropTaskManager(h) == [h EXCEPT !.signal = TRUE]

Refusal(why) == [boot EXCEPT !.phase = "refused", !.why = why]
RefuseBoot(why) == boot' = Refusal(why) /\ host' = DropTaskManager(DropTaskSet(host))

\* The next entry in engine.toml order, or the next phase after the last one.
Onward(phase, next) ==
  IF boot.i < Len(Entries) THEN [phase |-> phase, i |-> boot.i + 1] ELSE [phase |-> next, i |-> 1]
Untouched == UNCHANGED <<world, disk, rewrites, ran>>

\* load_or_default; there is no task manager yet.
Configure ==
  /\ InPhase("config")
  /\ boot' = IF ResolveConfig(cfg) THEN [boot EXCEPT !.phase = "chains"] ELSE Refusal("config")
  /\ UNCHANGED host
  /\ Untouched

\* ProviderPool::from_config: a provider for each chain; the first that does
\* not connect refuses.
ConnectChains ==
  /\ InPhase("chains")
  /\ Go("store") \/ (cfg.chains # {} /\ RefuseBoot("chain_backend"))
  /\ Untouched

\* The local store opens, or its format or the disk refuses (LocalStore).
OpenStore ==
  /\ InPhase("store")
  /\ Go("addons") \/ RefuseBoot("store_backend")
  /\ Untouched

\* The observability add-on: with metrics enabled it takes its port, then
\* installs the process-wide recorder, then serves. Either may be refused.
InstallAddOns ==
  /\ InPhase("addons")
  /\ \E bound, installed \in BOOLEAN :
       IF installed /\ (cfg.metrics => bound)
       THEN /\ boot' = [boot EXCEPT !.phase = "link"]
            /\ host' = [host EXCEPT !.recorder = TRUE, !.probe = cfg.metrics]
       ELSE RefuseBoot("addon")
  /\ Untouched

\* build_linker, which each extension may fail (external), then the choice of
\* what to boot.
Link ==
  /\ InPhase("link")
  /\ IF Entries = <<>> THEN RefuseBoot("nothing_to_run")
     ELSE Go("wire") \/ (world.exts # <<>> /\ RefuseBoot("linker"))
  /\ Untouched

Wire ==
  /\ InPhase("wire")
  /\ IF ExtensionsUnique(world.exts) THEN GoTo("prepass", 1) ELSE RefuseBoot("extensions")
  /\ Untouched

\* prepass::run, one entry: load the manifest, claim the name, gate the
\* triggered chains, resolve the limits.
Prepass ==
  /\ InPhase("prepass")
  /\ LET m == Manifest(Entry)
     IN  IF ~ManifestLoads(m) THEN RefuseBoot("manifest")
         ELSE IF m.name \in {boot.plan[j].name : j \in DOMAIN boot.plan} THEN RefuseBoot("namespace")
         ELSE IF ~TriggersConfigured(m) THEN RefuseBoot("chain")
         ELSE /\ UNCHANGED host
              /\ boot' = [boot EXCEPT
                !.plan = Append(@, [name |-> m.name, mem |-> NarrowTo(m.mem, Effective(Entry).mem)]),
                !.i = Onward("prepass", "total").i, !.phase = Onward("prepass", "total").phase]
  /\ Untouched

\* enforce_total_reservation: a running, saturating sum in entry order.
RunningSum(plan, n) ==
  LET sum[k \in 0..n] == IF k = 0 THEN 0 ELSE Saturated(sum[k - 1] + plan[k].mem)
  IN  sum[n]

TotalReservation ==
  /\ InPhase("total")
  /\ IF \E t \in Policy.total, n \in DOMAIN boot.plan : RunningSum(boot.plan, n) > t
     THEN RefuseBoot("total") ELSE GoTo("admit", 1)
  /\ Untouched

\* enforce_policy_capabilities, the extension sections and each extension's
\* own admission (external: it may refuse).
PermittedBy(caps, m) ==
  \A permitted \in caps :
    /\ Or(m.deps, {}) \subseteq permitted
    /\ (\E i \in DOMAIN m.triggers : ChainTrigger(m.triggers[i])) => "chain" \in permitted

AdmitEntry ==
  /\ InPhase("admit")
  /\ LET m == Manifest(Entry)
     IN  IF ~PermittedBy(Effective(Entry).caps, m) THEN RefuseBoot("capability")
         ELSE IF ~(m.sections \subseteq ExtSections) THEN RefuseBoot("section")
         ELSE Go("verify") \/ (world.exts # <<>> /\ RefuseBoot("worker"))
  /\ Untouched

\* Mutant: the operator's pin stands in for the author's
OnePinHolds(digest, entry) ==
  /\ \A pin \in IF entry.pin # {} THEN entry.pin ELSE Manifest(entry).pin : pin = digest
  /\ RequirePin => entry.pin # {}

PinsHold(digest, entry) ==
  /\ \A pin \in entry.pin \union Manifest(entry).pin : pin = digest
  /\ RequirePin => entry.pin # {}

\* read_verified_component: one read, both pins checked on those bytes, and
\* those bytes compiled.
Verify ==
  /\ InPhase("verify")
  /\ LET digest == disk[Entry.path]
     IN  IF PinsHold(digest, Entry)
         THEN boot' = [boot EXCEPT !.phase = "enforce", !.read = digest] /\ UNCHANGED host
         ELSE RefuseBoot("digest")
  /\ Untouched

\* enforce_capabilities: a registered import or a gated wasi one must be
\* declared, an unknown wasi one refuses, any other is not a capability.
ImportAllowed(import, deps) ==
  IF import \in Registered \union WasiCaps THEN import \in deps
  ELSE import # "wasi-unknown"

EnforceImports ==
  /\ InPhase("enforce")
  /\ IF \A import \in Imports[boot.read] : ImportAllowed(import, Or(Manifest(Entry).deps, {}))
     THEN Go("init") ELSE RefuseBoot("import")
  /\ Untouched

Linked(digest) == Imports[digest] \subseteq Registered \union WasiCaps \union Ambient

Loaded(alive) ==
  [id |-> Entry.id, name |-> boot.plan[boot.i].name, mem |-> boot.plan[boot.i].mem,
   digest |-> boot.read, entry |-> Entry, alive |-> alive]

\* instantiate_module and init. A trap or a failed link refuses the boot, a
\* guest fault loads the module dead. The kinds of its extension triggers are
\* checked after that.
InitModule ==
  /\ InPhase("init")
  /\ \E end \in {"ok", "fault", "error"} :
       LET m       == Manifest(Entry)
           unknown == \E i \in DOMAIN m.triggers :
                        m.triggers[i].on \notin {"block", "event", "schedule"} \union ExtKinds
           onward  == Onward("admit", "plan")
       IN  /\ Linked(boot.read) \/ end = "error"
           /\ ran' = IF Linked(boot.read) THEN Append(ran, boot.i) ELSE ran
           /\ IF end = "error" THEN RefuseBoot("engine")
              ELSE IF unknown THEN RefuseBoot("trigger_kind")
              ELSE /\ boot' = [boot EXCEPT !.mods = Append(@, Loaded(end = "ok")),
                                           !.i = onward.i, !.phase = onward.phase]
                   /\ UNCHANGED host
  /\ UNCHANGED <<world, disk, rewrites>>

\* source_plan: what the live modules' triggers open.
TriggersOf(mod) == Range(Manifest(mod.entry).triggers)
Alive == {mod \in Range(boot.mods) : mod.alive}

CoreSources == {t \in UNION {TriggersOf(mod) : mod \in Alive} : t.on \notin ExtKinds}
DeadHoldTriggers == \E mod \in Range(boot.mods) \ Alive : TriggersOf(mod) # {}

\* Something is alive, so the OS signal listener starts, a critical task.
StartListener ==
  /\ InPhase("plan")
  /\ IF Alive = {} THEN RefuseBoot("all_dead")
     ELSE /\ boot' = [boot EXCEPT !.phase = "sources"]
          /\ host' = [host EXCEPT !.listener = "waiting"]
  /\ Untouched

\* SIGINT or SIGTERM arrives, or the signal is already fired: the listener
\* ends, and the end of a critical task fires the signal.
ListenerEnds ==
  /\ host.listener = "waiting"
  /\ host' = [host EXCEPT !.listener = "ended", !.signal = TRUE]
  /\ UNCHANGED boot
  /\ Untouched

\* open_sources of the next extension: it may start pumps, and then open a
\* stream for a kind some live module declares, open none, or fail.
Demanded == {t.on : t \in UNION {TriggersOf(mod) : mod \in Alive}} \intersect ExtKinds
OpenSources ==
  /\ InPhase("sources") /\ host.asked < Len(world.exts)
  /\ LET n == host.asked + 1
         pumps == {host.pumps, host.pumps \union {n}}
     IN  \/ \E p \in pumps, streams \in {0, 1} :
              /\ streams > 0 => world.exts[n].kinds \intersect Demanded # {}
              /\ host' = [host EXCEPT !.asked = n, !.pumps = p, !.streams = @ + streams]
              /\ UNCHANGED boot
         \/ RefuseBoot("open_sources")
  /\ Untouched

\* The launch verdict. With nothing to drive the handle is returned complete,
\* and the pump set is dropped at the return.
Viability ==
  /\ InPhase("sources") /\ host.asked = Len(world.exts)
  /\ IF CoreSources # {} \/ host.streams > 0 THEN Go("live")
     ELSE IF DeadHoldTriggers THEN RefuseBoot("dead_hold_triggers")
     ELSE /\ boot' = [boot EXCEPT !.phase = "idle"]
          /\ host' = DropTaskSet(host)
  /\ Untouched

\* The operator replaces the artifacts while the engine boots.
Rewrite ==
  /\ rewrites < MaxRewrites /\ boot.phase \notin {"live", "idle", "refused"}
  /\ disk' \in Disks \ {disk}
  /\ rewrites' = rewrites + 1
  /\ UNCHANGED <<world, boot, host, ran>>

LaunchInit ==
  /\ world \in Worlds /\ disk \in Disks /\ rewrites = 0
  /\ boot = [phase |-> "config", i |-> 1, plan |-> <<>>, mods |-> <<>>, read |-> "none", why |-> "none"]
  /\ host = [recorder |-> FALSE, probe |-> FALSE, signal |-> FALSE, listener |-> "none",
             asked |-> 0, pumps |-> {}, streams |-> 0]
  /\ ran = <<>>

LaunchNext ==
  \/ Configure \/ ConnectChains \/ OpenStore \/ InstallAddOns \/ Link \/ Wire \/ Prepass \/ TotalReservation \/ AdmitEntry \/ Verify \/ EnforceImports
  \/ InitModule \/ StartListener \/ ListenerEnds \/ OpenSources \/ Viability \/ Rewrite

LaunchSpec == LaunchInit /\ [][LaunchNext]_launchVars

-----------------------------------------------------------------------------
(* Properties. *)

\* Guest code runs only from bytes that every pin present names, with an
\* operator pin wherever one is required, however the file changes while the
\* engine boots; and those bytes import no capability that the manifest does
\* not declare and the operator does not permit.
VerifiedBytesRun ==
  \A k \in DOMAIN ran :
    LET entry  == Entries[ran[k]]
        digest == IF k <= Len(boot.mods) THEN boot.mods[k].digest ELSE boot.read
        caps   == Imports[digest] \intersect (Registered \union WasiCaps)
    IN  /\ \A pin \in entry.pin \union Manifest(entry).pin : pin = digest
        /\ RequirePin => entry.pin # {}
        /\ caps \subseteq Or(Manifest(entry).deps, {})
        /\ \A permitted \in Effective(entry).caps : caps \subseteq permitted

\* No guest code runs while any entry, a later one included, fails the
\* pre-pass: a name claimed twice, a trigger on a chain with no [chains]
\* entry, a start height without resume, an unknown dependency.
NothingRunsBeforePrepass ==
  ran # <<>> =>
    /\ \A i, j \in DOMAIN Entries :
         i < j => Manifest(Entries[i]).name # Manifest(Entries[j]).name
    /\ \A i \in DOMAIN Entries :
         LET m == Manifest(Entries[i]) IN
           /\ \A k \in DOMAIN m.triggers :
                /\ ChainTrigger(m.triggers[k]) => m.triggers[k].chain \in ConfiguredChains
                /\ m.triggers[k].on = "event" /\ ~m.triggers[k].resume => m.triggers[k].start = {}
           /\ Or(m.deps, {}) \subseteq Registered \union WasiCaps
=============================================================================
