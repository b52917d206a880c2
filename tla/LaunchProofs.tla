---------------------------- MODULE LaunchProofs ----------------------------
(***************************************************************************)
(* What a launch guarantees for every engine.toml, every set of manifests,  *)
(* artifacts and extensions, and every moment at which the operator         *)
(* replaces a file.                                                         *)
(***************************************************************************)
EXTENDS Launch, TLAPS

\* A leaf that names no prover is tried with each of these in turn.
USE SMT, Zenon, Z3T(30), SMTT(30)

IsSeq(s) == s \in Seq({s[j] : j \in 1..Len(s)})

\* The record the launch fills in.
BootShape ==
  /\ boot = [phase |-> boot.phase, i |-> boot.i, plan |-> boot.plan, mods |-> boot.mods,
             read |-> boot.read, why |-> boot.why]
  /\ IsSeq(boot.plan) /\ IsSeq(boot.mods) /\ IsSeq(ran)

\* The phases in which the components are loaded, and those after the pre-pass.
Loading == {"admit", "verify", "enforce", "init"}
Prepassed == {"total"} \union Loading \union {"plan", "sources", "live", "idle"}

\* What the pre-pass decides of an entry, and what guest code of it may rest on.
Passes(entry) == ManifestLoads(Manifest(entry)) /\ TriggersConfigured(Manifest(entry))
Capabilities(digest) == Imports[digest] \intersect (Registered \union WasiCaps)
Clean(entry, digest) ==
  /\ PinsHold(digest, entry)
  /\ Capabilities(digest) \subseteq Or(Manifest(entry).deps, {})
  /\ \A permitted \in Effective(entry).caps : Capabilities(digest) \subseteq permitted

\* The plan is the part of the entries that passed the pre-pass.
PlanPassed ==
  /\ Len(boot.plan) <= Len(Entries)
  /\ \A j \in 1..Len(boot.plan) :
       boot.plan[j].name = Manifest(Entries[j]).name /\ Passes(Entries[j])
  /\ \A j, k \in 1..Len(boot.plan) : j < k => boot.plan[j].name # boot.plan[k].name

\* Where the launch is in the entries.
Place ==
  /\ boot.phase \in {"config", "chains", "store", "addons", "link", "wire"} => boot.plan = <<>>
  /\ boot.phase = "wire" => Len(Entries) > 0
  /\ boot.phase = "prepass" => boot.i = Len(boot.plan) + 1 /\ boot.i <= Len(Entries)
  /\ boot.phase \in Prepassed => Len(boot.plan) = Len(Entries)
  /\ boot.phase \in Loading => boot.i = Len(boot.mods) + 1
  /\ boot.phase \notin (Prepassed \ {"total"}) \union {"refused"} =>
       boot.mods = <<>> /\ ran = <<>>
  /\ ran # <<>> => Len(boot.plan) = Len(Entries)

\* The entries run in their order; the one that ran and was not loaded ended the
\* launch, so that the bytes read last are its bytes.
RanInOrder ==
  /\ \A k \in 1..Len(ran) : ran[k] = k
  /\ Len(ran) \in {Len(boot.mods), Len(boot.mods) + 1}
  /\ Len(ran) # Len(boot.mods) => boot.phase = "refused"

\* What has been checked of the entry at hand.
Checked ==
  /\ boot.phase \in {"verify", "enforce", "init"} =>
       PermittedBy(Effective(Entry).caps, Manifest(Entry))
  /\ boot.phase \in {"enforce", "init"} => PinsHold(boot.read, Entry)
  /\ boot.phase = "init" =>
       \A import \in Imports[boot.read] : ImportAllowed(import, Or(Manifest(Entry).deps, {}))

\* What ran, ran from the bytes that were checked.
RanClean ==
  \A k \in 1..Len(ran) :
    Clean(Entries[ran[k]], IF k <= Len(boot.mods) THEN boot.mods[k].digest ELSE boot.read)

LaunchInv ==
  /\ world \in Worlds /\ BootShape
  /\ PlanPassed /\ Place /\ RanInOrder /\ Checked /\ RanClean

-----------------------------------------------------------------------------
\* A sequence over some set is one over its own elements.
LEMMA SeqIsSeq ==
  ASSUME NEW S, NEW s \in Seq(S)
  PROVE  IsSeq(s)
BY DEF IsSeq

\* The plan, the modules and what ran are empty at first.
LEMMA EmptyIsSeq == IsSeq(<<>>) /\ Len(<<>>) = 0
<1>1. <<>> \in Seq({}) /\ Len(<<>>) = 0
  OBVIOUS
<1> QED
  BY <1>1, SeqIsSeq, Zenon

\* One entry more in the plan, among the modules or in what ran.
LEMMA AppendFacts ==
  ASSUME NEW s, IsSeq(s), NEW e
  PROVE  /\ IsSeq(Append(s, e)) /\ Len(Append(s, e)) = Len(s) + 1
         /\ \A j \in 1..Len(s) : Append(s, e)[j] = s[j]
         /\ Append(s, e)[Len(s) + 1] = e
<1> DEFINE S == {s[j] : j \in 1..Len(s)} \union {e}
<1>1. s \in Seq(S)
  BY DEF IsSeq
<1>2. e \in S
  OBVIOUS
<1> DEFINE t == Append(s, e)
<1>3. /\ t \in Seq(S) /\ Len(t) = Len(s) + 1
      /\ \A j \in 1..Len(s) : t[j] = s[j]
      /\ t[Len(s) + 1] = e
  <2> HIDE DEF S
  <2> QED
    BY <1>1, <1>2
<1>4. IsSeq(t)
  <2> HIDE DEF S, t
  <2> QED
    BY <1>3, SeqIsSeq
<1> QED
  BY <1>3, <1>4

\* The entries of engine.toml, or the override's one, are a sequence.
LEMMA EntriesAreASeq ==
  ASSUME world \in Worlds
  PROVE  /\ Len(Entries) \in Nat /\ DOMAIN Entries = 1..Len(Entries)
         /\ Entries # <<>> => Len(Entries) > 0
<1>1. \A r : Len(<<r>>) = 1 /\ DOMAIN <<r>> = 1..1
  OBVIOUS
<1>2. CASE cfg.override
  <2>1. PICK r : Entries = <<r>>
    BY <1>2 DEF Entries
  <2> QED
    BY <1>1, <2>1
<1>3. CASE ~cfg.override
  <2>1. PICK S : Entries \in Seq(S)
    BY <1>3, LaunchAssumption DEF Entries, cfg
  <2> QED
    BY <2>1
<1> QED
  BY <1>2, <1>3

\* The files an operator replaces are the artifacts: the configuration and the
\* manifests were read once, and what follows from them stays.
LEMMA WorldFixed ==
  ASSUME world' = world
  PROVE  /\ Entries' = Entries
         /\ \A e : Manifest(e)' = Manifest(e)
         /\ \A e : Passes(e)' = Passes(e)
         /\ \A e : Effective(e)' = Effective(e)
         /\ \A e, d : PinsHold(d, e)' = PinsHold(d, e)
         /\ \A e, d : Clean(e, d)' = Clean(e, d)
         /\ Registered' = Registered
<1> USE DEF cfg
<1>1. Entries' = Entries /\ Registered' = Registered /\ RequirePin' = RequirePin
  BY DEF Entries, Registered, RequirePin
<1>2. ASSUME NEW e PROVE Manifest(e)' = Manifest(e)
  BY DEF Manifest
<1>3. ASSUME NEW e PROVE Passes(e)' = Passes(e)
  BY <1>1, <1>2 DEF Passes, ManifestLoads, TriggersConfigured, ConfiguredChains
<1>4. ASSUME NEW e PROVE Effective(e)' = Effective(e)
  BY DEF Effective, Policy
<1>5. ASSUME NEW e, NEW d PROVE PinsHold(d, e)' = PinsHold(d, e)
  BY <1>1, <1>2 DEF PinsHold
<1>6. ASSUME NEW e, NEW d PROVE Clean(e, d)' = Clean(e, d)
  BY <1>1, <1>2, <1>4, <1>5 DEF Clean, Capabilities
<1> QED
  BY <1>1, <1>2, <1>3, <1>4, <1>5, <1>6

-----------------------------------------------------------------------------
(* A refusal, and a step that only moves to another phase, preserve what is    *)
(* known of the plan and of what ran.                                          *)

\* What is known of the launch apart from where it is.
Steady ==
  /\ world \in Worlds /\ BootShape
  /\ PlanPassed /\ RanClean
  /\ \A k \in 1..Len(ran) : ran[k] = k
  /\ ran # <<>> => Len(boot.plan) = Len(Entries)

\* What the pre-pass accepted stays accepted: manifests are read once.
LEMMA PlanKept ==
  ASSUME PlanPassed, world' = world, boot'.plan = boot.plan
  PROVE  PlanPassed'
<1>1. \A j \in 1..Len(boot.plan) :
        boot.plan[j].name = Manifest(Entries[j])'.name /\ Passes(Entries[j])'
  BY WorldFixed DEF PlanPassed
<1> QED
  BY <1>1, WorldFixed DEF PlanPassed

\* Nothing that was loaded or run changes.
LEMMA SteadyKept ==
  ASSUME LaunchInv, UNCHANGED <<world, ran>>, BootShape',
         boot'.plan = boot.plan, boot'.mods = boot.mods,
         boot'.read = boot.read \/ Len(ran) = Len(boot.mods)
  PROVE  Steady'
<1> USE DEF LaunchInv
<1>1. world' \in Worlds /\ Entries' = Entries
  BY WorldFixed
<1>2. PlanPassed'
  BY PlanKept
<1>3. RanClean'
  <2> SUFFICES ASSUME NEW k \in 1..Len(ran)
               PROVE  Clean(Entries[ran[k]], IF k <= Len(boot.mods) THEN boot.mods[k].digest ELSE boot.read)'
    BY <1>1 DEF RanClean
  <2> DEFINE e == Entries[ran[k]]
             d == IF k <= Len(boot.mods) THEN boot.mods[k].digest ELSE boot.read
  <2>1. Clean(e, d)
    BY DEF RanClean
  <2>2. e' = e /\ d' = d
    BY <1>1 DEF RanInOrder
  <2> HIDE DEF e, d
  <2>3. Clean(e, d)'
    BY <2>1, <2>2, WorldFixed
  <2> QED
    BY <2>3 DEF e, d
<1> QED
  BY <1>1, <1>2, <1>3 DEF Steady, RanInOrder, Place

\* A launch begins with nothing planned, loaded or started.
LEMMA LaunchInitHolds == LaunchInit => LaunchInv
<1> SUFFICES ASSUME LaunchInit PROVE LaunchInv
  OBVIOUS
<1>1. boot.plan = <<>> /\ boot.mods = <<>> /\ ran = <<>> /\ boot.phase = "config"
  BY DEF LaunchInit
<1>2. BootShape /\ world \in Worlds
  BY <1>1, EmptyIsSeq DEF LaunchInit, BootShape
<1>3. PlanPassed /\ Place /\ RanInOrder /\ Checked /\ RanClean
  <2>1. Len(Entries) \in Nat
    BY <1>2, EntriesAreASeq
  <2> QED
    BY <1>1, <2>1, EmptyIsSeq DEF PlanPassed, Place, RanInOrder, Checked, RanClean,
                                  Prepassed, Loading
<1> QED
  BY <1>2, <1>3 DEF LaunchInv

\* A refusal, at whatever phase.
LEMMA RefusalKeeps ==
  ASSUME LaunchInv, NEW why, boot' = Refusal(why), UNCHANGED <<world, ran>>
  PROVE  LaunchInv'
<1>1. /\ boot'.phase = "refused" /\ boot'.plan = boot.plan /\ boot'.mods = boot.mods
      /\ boot'.read = boot.read /\ BootShape'
  BY Zenon DEF Refusal, LaunchInv, BootShape
<1>2. Steady'
  BY <1>1, SteadyKept
<1>3. Place' /\ RanInOrder' /\ Checked'
  BY <1>1, <1>2 DEF Place, RanInOrder, Checked, Prepassed, Loading, Steady, LaunchInv
<1> QED
  BY <1>2, <1>3 DEF LaunchInv, Steady

\* An early return drops the task set and keeps what was already run.
LEMMA RefuseBootKeeps ==
  ASSUME LaunchInv, NEW why, RefuseBoot(why), Untouched
  PROVE  LaunchInv'
BY RefusalKeeps DEF RefuseBoot, Untouched

\* A step to another phase that loads nothing: what the new phase presupposes is
\* left to show.
LEMMA MoveKeeps ==
  ASSUME LaunchInv, UNCHANGED <<world, ran>>, BootShape',
         boot'.plan = boot.plan, boot'.mods = boot.mods, boot'.read = boot.read,
         Len(ran) = Len(boot.mods), Place', Checked'
  PROVE  LaunchInv'
<1>1. Steady'
  BY SteadyKept
<1>2. RanInOrder'
  BY DEF LaunchInv, RanInOrder
<1> QED
  BY <1>1, <1>2 DEF LaunchInv, Steady

\* The entry at hand, its manifest, its policy and its pins do not change with
\* the disk.
LEMMA EntryFixed ==
  ASSUME world' = world, boot'.i = boot.i
  PROVE  /\ Entry' = Entry /\ Manifest(Entry)' = Manifest(Entry)
         /\ Effective(Entry)' = Effective(Entry)
         /\ \A d : PinsHold(d, Entry)' = PinsHold(d, Entry)
         /\ \A import, deps : ImportAllowed(import, deps)' = ImportAllowed(import, deps)
<1>1. Entry' = Entry
  BY WorldFixed DEF Entry
<1> QED
  BY <1>1, WorldFixed DEF ImportAllowed

\* Moving to phase p.
LEMMA Moves ==
  ASSUME BootShape, ran' = ran, NEW p, boot' = [boot EXCEPT !.phase = p]
  PROVE  /\ BootShape' /\ boot'.phase = p /\ boot'.i = boot.i
         /\ boot'.plan = boot.plan /\ boot'.mods = boot.mods /\ boot'.read = boot.read
BY DEF BootShape

\* The phases before the pre-pass, and those after the last component is loaded.
LEMMA OutsideKeeps ==
  ASSUME LaunchInv,
         \/ Configure \/ ConnectChains \/ OpenStore \/ InstallAddOns \/ Link \/ Wire
         \/ TotalReservation \/ StartListener \/ ListenerEnds \/ OpenSources \/ Viability
  PROVE  LaunchInv'
<1> USE DEF LaunchInv, Place, RanInOrder, InPhase
<1>0. /\ Entries' = Entries /\ Len(Entries) \in Nat
      /\ Len(<<>>) = 0
      /\ world' = world /\ ran' = ran
  <2>1. UNCHANGED <<world, disk, rewrites, ran>>
    BY DEF Untouched, Configure, ConnectChains, OpenStore, InstallAddOns, Link, Wire,
           TotalReservation, StartListener, ListenerEnds, OpenSources, Viability
  <2> QED
    BY <2>1, WorldFixed, EntriesAreASeq, EmptyIsSeq
<1>a. ASSUME NEW p \in {"chains", "store", "addons", "link", "wire"},
             boot' = [boot EXCEPT !.phase = p], p = "wire" => Len(Entries) > 0,
             boot.phase \in {"config", "chains", "store", "addons", "link"}
      PROVE  LaunchInv'
  <2>1. /\ BootShape' /\ boot'.phase = p
        /\ boot'.plan = boot.plan /\ boot'.mods = boot.mods /\ boot'.read = boot.read
    BY <1>0, <1>a, Moves
  <2>2. boot.plan = <<>> /\ boot.mods = <<>> /\ ran = <<>>
    BY <1>a DEF Prepassed, Loading
  <2>3. Place'
    BY <1>a, <1>0, <2>1, <2>2 DEF Prepassed, Loading
  <2>4. Checked'
    BY <1>a, <2>1 DEF Checked
  <2> QED
    BY <1>0, <1>a, <2>1, <2>2, <2>3, <2>4, MoveKeeps
<1>1. CASE Configure
  <2>1. CASE boot' = Refusal("config")
    BY <1>0, <1>1, <2>1, RefusalKeeps DEF Configure
  <2>2. CASE boot' = [boot EXCEPT !.phase = "chains"]
    BY <1>1, <1>a, <2>2 DEF Configure
  <2> QED
    BY <1>1, <2>1, <2>2 DEF Configure
<1>2. CASE ConnectChains
  <2>1. CASE Go("store")
    BY <1>2, <1>a, <2>1 DEF ConnectChains, Go
  <2> QED
    BY <1>2, <2>1, RefuseBootKeeps DEF ConnectChains
<1>3. CASE OpenStore
  <2>1. CASE Go("addons")
    BY <1>3, <1>a, <2>1 DEF OpenStore, Go
  <2> QED
    BY <1>3, <2>1, RefuseBootKeeps DEF OpenStore
<1>4. CASE InstallAddOns
  <2>1. CASE /\ boot' = [boot EXCEPT !.phase = "link"]
             /\ host' = [host EXCEPT !.recorder = TRUE, !.probe = cfg.metrics]
    BY <1>4, <1>a, <2>1 DEF InstallAddOns
  <2> QED
    BY <1>4, <2>1, RefuseBootKeeps DEF InstallAddOns
<1>5. CASE Link
  <2>1. CASE Go("wire")
    <3>1. CASE Entries = <<>>
      BY <1>5, <3>1, RefuseBootKeeps DEF Link
    <3>2. CASE Entries # <<>>
      BY <1>5, <1>a, <2>1, <3>2, EntriesAreASeq DEF Link, Go
    <3> QED
      BY <3>1, <3>2
  <2> QED
    BY <1>5, <2>1, RefuseBootKeeps DEF Link
<1>6. CASE Wire
  <2>1. CASE GoTo("prepass", 1)
    <3>1. /\ BootShape' /\ boot'.phase = "prepass" /\ boot'.i = 1
          /\ boot'.plan = boot.plan /\ boot'.mods = boot.mods /\ boot'.read = boot.read
      BY Zenon, <1>0, <2>1 DEF GoTo, BootShape
    <3>2. boot.mods = <<>> /\ ran = <<>>
      BY <1>6 DEF Wire, Prepassed, Loading
    <3>3. Place'
      BY <1>0, <1>6, <3>1, <3>2 DEF Wire, Prepassed, Loading
    <3>4. Checked'
      BY <1>6, <2>1, <3>1 DEF Wire, GoTo, Checked
    <3> QED
      BY <1>0, <3>1, <3>2, <3>3, <3>4, MoveKeeps
  <2> QED
    BY <1>6, <2>1, RefuseBootKeeps DEF Wire
<1>7. CASE TotalReservation
  <2>1. CASE GoTo("admit", 1)
    <3>1. /\ BootShape' /\ boot'.phase = "admit" /\ boot'.i = 1
          /\ boot'.plan = boot.plan /\ boot'.mods = boot.mods /\ boot'.read = boot.read
      BY Zenon, <1>0, <2>1 DEF GoTo, BootShape
    <3>2. boot.mods = <<>> /\ ran = <<>>
      BY <1>7 DEF TotalReservation, Prepassed, Loading
    <3>3. Place'
      BY <1>0, <1>7, <3>1, <3>2 DEF TotalReservation, Prepassed, Loading
    <3>4. Checked'
      BY <1>7, <2>1, <3>1 DEF TotalReservation, GoTo, Checked
    <3> QED
      BY <1>0, <3>1, <3>2, <3>3, <3>4, MoveKeeps
  <2> QED
    BY <1>7, <2>1, RefuseBootKeeps DEF TotalReservation
<1>b. ASSUME NEW p \in {"sources", "live", "idle"}, boot' = [boot EXCEPT !.phase = p],
             boot.phase \in {"plan", "sources"}
      PROVE  LaunchInv'
  <2>1. /\ BootShape' /\ boot'.phase = p
        /\ boot'.plan = boot.plan /\ boot'.mods = boot.mods /\ boot'.read = boot.read
    BY <1>0, <1>b, Moves
  <2>2. Place'
    BY <1>0, <1>b, <2>1 DEF Prepassed, Loading
  <2>3. Checked'
    BY <1>b, <2>1 DEF Checked
  <2>4. Len(ran) = Len(boot.mods)
    BY <1>b
  <2> QED
    BY <1>0, <1>b, <2>1, <2>2, <2>3, <2>4, MoveKeeps
<1>8. CASE StartListener
  <2>1. CASE /\ boot' = [boot EXCEPT !.phase = "sources"]
             /\ host' = [host EXCEPT !.listener = "waiting"]
    BY <1>8, <1>b, <2>1 DEF StartListener
  <2> QED
    BY <1>8, <2>1, RefuseBootKeeps DEF StartListener
<1>c. ASSUME boot' = boot, boot.phase # "refused"
      PROVE  LaunchInv'
  <2>1. BootShape' /\ Place' /\ Len(ran) = Len(boot.mods)
    BY <1>0, <1>c DEF BootShape
  <2>2. Checked'
    BY <1>0, <1>c, EntryFixed DEF Checked, PermittedBy
  <2> QED
    BY <1>0, <1>c, <2>1, <2>2, MoveKeeps
<1>9. CASE ListenerEnds
  <2>1. boot' = boot
    BY <1>9 DEF ListenerEnds
  <2>2. CASE boot.phase # "refused"
    BY <1>c, <2>1, <2>2
  <2>3. CASE boot.phase = "refused"
    <3>1. Steady'
      BY <1>0, <2>1, SteadyKept DEF BootShape
    <3> QED
      BY <1>0, <2>1, <2>3, <3>1 DEF Steady, Checked, Prepassed, Loading
  <2> QED
    BY <2>2, <2>3
<1>10. CASE OpenSources
  <2>1. CASE RefuseBoot("open_sources")
    BY <1>10, <2>1, RefuseBootKeeps DEF OpenSources
  <2>2. CASE ~RefuseBoot("open_sources")
    <3>1. boot' = boot
      BY <1>10, <2>2 DEF OpenSources
    <3> QED
      BY <1>10, <1>c, <3>1 DEF OpenSources
  <2> QED
    BY <2>1, <2>2
<1>11. CASE Viability
  <2>1. CASE Go("live")
    BY <1>11, <1>b, <2>1 DEF Viability, Go
  <2>2. CASE boot' = [boot EXCEPT !.phase = "idle"] /\ host' = DropTaskSet(host)
    BY <1>11, <1>b, <2>2 DEF Viability
  <2> QED
    BY <1>11, <2>1, <2>2, RefuseBootKeeps DEF Viability
<1> QED
  BY Zenon, <1>1, <1>2, <1>3, <1>4, <1>5, <1>6, <1>7, <1>8, <1>9, <1>10, <1>11

-----------------------------------------------------------------------------
(* The entries, one at a time.                                                 *)

\* The pre-pass of one entry: it joins the plan.
LEMMA PrepassKeeps ==
  ASSUME LaunchInv, Prepass
  PROVE  LaunchInv'
<1> USE DEF LaunchInv
<1>0. /\ UNCHANGED <<world, ran>> /\ boot.phase = "prepass" /\ Entries' = Entries
      /\ Len(Entries) \in Nat
  <2>1. UNCHANGED <<world, ran>> /\ boot.phase = "prepass"
    BY DEF Prepass, InPhase, Untouched
  <2> QED
    BY <2>1, WorldFixed, EntriesAreASeq
<1> DEFINE m == Manifest(Entry)
           row == [name |-> m.name, mem |-> NarrowTo(m.mem, Effective(Entry).mem)]
           onward == Onward("prepass", "total")
<1>1. CASE RefuseBoot("manifest") \/ RefuseBoot("namespace") \/ RefuseBoot("chain")
  BY <1>1, RefuseBootKeeps DEF Prepass
<1>2. CASE /\ ManifestLoads(m) /\ TriggersConfigured(m)
           /\ m.name \notin {boot.plan[j].name : j \in DOMAIN boot.plan}
           /\ UNCHANGED host
           /\ boot' = [boot EXCEPT !.plan = Append(@, row), !.i = onward.i, !.phase = onward.phase]
  <2>1. /\ boot.i = Len(boot.plan) + 1 /\ boot.mods = <<>> /\ ran = <<>>
        /\ Len(boot.plan) \in Nat /\ Len(boot.mods) = 0 /\ Len(ran) = 0
    BY <1>0, EmptyIsSeq DEF Place, Prepassed, Loading, BootShape, IsSeq
  <2>2. /\ IsSeq(Append(boot.plan, row)) /\ Len(Append(boot.plan, row)) = Len(boot.plan) + 1
        /\ \A j \in 1..Len(boot.plan) : Append(boot.plan, row)[j] = boot.plan[j]
        /\ Append(boot.plan, row)[Len(boot.plan) + 1] = row
    BY AppendFacts DEF BootShape
  <2>3. /\ boot'.plan = Append(boot.plan, row) /\ boot'.mods = boot.mods
        /\ boot'.i = onward.i /\ boot'.phase = onward.phase /\ BootShape'
    BY Zenon, <1>0, <1>2, <2>2 DEF BootShape
  <2>4. \/ Len(boot.plan) + 1 < Len(Entries) /\ boot'.phase = "prepass" /\ boot'.i = boot.i + 1
        \/ Len(boot.plan) + 1 = Len(Entries) /\ boot'.phase = "total"
    BY <1>0, <2>1, <2>3 DEF Onward, Place
  <2>5. Place'
    BY <1>0, <2>1, <2>2, <2>3, <2>4 DEF Place, Prepassed, Loading
  <2>6. PlanPassed'
    <3>1. \A j \in 1..Len(boot.plan) + 1 :
            /\ Append(boot.plan, row)[j].name = Manifest(Entries[j]).name
            /\ Passes(Entries[j])
      BY <1>2, <2>1, <2>2 DEF PlanPassed, Passes, Entry
    <3>2. \A j \in 1..Len(boot.plan) : boot.plan[j].name # m.name
      BY <1>2 DEF BootShape, IsSeq
    <3>3. \A j, k \in 1..Len(boot.plan) + 1 :
            j < k => Append(boot.plan, row)[j].name # Append(boot.plan, row)[k].name
      BY <2>1, <2>2, <3>2 DEF PlanPassed
    <3>4. \A j \in 1..Len(boot.plan) + 1 :
            /\ Append(boot.plan, row)[j].name = (Manifest(Entries[j]).name)'
            /\ Passes(Entries[j])'
      BY <1>0, <3>1, WorldFixed
    <3> QED
      BY <1>0, <2>1, <2>2, <2>3, <2>4, <3>3, <3>4 DEF PlanPassed
  <2>7. RanInOrder' /\ RanClean' /\ Checked'
    BY <1>0, <2>1, <2>3, <2>4 DEF RanInOrder, RanClean, Checked
  <2>8. world' \in Worlds
    BY <1>0
  <2> QED
    BY <2>3, <2>5, <2>6, <2>7, <2>8
<1> QED
  BY <1>1, <1>2 DEF Prepass

\* The checks of one entry, up to its instantiation: each leaves what the next
\* one presupposes.
LEMMA EntryChecksKeep ==
  ASSUME LaunchInv, AdmitEntry \/ Verify \/ EnforceImports
  PROVE  LaunchInv'
<1> USE DEF LaunchInv
<1>0. /\ UNCHANGED <<world, ran>> /\ Entries' = Entries
      /\ boot.phase \in {"admit", "verify", "enforce"} /\ Len(ran) = Len(boot.mods)
  <2>1. UNCHANGED <<world, ran>> /\ boot.phase \in {"admit", "verify", "enforce"}
    BY DEF AdmitEntry, Verify, EnforceImports, InPhase, Untouched
  <2> QED
    BY <2>1, WorldFixed DEF RanInOrder
<1>1. ASSUME NEW p \in {"verify", "enforce", "init"}, boot'.phase = p, boot'.i = boot.i,
             boot'.plan = boot.plan, boot'.mods = boot.mods, UNCHANGED host,
             BootShape', Checked'
      PROVE  LaunchInv'
  <2>1. Steady'
    BY <1>0, <1>1, SteadyKept
  <2>2. Place'
    BY <1>0, <1>1 DEF Place, Prepassed, Loading
  <2>3. RanInOrder'
    BY <1>0, <1>1 DEF RanInOrder
  <2> QED
    BY <1>1, <2>1, <2>2, <2>3 DEF Steady
<1>2. CASE AdmitEntry
  <2>1. CASE /\ PermittedBy(Effective(Entry).caps, Manifest(Entry))
             /\ Go("verify")
    <3>1. /\ BootShape' /\ boot'.phase = "verify" /\ boot'.i = boot.i /\ UNCHANGED host
          /\ boot'.plan = boot.plan /\ boot'.mods = boot.mods
      BY <1>0, <2>1, Moves DEF Go
    <3>2. Checked'
      BY <1>0, <2>1, <3>1, EntryFixed DEF Checked
    <3> QED
      BY <1>1, <3>1, <3>2
  <2> QED
    BY <1>2, <2>1, RefuseBootKeeps DEF AdmitEntry
<1>3. CASE Verify
  <2> DEFINE digest == disk[Entry.path]
  <2>1. CASE /\ PinsHold(digest, Entry) /\ UNCHANGED host
             /\ boot' = [boot EXCEPT !.phase = "enforce", !.read = digest]
    <3> HIDE DEF digest
    <3>1. /\ BootShape' /\ boot'.phase = "enforce" /\ boot'.i = boot.i /\ boot'.read = digest
          /\ boot'.plan = boot.plan /\ boot'.mods = boot.mods
      BY Zenon, <1>0, <2>1 DEF BootShape
    <3>2. Checked'
      BY <1>0, <1>3, <2>1, <3>1, EntryFixed DEF Verify, InPhase, Checked
    <3> QED
      BY <1>1, <2>1, <3>1, <3>2
  <2> QED
    BY <1>3, <2>1, RefuseBootKeeps DEF Verify
<1>4. CASE EnforceImports
  <2>1. CASE /\ \A import \in Imports[boot.read] : ImportAllowed(import, Or(Manifest(Entry).deps, {}))
             /\ Go("init")
    <3>1. /\ BootShape' /\ boot'.phase = "init" /\ boot'.i = boot.i /\ UNCHANGED host
          /\ boot'.plan = boot.plan /\ boot'.mods = boot.mods /\ boot'.read = boot.read
      BY <1>0, <2>1, Moves DEF Go
    <3>2. Checked'
      BY <1>0, <1>4, <2>1, <3>1, EntryFixed DEF EnforceImports, InPhase, Checked
    <3> QED
      BY <1>1, <3>1, <3>2
  <2> QED
    BY <1>4, <2>1, RefuseBootKeeps DEF EnforceImports
<1> QED
  BY <1>2, <1>3, <1>4

\* An entry whose checks all passed may run.
LEMMA CheckedIsClean ==
  ASSUME Checked, boot.phase = "init"
  PROVE  Clean(Entry, boot.read)
<1> DEFINE deps == Or(Manifest(Entry).deps, {})
<1>1. Capabilities(boot.read) \subseteq deps
  BY DEF Checked, ImportAllowed, Capabilities
<1>2. \A permitted \in Effective(Entry).caps : deps \subseteq permitted
  BY DEF Checked, PermittedBy
<1>3. PinsHold(boot.read, Entry)
  BY DEF Checked
<1> QED
  BY <1>1, <1>2, <1>3 DEF Clean

\* Guest code of the entry at hand runs: it joins what ran, and the bytes it ran
\* from are kept, with the module or as the last ones read.
LEMMA RunsClean ==
  ASSUME LaunchInv, boot.phase = "init", world' = world, ran' = Append(ran, boot.i),
         \/ boot'.mods = boot.mods /\ boot'.read = boot.read
         \/ /\ Len(boot'.mods) = Len(boot.mods) + 1
            /\ \A k \in 1..Len(boot.mods) : boot'.mods[k] = boot.mods[k]
            /\ boot'.mods[Len(boot.mods) + 1].digest = boot.read
  PROVE  RanClean' /\ Len(ran') = Len(ran) + 1 /\ \A k \in 1..Len(ran') : ran'[k] = k
<1>1. /\ Len(ran) = Len(boot.mods) /\ boot.i = Len(ran) + 1 /\ Len(ran) \in Nat
      /\ \A k \in 1..Len(ran) : ran[k] = k
  BY DEF LaunchInv, RanInOrder, Place, Loading, Prepassed, BootShape, IsSeq
<1>2. /\ Len(ran') = Len(ran) + 1 /\ ran'[Len(ran) + 1] = Len(ran) + 1
      /\ \A k \in 1..Len(ran) : ran'[k] = k
  BY <1>1, AppendFacts DEF LaunchInv, BootShape
<1> DEFINE d(k) == IF k <= Len(boot.mods) THEN boot.mods[k].digest ELSE boot.read
<1>3. ASSUME NEW k \in 1..Len(ran) + 1
      PROVE  Clean(Entries[k], d(k))
  <2>1. CASE k = Len(ran) + 1
    BY <1>1, <2>1, CheckedIsClean DEF LaunchInv, Entry
  <2>2. CASE k \in 1..Len(ran)
    BY <1>1, <2>2 DEF LaunchInv, RanClean
  <2> QED
    BY <1>1, <2>1, <2>2
<1>4. Entries' = Entries /\ \A e, c : Clean(e, c)' = Clean(e, c)
  BY WorldFixed
<1>5. ASSUME NEW k \in 1..Len(ran) + 1
      PROVE  d(k)' = d(k) /\ ran'[k] = k
  BY <1>1, <1>2
<1>6. ASSUME NEW k \in 1..Len(ran) + 1
      PROVE  Clean(Entries[ran[k]], d(k))'
  <2> HIDE DEF d
  <2> DEFINE e == Entries[ran[k]]
             c == d(k)
  <2>1. e' = Entries[k] /\ c' = d(k)
    BY <1>4, <1>5
  <2>2. Clean(Entries[k], d(k))
    BY <1>3
  <2> HIDE DEF e, c
  <2>3. Clean(e, c)'
    BY <1>4, <2>1, <2>2
  <2> QED
    BY <2>3 DEF e, c
<1> QED
  BY <1>2, <1>5, <1>6 DEF RanClean

\* init runs on the bytes that were checked, whether or not it succeeds.
LEMMA InitModuleKeeps ==
  ASSUME LaunchInv, InitModule
  PROVE  LaunchInv'
<1> USE DEF LaunchInv
<1>0. /\ world' = world /\ boot.phase = "init" /\ Entries' = Entries
      /\ Len(ran) = Len(boot.mods) /\ boot.i = Len(boot.mods) + 1 /\ Len(ran) \in Nat
      /\ Len(boot.plan) = Len(Entries)
  <2>1. world' = world /\ boot.phase = "init"
    BY DEF InitModule, InPhase
  <2> QED
    BY <2>1, WorldFixed DEF RanInOrder, Place, Loading, Prepassed, BootShape, IsSeq
<1>1. PICK end \in {"ok", "fault", "error"} :
        /\ Linked(boot.read) \/ end = "error"
        /\ ran' = IF Linked(boot.read) THEN Append(ran, boot.i) ELSE ran
        /\ \/ RefuseBoot("engine") \/ RefuseBoot("trigger_kind")
           \/ /\ end # "error" /\ UNCHANGED host
              /\ boot' = [boot EXCEPT !.mods = Append(@, Loaded(end = "ok")),
                                      !.i = Onward("admit", "plan").i,
                                      !.phase = Onward("admit", "plan").phase]
  BY Zenon DEF InitModule
<1>2. CASE ~Linked(boot.read)
  BY <1>0, <1>1, <1>2, RefusalKeeps DEF RefuseBoot
<1>3. CASE Linked(boot.read) /\ (RefuseBoot("engine") \/ RefuseBoot("trigger_kind"))
  <2>1. /\ boot'.phase = "refused" /\ boot'.plan = boot.plan /\ boot'.mods = boot.mods
        /\ boot'.read = boot.read
    BY Zenon, <1>3 DEF RefuseBoot, Refusal, BootShape
  <2>2. RanClean' /\ Len(ran') = Len(ran) + 1 /\ \A k \in 1..Len(ran') : ran'[k] = k
    BY <1>0, <1>1, <1>3, <2>1, RunsClean
  <2>3. BootShape'
    BY Zenon, <1>1, <1>3, AppendFacts DEF RefuseBoot, Refusal, BootShape
  <2>4. Place' /\ RanInOrder' /\ Checked'
    BY Zenon, <1>0, <2>1, <2>2 DEF Place, RanInOrder, Checked, Prepassed, Loading
  <2>5. PlanPassed'
    BY <1>0, <2>1, PlanKept
  <2> QED
    BY <1>0, <2>2, <2>3, <2>4, <2>5
<1>4. CASE /\ Linked(boot.read) /\ UNCHANGED host
           /\ boot' = [boot EXCEPT !.mods = Append(@, Loaded(end = "ok")),
                                   !.i = Onward("admit", "plan").i,
                                   !.phase = Onward("admit", "plan").phase]
  <2> DEFINE mod == Loaded(end = "ok")
  <2>1. mod.digest = boot.read
    BY DEF Loaded
  <2> HIDE DEF mod
  <2>2. /\ IsSeq(Append(boot.mods, mod)) /\ Len(Append(boot.mods, mod)) = Len(boot.mods) + 1
        /\ \A j \in 1..Len(boot.mods) : Append(boot.mods, mod)[j] = boot.mods[j]
        /\ Append(boot.mods, mod)[Len(boot.mods) + 1] = mod
    BY AppendFacts DEF BootShape
  <2>3. /\ boot'.mods = Append(boot.mods, mod) /\ boot'.plan = boot.plan
        /\ boot'.i = Onward("admit", "plan").i /\ boot'.phase = Onward("admit", "plan").phase
    BY <1>4 DEF BootShape, mod
  <2>4. /\ RanClean' /\ Len(ran') = Len(ran) + 1 /\ \A k \in 1..Len(ran') : ran'[k] = k
    BY <1>0, <1>1, <1>4, <2>1, <2>2, <2>3, RunsClean
  <2>5. BootShape'
    BY Zenon, <1>1, <1>4, <2>2, AppendFacts DEF BootShape, mod
  <2>6. \/ boot'.phase = "admit" /\ boot'.i = boot.i + 1
        \/ boot'.phase = "plan"
    BY <2>3 DEF Onward
  <2>7. Place' /\ RanInOrder' /\ Checked'
    BY <1>0, <2>2, <2>3, <2>4, <2>6 DEF Place, RanInOrder, Checked, Prepassed, Loading
  <2>8. PlanPassed'
    BY <1>0, <2>3, PlanKept
  <2> QED
    BY <1>0, <2>4, <2>5, <2>7, <2>8
<1> QED
  BY <1>1, <1>2, <1>3, <1>4

\* The artifacts are replaced: what was read, checked and run is not read again.
LEMMA RewriteKeeps ==
  ASSUME LaunchInv, UNCHANGED <<world, boot, host, ran>>
  PROVE  LaunchInv'
<1> USE DEF LaunchInv
<1>1. Steady'
  BY SteadyKept DEF BootShape
<1>2. Place' /\ RanInOrder'
  BY WorldFixed DEF Place, RanInOrder
<1>3. Checked'
  BY EntryFixed DEF Checked, PermittedBy
<1> QED
  BY <1>1, <1>2, <1>3 DEF Steady

\* Every step of the launch, and every rewrite of a file, keeps the invariant.
LEMMA LaunchStepKeeps == LaunchInv /\ [LaunchNext]_launchVars => LaunchInv'
<1> SUFFICES ASSUME LaunchInv, [LaunchNext]_launchVars PROVE LaunchInv'
  OBVIOUS
<1>1. CASE \/ Configure \/ ConnectChains \/ OpenStore \/ InstallAddOns \/ Link \/ Wire
           \/ TotalReservation \/ StartListener \/ ListenerEnds \/ OpenSources \/ Viability
  BY <1>1, OutsideKeeps
<1>2. CASE Prepass
  BY <1>2, PrepassKeeps
<1>3. CASE AdmitEntry \/ Verify \/ EnforceImports
  BY <1>3, EntryChecksKeep
<1>4. CASE InitModule
  BY <1>4, InitModuleKeeps
<1>5. CASE Rewrite \/ UNCHANGED launchVars
  BY <1>5, RewriteKeeps DEF Rewrite, launchVars
<1> QED
  BY <1>1, <1>2, <1>3, <1>4, <1>5 DEF LaunchNext

\* The invariant holds in every state of a launch.
LEMMA LaunchInvariant == LaunchSpec => []LaunchInv
BY LaunchInitHolds, LaunchStepKeeps, PTL DEF LaunchSpec

-----------------------------------------------------------------------------
\* Guest code runs only from bytes that every pin names and whose capabilities are
\* declared and permitted, though the file may be replaced between any two steps
\* (read_verified_component compiles the bytes it hashed), for every engine.toml,
\* every manifest and every number of components.
THEOREM RunsVerifiedBytes == LaunchSpec => []VerifiedBytesRun
<1>1. LaunchInv => VerifiedBytesRun
  <2> SUFFICES ASSUME LaunchInv PROVE VerifiedBytesRun
    OBVIOUS
  <2>1. DOMAIN ran = 1..Len(ran)
    BY DEF LaunchInv, BootShape, IsSeq
  <2> QED
    BY <2>1 DEF LaunchInv, RanClean, Clean, Capabilities, PinsHold, VerifiedBytesRun
<1> QED
  BY <1>1, LaunchInvariant, PTL

\* No guest code runs unless every entry, also a later one, has passed the pre-pass
\* (prepass::run before the first boot_entry): two components of one name, a
\* trigger on an unconfigured chain or an unknown dependency stop all of them.
THEOREM PrepassComesFirst == LaunchSpec => []NothingRunsBeforePrepass
<1>1. LaunchInv => NothingRunsBeforePrepass
  <2> SUFFICES ASSUME LaunchInv, ran # <<>> PROVE NothingRunsBeforePrepass
    BY DEF NothingRunsBeforePrepass
  <2>1. DOMAIN Entries = 1..Len(boot.plan)
    BY EntriesAreASeq DEF LaunchInv, Place
  <2>2. \A i, j \in DOMAIN Entries :
          i < j => Manifest(Entries[i]).name # Manifest(Entries[j]).name
    BY <2>1 DEF LaunchInv, PlanPassed
  <2>3. \A i \in DOMAIN Entries : Passes(Entries[i])
    BY <2>1 DEF LaunchInv, PlanPassed
  <2> QED
    BY <2>2, <2>3 DEF NothingRunsBeforePrepass, Passes, ManifestLoads, TriggerOK,
                      TriggersConfigured
<1> QED
  BY <1>1, LaunchInvariant, PTL
============================================================================
