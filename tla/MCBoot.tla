------------------------------- MODULE MCBoot -------------------------------
(***************************************************************************)
(* What an engine decides while it comes up and what it finds on disk, for  *)
(* TLC: the text of engine.toml, the launch, a cron expression, and the     *)
(* local store with the map it implements.  The four share no state, so one *)
(* is under way in each behaviour and the others rest where they begin.     *)
(***************************************************************************)
EXTENDS Launch, EnvSubst, Cron, LocalStore, SequencesExt

VARIABLE part

-----------------------------------------------------------------------------
(* The launch: artifacts d1 and d2 at the paths of two entries and of the      *)
(* override, the manifests beside them, the operator's policies.               *)
L_Imports == [d \in {"d1", "d2"} |-> IF d = "d1" THEN {"chain", "clocks"} ELSE {"chain", "acme-api", "wasi-unknown"}]
L_Paths == {"p1", "p2", "po"}
L_Disks == {[p \in L_Paths |-> "d1"], [p \in L_Paths |-> IF p = "p1" THEN "d2" ELSE "d1"]}
Trig(on, chain, resume, start) == [on |-> on, chain |-> chain, resume |-> resume, start |-> start]
Plain == [exists |-> TRUE, valuesOK |-> TRUE, name |-> "n1", pin |-> {}, mem |-> {}, deps |-> {{"chain"}},
          hostsOn |-> {}, sections |-> {}, triggers |-> <<Trig("block", 1, FALSE, {})>>]
FirstManifests ==
  {Plain, [Plain EXCEPT !.pin = {"d2"}], [Plain EXCEPT !.exists = FALSE],
   [Plain EXCEPT !.mem = {2}, !.sections = {"acme"}, !.triggers = <<Trig("acme", 0, FALSE, {})>>],
   [Plain EXCEPT !.deps = {{"chain", "acme-api"}}, !.triggers = <<>>]}
SecondManifests ==
  {[Plain EXCEPT !.name = "n2"], Plain,
   [Plain EXCEPT !.name = "n2", !.triggers = <<Trig("event", 1, FALSE, {5})>>],
   [Plain EXCEPT !.name = "n2", !.triggers = <<Trig("event", 2, TRUE, {5})>>],
   [Plain EXCEPT !.name = "n2", !.mem = {7}, !.triggers = <<Trig("other", 0, FALSE, {})>>],
   [Plain EXCEPT !.name = "n2", !.deps = {}], [Plain EXCEPT !.name = "n2", !.hostsOn = {"chain"}]}
Open == [mem |-> 5, total |-> {}, caps |-> {}, print |-> {}, retain |-> {}, defaultLevel |-> 3, targets |-> {},
         rows |-> [id \in {} |-> NoRow]]
Policies ==
  {Open, [Open EXCEPT !.total = {7}], [Open EXCEPT !.total = {8}], [Open EXCEPT !.mem = 0],
   [Open EXCEPT !.caps = {{"local-store"}}],
   [Open EXCEPT !.rows = [id \in {"a"} |-> [NoRow EXCEPT !.retain = {2}, !.caps = {{"chain"}}]], !.print = {3}],
   [Open EXCEPT !.rows = [id \in {"a"} |-> [NoRow EXCEPT !.retain = {2}]], !.targets = {3}],
   [Open EXCEPT !.rows = [id \in {"ghost"} |-> NoRow]]}
Acme == [ns |-> "acme", kinds |-> {"acme"}, sections |-> {"acme"}, caps |-> {"acme-api"}]
Beta == [ns |-> "beta", kinds |-> {"beta"}, sections |-> {}, caps |-> {}]
L_Extensions == {<<>>, <<Acme>>, <<Acme, [Acme EXCEPT !.ns = "acme2"]>>}
ConfigOf(policy, pin, require, override) ==
  [chains |-> {[id |-> 1, ok |-> TRUE]}, policy |-> policy, limitsOK |-> TRUE,
   entries |-> <<[id |-> "a", path |-> "p1", pin |-> pin], [id |-> "b", path |-> "p2", pin |-> {"d1"}]>>,
   requireDigest |-> require, override |-> override, metrics |-> override]
L_World(config, exts, m1, m2) ==
  [cfg |-> config, exts |-> exts, manifests |-> [p \in L_Paths |-> IF p = "p2" THEN m2 ELSE m1]]
L_Worlds ==
  {L_World(ConfigOf(policy, pin, FALSE, FALSE), exts, m1, m2) :
     policy \in Policies, pin \in {{}, {"d1"}}, exts \in L_Extensions,
     m1 \in FirstManifests, m2 \in SecondManifests}
  \union {L_World(ConfigOf(Open, pin, require, override), <<Acme>>, m1, Plain) :
            pin \in {{}, {"d1"}}, require \in BOOLEAN, override \in BOOLEAN, m1 \in FirstManifests}
  \union {L_World([ConfigOf(Open, {}, FALSE, FALSE) EXCEPT !.metrics = TRUE], <<Acme, Beta>>, m1, m2) :
            m1 \in FirstManifests, m2 \in {[Plain EXCEPT !.name = "n2", !.triggers = <<>>],
                                          [Plain EXCEPT !.name = "n2", !.triggers = <<Trig("beta", 0, FALSE, {})>>]}}
  \union {L_World([ConfigOf(Open, {}, FALSE, FALSE) EXCEPT !.entries = es], <<>>, Plain, Plain) :
            es \in {<<>>, <<[id |-> "", path |-> "p1", pin |-> {}]>>}}

-----------------------------------------------------------------------------
(* engine.toml: every text of three units, and longer ones that open a string. *)
E_Texts == BoundedSeq({"#", "dq", "sq", "nl", "bs", "T", "U", "x"}, 3)
           \union {<<"dq", "dq", "dq">> \o s : s \in BoundedSeq({"dq", "bs", "#", "T"}, 5)}
           \union {<<"dq", "dq", "dq", "dq", "dq", "dq", "dq">> \o s : s \in BoundedSeq({"dq", "bs", "#", "T"}, 3)}
           \union {<<"sq", "sq", "sq">> \o s : s \in BoundedSeq({"sq", "bs", "#", "T"}, 4)}
           \union {<<"dq">> \o s : s \in BoundedSeq({"dq", "bs", "#", "T", "nl"}, 4)}

-----------------------------------------------------------------------------
(* Cron expressions around month ends, leap years and the weekday alias.       *)
E1(n) == [kind |-> "one", low |-> n, high |-> n, step |-> -1]
Rg(a, b, s) == [kind |-> "range", low |-> a, high |-> b, step |-> s]
St(s) == [kind |-> "star", low |-> 0, high |-> 0, step |-> s]
X(mi, h, d, mo, w) == [minute |-> mi, hour |-> h, dom |-> d, month |-> mo, dow |-> w]
C_Expressions ==
  {X(<<St(-1)>>, <<St(-1)>>, <<St(-1)>>, <<St(-1)>>, <<St(-1)>>),
   X(<<E1(59)>>, <<E1(23)>>, <<E1(29)>>, <<E1(2)>>, <<St(7)>>),
   X(<<Rg(10, 50, 20)>>, <<Rg(9, 17, 4)>>, <<E1(31)>>, <<E1(4), E1(6)>>, <<E1(7)>>),
   X(<<E1(0)>>, <<E1(0), E1(12)>>, <<E1(31)>>, <<Rg(2, 5, -1)>>, <<St(-1)>>),
   X(<<E1(0)>>, <<E1(0)>>, <<E1(30)>>, <<E1(2)>>, <<St(-1)>>),
   X(<<E1(0)>>, <<E1(0)>>, <<Rg(5, 3, -1)>>, <<E1(2)>>, <<St(-1)>>),
   X(<<E1(60)>>, <<E1(0)>>, <<E1(3)>>, <<E1(2)>>, <<St(-1)>>)}
D(y, m, d) == [y |-> y, m |-> m, d |-> d]
C_Starts == {D(1970, 1, 1), D(1999, 12, 31), D(2026, 4, 5), D(2072, 2, 29), D(2096, 3, 1), D(2399, 12, 31)}
C_Froms == {0, 1011, 1439}

-----------------------------------------------------------------------------
(* The store.                                                                  *)
S_Handles == {[ns |-> "a", quota |-> 9], [ns |-> "a", quota |-> NoQuota]}
Op(k, len) == [key |-> k, len |-> len]
S_Batches == {<<Op(1, 4), Op(2, 0)>>, <<Op(1, 4), Op(1, Absent)>>,
              <<Op(3, 0), Op(1, Absent), Op(3, 4)>>, <<Op(2, 4), Op(1, 4)>>}
S_Queries == {[lo |-> 1, hi |-> 3, keep |-> {0, 4}, limit |-> 0, scanLimit |-> 0],
              [lo |-> 2, hi |-> 3, keep |-> {0}, limit |-> 1, scanLimit |-> 2],
              [lo |-> 1, hi |-> 3, keep |-> {4}, limit |-> 2, scanLimit |-> 1]}

-----------------------------------------------------------------------------
LaunchRests == world = L_World(ConfigOf(Open, {}, FALSE, FALSE), <<>>, Plain, Plain)
               /\ disk = [p \in L_Paths |-> "d1"]
SubstRests == text = <<>>
CronRests == cron = [at |-> "text", text |-> X(<<E1(60)>>, <<E1(0)>>, <<E1(3)>>, <<E1(2)>>, <<St(-1)>>)]
StoreRests == file = CHOOSE f \in Files : TRUE

BootInit ==
  /\ part \in {"launch", "text", "cron", "store"}
  /\ part # "launch" => LaunchRests
  /\ part # "text" => SubstRests
  /\ part # "cron" => CronRests
  /\ part # "store" => StoreRests
  /\ LaunchInit /\ SubstInit /\ CronInit /\ StoreInit

BootNext ==
  /\ \/ part = "launch" /\ LaunchNext /\ UNCHANGED <<substVars, cronVars, storeVars>>
     \/ part = "text" /\ SubstNext /\ UNCHANGED <<launchVars, cronVars, storeVars>>
     \/ part = "cron" /\ CronNext /\ UNCHANGED <<launchVars, substVars, storeVars>>
     \/ part = "store" /\ StoreNext /\ UNCHANGED <<launchVars, substVars, cronVars>>
  /\ UNCHANGED part

BootSpec == BootInit /\ [][BootNext]_<<part, launchVars, substVars, cronVars, storeVars>>
=============================================================================
