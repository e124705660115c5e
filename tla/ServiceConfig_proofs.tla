---- MODULE ServiceConfig_proofs ----
(***************************************************************************)
(* Proofs about ServiceConfig, for every configuration file.               *)
(***************************************************************************)
EXTENDS ServiceConfig, TLAPS

\* What setDefaults leaves alone, and what it fills in.
LEMMA SetDefaultsFields ==
    ASSUME NEW c \in Config
    PROVE  LET d == SetDefaults(c) IN
           /\ d.rules = c.rules
           /\ d.dirSizeAlertMB = c.dirSizeAlertMB
           /\ d.interval = Default(c.interval, 60 * Second)
           /\ d.vm.enabled = c.vm.enabled
           /\ d.vm.listen = DefaultAddr(c.vm.listen, "8428")
           /\ d.agent.url = IF c.agent.url = NoURL /\ c.vm.enabled
                            THEN [scheme |-> "http",
                                  addr |-> NormalizeAddr(DefaultAddr(c.vm.listen, "8428"))]
                            ELSE c.agent.url
           /\ d.listen = DefaultAddr(c.listen, "18080")
<1> DEFINE d == SetDefaults(c)
<1>1. /\ d.rules = c.rules
      /\ d.dirSizeAlertMB = c.dirSizeAlertMB
      /\ d.listen = DefaultAddr(c.listen, "18080")
  BY DEF SetDefaults, Config
<1>2. d.interval = Default(c.interval, 60 * Second)
  BY DEF SetDefaults, Config
<1>3. /\ d.vm.enabled = c.vm.enabled
      /\ d.vm.listen = DefaultAddr(c.vm.listen, "8428")
  <2>1. c.vm \in [enabled : BOOLEAN, listen : Addr, retention : Int]
    BY DEF Config
  <2>2. \E retention : d.vm = [c.vm EXCEPT !.listen = DefaultAddr(c.vm.listen, "8428"),
                                         !.retention = retention]
    BY DEF SetDefaults, Config
  <2> QED
    BY <2>1, <2>2
<1>4. d.agent.url = IF c.agent.url = NoURL /\ c.vm.enabled
                    THEN [scheme |-> "http",
                          addr |-> NormalizeAddr(DefaultAddr(c.vm.listen, "8428"))]
                    ELSE c.agent.url
  <2>1. c.agent \in [enabled : BOOLEAN, listen : Addr, scrapeInterval : Int, url : URL]
    BY DEF Config
  <2> DEFINE url == IF c.agent.url = NoURL /\ c.vm.enabled
                    THEN [scheme |-> "http",
                          addr |-> NormalizeAddr(DefaultAddr(c.vm.listen, "8428"))]
                    ELSE c.agent.url
  <2> HIDE DEF url
  <2>2. \E listen, interval :
          d.agent = [c.agent EXCEPT !.listen = listen, !.scrapeInterval = interval, !.url = url]
    BY DEF SetDefaults, Config, url
  <2> QED
    BY <2>1, <2>2 DEF url
<1> QED
  BY <1>1, <1>2, <1>3, <1>4

LEMMA DefaultAddrType ==
    ASSUME NEW a \in Addr, NEW port \in Ports
    PROVE  DefaultAddr(a, port) \in Addr
BY AddrAssumption DEF DefaultAddr, Addr

\* The normalized address reaches the address it is made from.
LEMMA NormalizedReaches ==
    ASSUME NEW a \in Addr
    PROVE  Reaches(NormalizeAddr(a), a)
BY DEF Reaches, Unspecified, NormalizeAddr, Addr

\* Validate is enough for the rules that New adds to, too.
LEMMA ValidatedRulesUsable ==
    ASSUME NEW c, c.rules \in Seq(Rule), c.dirSizeAlertMB \in Nat, c.interval \in Int,
           Validate(c)
    PROVE  LET rs == BuildRuntimeRules(c) IN
           /\ rs \in Seq(Rule)
           /\ DistinctNames(rs)
           /\ \A i \in DOMAIN rs :
                /\ rs[i].name # NoName
                /\ rs[i].for > 0
                /\ rs[i].threshold = NaN \/ 0 <= rs[i].threshold
<1> DEFINE n == Len(c.rules)
           added == [name |-> StorageRule, type |-> "storage_dir_size_mb",
                     mount |-> NoMount, threshold |-> c.dirSizeAlertMB,
                     for |-> IF c.interval <= 0 THEN Minute ELSE c.interval,
                     severity |-> TRUE]
<1>1. /\ n \in Nat /\ DOMAIN c.rules = 1 .. n
      /\ \A i \in 1 .. n : c.rules[i] \in Rule
  OBVIOUS
<1>2. \A i \in 1 .. n :
        /\ c.rules[i].name # NoName
        /\ c.rules[i].for > 0
        /\ c.rules[i].threshold = NaN \/ 0 <= c.rules[i].threshold
  <2> SUFFICES ASSUME NEW i \in 1 .. n
               PROVE  /\ c.rules[i].name # NoName
                      /\ c.rules[i].for > 0
                      /\ c.rules[i].threshold = NaN \/ 0 <= c.rules[i].threshold
    OBVIOUS
  <2>1. ValidRule(c.rules[i], c.mounts)
    BY <1>1 DEF Validate, ValidRules
  <2>2. c.rules[i].threshold \in Int \cup {NaN}
    BY <1>1 DEF Rule
  <2> QED
    BY <2>1, <2>2 DEF ValidRule, NotAbove
<1>3. DistinctNames(c.rules)
  BY DEF Validate, ValidRules
<1>4. CASE c.dirSizeAlertMB = 0
  BY <1>1, <1>2, <1>3, <1>4 DEF BuildRuntimeRules
<1>5. CASE c.dirSizeAlertMB # 0
  <2>1. BuildRuntimeRules(c) = Append(c.rules, added)
    BY <1>5 DEF BuildRuntimeRules
  <2>2. /\ added \in Rule
        /\ added.name = StorageRule /\ added.name # NoName
        /\ added.for > 0 /\ added.threshold \in Nat
    BY NameAssumption, MountAssumption DEF Rule, RuleType, Minute, Second
  <2>3. \A i \in 1 .. n : c.rules[i].name # StorageRule
    BY <1>1, <1>5 DEF Validate, ValidRules
  <2> HIDE DEF added
  <2> DEFINE rs == Append(c.rules, added)
  <2>4. /\ rs \in Seq(Rule) /\ DOMAIN rs = 1 .. n + 1
        /\ \A i \in 1 .. n : rs[i] = c.rules[i]
        /\ rs[n + 1] = added
    BY <1>1, <2>2
  <2> HIDE DEF rs, n
  <2>5. DistinctNames(rs)
    BY <1>1, <1>3, <2>2, <2>3, <2>4 DEF DistinctNames
  <2>6. \A i \in 1 .. n + 1 : i \in 1 .. n \/ i = n + 1
    BY <1>1
  <2>7. \A i \in DOMAIN rs :
          /\ rs[i].name # NoName
          /\ rs[i].for > 0
          /\ rs[i].threshold = NaN \/ 0 <= rs[i].threshold
    BY <1>2, <2>2, <2>4, <2>6
  <2> QED
    BY <2>1, <2>4, <2>5, <2>7 DEF rs
<1> QED
  BY <1>4, <1>5

\* Every accepted rule is measured, but for disk rules without a collector.
LEMMA ValidatedRulesMeasured ==
    ASSUME NEW c, c.rules \in Seq(Rule), c.dirSizeAlertMB \in Nat, Validate(c)
    PROVE  LET rs == BuildRuntimeRules(c) IN
           \A i \in DOMAIN rs :
             \/ Metric(rs[i]) \in Measured(c)
             \/ rs[i].type = "disk_used_percent" /\ ~c.diskEnabled
<1> DEFINE n == Len(c.rules)
           Covered(r) == \/ Metric(r) \in Measured(c)
                         \/ r.type = "disk_used_percent" /\ ~c.diskEnabled
           added == [name |-> StorageRule, type |-> "storage_dir_size_mb",
                     mount |-> NoMount, threshold |-> c.dirSizeAlertMB,
                     for |-> IF c.interval <= 0 THEN Minute ELSE c.interval,
                     severity |-> TRUE]
<1>1. n \in Nat /\ DOMAIN c.rules = 1 .. n
  OBVIOUS
<1>2. \A i \in 1 .. n : Covered(c.rules[i])
  <2> SUFFICES ASSUME NEW i \in 1 .. n PROVE Covered(c.rules[i])
    OBVIOUS
  <2>1. ValidRule(c.rules[i], c.mounts)
    BY <1>1 DEF Validate, ValidRules
  <2> QED
    BY <2>1 DEF ValidRule, Metric, Measured, RuleType
<1>3. Covered(added)
  BY DEF Metric, Measured, RuleType
<1>4. CASE c.dirSizeAlertMB = 0
  BY <1>1, <1>2, <1>4 DEF BuildRuntimeRules
<1>5. CASE c.dirSizeAlertMB # 0
  <2>1. BuildRuntimeRules(c) = Append(c.rules, added)
    BY <1>5 DEF BuildRuntimeRules
  <2> HIDE DEF added, Covered
  <2>2. /\ DOMAIN Append(c.rules, added) = 1 .. n + 1
        /\ \A i \in 1 .. n : Append(c.rules, added)[i] = c.rules[i]
        /\ Append(c.rules, added)[n + 1] = added
    BY <1>1
  <2>3. \A i \in 1 .. n + 1 : i \in 1 .. n \/ i = n + 1
    BY <1>1
  <2>4. \A i \in DOMAIN Append(c.rules, added) : Covered(Append(c.rules, added)[i])
    BY <1>2, <1>3, <2>2, <2>3
  <2> QED
    BY <2>1, <2>4 DEF Covered
<1> QED
  BY <1>4, <1>5

----------------------------------------------------------------------------
(***************************************************************************)
(* From its acceptance on a process has the configuration of the file, and *)
(* what it has built is built from that.                                   *)
(***************************************************************************)
Built == phase \in {"built", "running"}

IInv ==
    /\ phase \in Phase
    /\ file \in Files
    /\ phase # "down" => cfg = SetDefaults(file) /\ Validate(cfg)
    /\ Built => rules = BuildRuntimeRules(cfg) /\ measured = Measured(cfg)
    /\ ~Built => rules = <<>>
    /\ phase # "running" => children = {}
    /\ \A child \in children :
         \/ child = VictoriaMetricsSpec(cfg)
         \/ /\ child = VMAgentSpec(cfg)
            /\ cfg.agent.enabled
            /\ scrape = VMAgentConfig(cfg)
            /\ cfg.vm.enabled => VictoriaMetricsSpec(cfg) \in children

\* What runs is always the accepted configuration, with its defaults, and what New
\* and StartIntegrations built of it.
THEOREM IInvCorrect == Spec => []IInv
<1>1. Init => IInv
  BY DEF Init, IInv, Built, Phase
<1>2. IInv /\ [Next]_vars => IInv'
  <2> SUFFICES ASSUME IInv, [Next]_vars PROVE IInv'
    OBVIOUS
  <2>1. CASE LoadConfig
    BY <2>1 DEF LoadConfig, IInv, Built, Phase
  <2>2. CASE New
    BY <2>2 DEF New, IInv, Built, Phase
  <2>3. CASE StartIntegrations
    <3> DEFINE vm(made) == IF made /\ cfg.vm.enabled THEN {VictoriaMetricsSpec(cfg)} ELSE {}
               agent(made, written) ==
                 IF made /\ written /\ cfg.agent.enabled THEN {VMAgentSpec(cfg)} ELSE {}
    <3>1. PICK made \in BOOLEAN, written \in BOOLEAN :
            /\ children' = vm(made) \cup agent(made, written)
            /\ scrape' = IF agent(made, written) # {} THEN VMAgentConfig(cfg) ELSE scrape
      BY <2>3 DEF StartIntegrations
    <3>2. UNCHANGED <<file, cfg, rules, measured>> /\ phase = "built" /\ phase' = "running"
      BY <2>3 DEF StartIntegrations
    <3>3. /\ \A child \in vm(made) : child = VictoriaMetricsSpec(cfg)
          /\ \A child \in agent(made, written) :
               /\ child = VMAgentSpec(cfg) /\ cfg.agent.enabled
               /\ agent(made, written) # {}
               /\ cfg.vm.enabled => VictoriaMetricsSpec(cfg) \in vm(made)
      OBVIOUS
    <3> HIDE DEF vm, agent
    <3>4. UNCHANGED <<VictoriaMetricsSpec(cfg), VMAgentSpec(cfg), VMAgentConfig(cfg),
                      Measured(cfg), BuildRuntimeRules(cfg), Validate(cfg), SetDefaults(file)>>
      BY <3>2 DEF VictoriaMetricsSpec, VMAgentSpec, VMAgentConfig, Measured,
         BuildRuntimeRules, Validate, SetDefaults, ValidRules, ValidTelegram, ValidRule, NotAbove, Above, DistinctNames, Default, DefaultAddr, NormalizeAddr, NormalizeRemoteWriteURL, IsName
    <3> QED
      BY <3>1, <3>2, <3>3, <3>4 DEF IInv, Built, Phase
  <2>4. CASE End
    BY <2>4 DEF End, IInv, Built, Phase
  <2>5. CASE UNCHANGED vars
    BY <2>5 DEF vars, IInv, Built
  <2> QED
    BY <2>1, <2>2, <2>3, <2>4, <2>5 DEF Next
<1> QED
  BY <1>1, <1>2, PTL DEF Spec

\* The rules the engine is given have distinct names, fire only after a time,
\* and are never exceeded by the 0 of a missing reading.
THEOREM RulesUsableCorrect == Spec => []RulesUsable
<1>1. IInv => RulesUsable
  <2> SUFFICES ASSUME IInv PROVE RulesUsable
    OBVIOUS
  <2>1. CASE Built
    <3>1. /\ file \in Config /\ cfg = SetDefaults(file)
          /\ Validate(cfg) /\ rules = BuildRuntimeRules(cfg)
      BY <2>1, FilesAssumption DEF IInv, Built
    <3>2. /\ file.rules \in Seq(Rule) /\ file.dirSizeAlertMB \in Nat /\ file.interval \in Int
          /\ cfg.rules = file.rules /\ cfg.dirSizeAlertMB = file.dirSizeAlertMB
          /\ cfg.interval = Default(file.interval, 60 * Second)
      BY <3>1, SetDefaultsFields DEF Config
    <3>3. cfg.rules \in Seq(Rule) /\ cfg.dirSizeAlertMB \in Nat /\ cfg.interval \in Int
      BY <3>2 DEF Default, Second
    <3> QED
      BY <3>1, <3>3, ValidatedRulesUsable DEF RulesUsable
  <2>2. CASE ~Built
    BY <2>2 DEF IInv, RulesUsable, DistinctNames
  <2> QED
    BY <2>1, <2>2
<1> QED
  BY <1>1, IInvCorrect, PTL

\* Every rule watches a metric that is measured, but for disk rules that
\* disk.enabled = false leaves without a collector.
THEOREM RulesMeasuredCorrect == Spec => []RulesMeasured
<1>1. IInv => RulesMeasured
  <2> SUFFICES ASSUME IInv, Built PROVE RulesMeasured
    BY DEF RulesMeasured, Built
  <2>1. /\ file \in Config /\ cfg = SetDefaults(file) /\ Validate(cfg)
        /\ rules = BuildRuntimeRules(cfg) /\ measured = Measured(cfg)
    BY FilesAssumption DEF IInv, Built
  <2>2. cfg.rules \in Seq(Rule) /\ cfg.dirSizeAlertMB \in Nat
    BY <2>1, SetDefaultsFields DEF Config
  <2> QED
    BY <2>1, <2>2, ValidatedRulesMeasured DEF RulesMeasured
<1> QED
  BY <1>1, IInvCorrect, PTL

\* vmagent scrapes this service and, unless the file says otherwise, writes to
\* the VictoriaMetrics beside it.
THEOREM IntegrationsConnectedCorrect == Spec => []IntegrationsConnected
<1>1. IInv => IntegrationsConnected
  <2> SUFFICES ASSUME IInv, NEW agent \in children, agent.name = "vmagent"
               PROVE  /\ Reaches(scrape.target, cfg.listen)
                      /\ file.agent.url = NoURL =>
                           \E vm \in children : vm.name = "victoriametrics"
                                                /\ Reaches(agent.url.addr, vm.listen)
    BY DEF IntegrationsConnected
  <2>1. /\ agent = VMAgentSpec(cfg) /\ cfg.agent.enabled
        /\ scrape = VMAgentConfig(cfg)
        /\ cfg.vm.enabled => VictoriaMetricsSpec(cfg) \in children
    BY DEF IInv, VictoriaMetricsSpec
  <2>2. file \in Config /\ cfg = SetDefaults(file) /\ Validate(cfg)
    BY FilesAssumption DEF IInv
  <2>3. /\ file.listen \in Addr /\ file.vm.listen \in Addr
        /\ file.vm.enabled \in BOOLEAN /\ file.agent.url \in URL
    BY <2>2 DEF Config
  <2>4. /\ cfg.listen = DefaultAddr(file.listen, "18080")
        /\ cfg.vm.listen = DefaultAddr(file.vm.listen, "8428")
        /\ cfg.vm.enabled = file.vm.enabled
        /\ cfg.agent.url = IF file.agent.url = NoURL /\ file.vm.enabled
                           THEN [scheme |-> "http",
                                 addr |-> NormalizeAddr(DefaultAddr(file.vm.listen, "8428"))]
                           ELSE file.agent.url
    BY <2>2, SetDefaultsFields
  <2>5. cfg.listen \in Addr /\ cfg.vm.listen \in Addr
    BY <2>3, <2>4, DefaultAddrType, AddrAssumption
  <2>6. Reaches(scrape.target, cfg.listen)
    BY <2>1, <2>5, NormalizedReaches DEF VMAgentConfig
  <2>7. ASSUME file.agent.url = NoURL
        PROVE  \E vm \in children : vm.name = "victoriametrics"
                                    /\ Reaches(agent.url.addr, vm.listen)
    <3>1. cfg.agent.url # NoURL
      BY <2>1, <2>2 DEF Validate
    <3>2. /\ cfg.vm.enabled
          /\ cfg.agent.url = [scheme |-> "http", addr |-> NormalizeAddr(cfg.vm.listen)]
      BY <2>4, <2>7, <3>1
    <3>3. agent.url.addr = NormalizeAddr(cfg.vm.listen)
      BY <2>1, <3>2 DEF VMAgentSpec, NormalizeRemoteWriteURL
    <3>4. /\ VictoriaMetricsSpec(cfg) \in children
          /\ VictoriaMetricsSpec(cfg).name = "victoriametrics"
          /\ VictoriaMetricsSpec(cfg).listen = cfg.vm.listen
      BY <2>1, <3>2 DEF VictoriaMetricsSpec
    <3> QED
      BY <2>5, <3>3, <3>4, NormalizedReaches
  <2> QED
    BY <2>6, <2>7
<1> QED
  BY <1>1, IInvCorrect, PTL

====
