---- MODULE ServiceConfig ----
(***************************************************************************)
(* internal/config/config.go and what is built from a configuration before *)
(* the service runs: the runtime rules and collectors (daemon.New) and the *)
(* command lines of the supervised processes (internal/integration).       *)
(*                                                                         *)
(* A configuration is a record with the fields of the YAML file that the   *)
(* program branches on.  A field the file leaves out has its zero value:   *)
(* 0, FALSE, {}, <<>>, NoAddr, NoURL, NoMount or NoName.  Strings that are *)
(* only copied (paths, binaries, tokens) are reduced to whether they are   *)
(* present.  Durations are in tenths of a second.                          *)
(***************************************************************************)
EXTENDS Integers, Sequences, FiniteSets

CONSTANTS
    Files,           \* the configuration files the service may be started with
    Names, NoName,   \* names of rules; the empty one
    StorageRule,     \* StorageDirAlertRuleName, "storage_dir_size_high"
    Mounts, NoMount, \* mount points; the empty one
    Hosts, Ports,    \* what addresses are made of
    NaN              \* YAML's .nan, a float that compares with nothing

RuleType == {"cpu_used_percent", "memory_used_percent", "disk_used_percent",
             "storage_dir_size_mb"}

Addr == [host : Hosts, port : Ports]
URL == [scheme : {"", "http"}, addr : Addr]
Rule == [name : Names, type : RuleType \cup {"other"}, mount : Mounts, threshold : Int \cup {NaN},
         for : Int, severity : BOOLEAN]
Config ==
    [listen : Addr, interval : Int, sampleWindow : Int, keepDaysLocal : Int,
     keepDaysLegacy : Int, dirSizeAlertMB : Nat, dirSizeCheck : Int,
     defaultDays : Int, dedupWindow : Int, repeatInterval : Int,
     diskEnabled : BOOLEAN, mounts : SUBSET Mounts,
     sampleDailyAt : {"unset", "HH:MM", "malformed"}, rules : Seq(Rule),
     telegram : [enabled : BOOLEAN, token : BOOLEAN, chatID : BOOLEAN,
                 commandsEnabled : BOOLEAN, allowedChats : Nat],
     vm : [enabled : BOOLEAN, listen : Addr, retention : Int],
     agent : [enabled : BOOLEAN, listen : Addr, scrapeInterval : Int, url : URL]]

ASSUME NaNAssumption == NaN \notin Int
ASSUME NameAssumption == {NoName, StorageRule} \subseteq Names /\ StorageRule # NoName
ASSUME MountAssumption == NoMount \in Mounts
ASSUME AddrAssumption ==
    /\ {"", "::", "0.0.0.0", "127.0.0.1"} \subseteq Hosts
    /\ {"", "18080", "8428", "8429"} \subseteq Ports
ASSUME FilesAssumption == Files \subseteq Config

VARIABLES
    phase,      \* how far the start of the service has come
    file,       \* the configuration file, the same at every start
    cfg,        \* *config.Config
    rules,      \* the rules given to the engine
    measured,   \* the metrics the registered collectors measure
    children,   \* command lines of the started child processes
    scrape      \* the vmagent-promscrape.yml written for vmagent

vars == <<phase, file, cfg, rules, measured, children, scrape>>

Second == 10
Minute == 60 * Second
Hour == 60 * Minute

NoAddr == [host |-> "", port |-> ""]
NoURL == [scheme |-> "", addr |-> NoAddr]
NoScrape == [target |-> NoAddr, interval |-> 0]

----------------------------------------------------------------------------
Default(value, default) == IF value = 0 THEN default ELSE value
DefaultAddr(addr, port) ==
    IF addr = NoAddr THEN [host |-> "127.0.0.1", port |-> port] ELSE addr

\* normalizeListenAddr, and normalizeTarget of internal/integration/vm.go:
\* where a client on this machine reaches what listens on addr.
NormalizeAddr(addr) ==
    IF addr.host \in {"", "::", "0.0.0.0"} THEN [addr EXCEPT !.host = "127.0.0.1"] ELSE addr

\* setDefaults: the defaults of later fields are taken from earlier ones.
SetDefaults(c) ==
    LET interval == Default(c.interval, 60 * Second)
        keep == Default(c.keepDaysLocal, IF c.keepDaysLegacy > 0 THEN c.keepDaysLegacy ELSE 90)
        vmListen == DefaultAddr(c.vm.listen, "8428")
        url == IF c.agent.url = NoURL /\ c.vm.enabled
               THEN [scheme |-> "http", addr |-> NormalizeAddr(vmListen)] ELSE c.agent.url
    IN [c EXCEPT
          !.listen = DefaultAddr(@, "18080"),
          !.interval = interval,
          !.sampleWindow = Default(@, 2 * Second),
          !.keepDaysLocal = keep,
          !.dirSizeCheck = Default(@, 10 * Minute),
          !.defaultDays = Default(@, 7),
          !.dedupWindow = Default(@, 30 * Minute),
          !.repeatInterval = Default(@, 6 * Hour),
          !.vm = [@ EXCEPT !.listen = vmListen, !.retention = Default(@, keep)],
          !.agent = [@ EXCEPT !.listen = DefaultAddr(@, "8429"),
                              !.scrapeInterval = Default(@, interval), !.url = url]]

----------------------------------------------------------------------------
\* Go's <= and > on a float64, which NaN never satisfies.
NotAbove(x, bound) == x # NaN /\ x <= bound
Above(x, bound) == x # NaN /\ x > bound

\* Mutation: a disk rule only needs some mount.
ValidRuleAnyMount(r, mounts) ==
    /\ r.name # NoName
    /\ r.type \in RuleType
    /\ r.type = "disk_used_percent" => r.mount # NoMount
    /\ ~NotAbove(r.threshold, 0)
    /\ r.type # "storage_dir_size_mb" => ~Above(r.threshold, 100)
    /\ r.for > 0
    /\ r.severity

\* The checks of one rule in Validate, but for its name being taken.
ValidRule(r, mounts) ==
    /\ r.name # NoName
    /\ r.type \in RuleType
    /\ r.type = "disk_used_percent" => r.mount # NoMount /\ r.mount \in mounts
    /\ ~NotAbove(r.threshold, 0)
    /\ r.type # "storage_dir_size_mb" => ~Above(r.threshold, 100)
    /\ r.for > 0
    /\ r.severity

DistinctNames(rs) == \A i, j \in DOMAIN rs : rs[i].name = rs[j].name => i = j

\* Mutation: the reserved name is not checked.
ValidRulesUnreserved(c) ==
    /\ \A i \in DOMAIN c.rules : ValidRule(c.rules[i], c.mounts)
    /\ DistinctNames(c.rules)

ValidRules(c) ==
    /\ \A i \in DOMAIN c.rules : ValidRule(c.rules[i], c.mounts)
    /\ DistinctNames(c.rules)
    /\ c.dirSizeAlertMB > 0 => \A i \in DOMAIN c.rules : c.rules[i].name # StorageRule

ValidTelegram(t) ==
    t.enabled => t.token /\ t.chatID /\ (t.commandsEnabled => t.allowedChats > 0)

\* Validate.  Only positive scrape and check intervals have a lower bound, and
\* dedup_window, repeat_interval, keep_days_local and default_days have none.
Validate(c) ==
    /\ c.interval >= Second
    /\ c.sampleWindow >= 1
    /\ c.agent.scrapeInterval > 0 => c.agent.scrapeInterval >= Second
    /\ c.dirSizeCheck > 0 => c.dirSizeCheck >= Second
    /\ c.sampleDailyAt \in {"unset", "HH:MM"}
    /\ ValidRules(c)
    /\ ValidTelegram(c.telegram)
    /\ c.vm.enabled => c.vm.listen # NoAddr /\ c.vm.retention > 0
    /\ c.agent.enabled => c.agent.listen # NoAddr /\ c.agent.url # NoURL

----------------------------------------------------------------------------
\* buildRuntimeRules (internal/daemon/daemon.go).
BuildRuntimeRules(c) ==
    IF c.dirSizeAlertMB = 0 THEN c.rules
    ELSE Append(c.rules, [name |-> StorageRule, type |-> "storage_dir_size_mb",
                          mount |-> NoMount, threshold |-> c.dirSizeAlertMB,
                          for |-> IF c.interval <= 0 THEN Minute ELSE c.interval,
                          severity |-> TRUE])

\* The metric a rule watches, and those the collectors that New registers and
\* the directory sizer measure.
Metric(r) == [type |-> r.type, mount |-> IF r.type = "disk_used_percent" THEN r.mount ELSE NoMount]
Measured(c) ==
    [type : RuleType \ {"disk_used_percent"}, mount : {NoMount}]
    \cup [type : {"disk_used_percent"}, mount : IF c.diskEnabled THEN c.mounts ELSE {}]

\* normalizeRemoteWriteURL: url.Parse takes a host name before a colon for a
\* scheme, and then the text stays as it is.
IsName(host) == host \notin {"", "::", "0.0.0.0", "127.0.0.1"}
NormalizeRemoteWriteURL(url) ==
    IF url.scheme # "" \/ url = NoURL \/ IsName(url.addr.host) THEN url
    ELSE [scheme |-> "http", addr |-> NormalizeAddr(url.addr)]

\* The arguments of victoriaMetricsSpec and vmagentSpec that the properties
\* tell apart.
VictoriaMetricsSpec(c) ==
    [name |-> "victoriametrics", listen |-> c.vm.listen, url |-> NoURL,
     retention |-> IF c.vm.retention < 1 THEN 1 ELSE c.vm.retention]
VMAgentSpec(c) ==
    [name |-> "vmagent", listen |-> c.agent.listen,
     url |-> NormalizeRemoteWriteURL(c.agent.url), retention |-> 0]

\* Mutation: the scrape target is the listen address as it is written.
VMAgentConfigVerbatim(c) ==
    [target |-> c.listen, interval |-> c.agent.scrapeInterval]

\* writeVMAgentConfig: the file that tells vmagent whom to scrape.
VMAgentConfig(c) ==
    [target |-> NormalizeAddr(c.listen), interval |-> c.agent.scrapeInterval]

----------------------------------------------------------------------------
Phase == {"down", "valid", "built", "running"}

Init ==
    /\ phase = "down"
    /\ file \in Files
    /\ cfg = file
    /\ rules = <<>>
    /\ measured = {}
    /\ children = {}
    /\ scrape = NoScrape

\* loadConfig: a file that Validate refuses ends the program.
LoadConfig ==
    /\ phase = "down"
    /\ cfg' = SetDefaults(file)
    /\ phase' = IF Validate(cfg') THEN "valid" ELSE "down"
    /\ UNCHANGED <<file, rules, measured, children, scrape>>

\* New.  It fails when the storage directory cannot be created, when Telegram
\* refuses the token, or when chat_id is no number.
New ==
    /\ phase = "valid"
    /\ \/ /\ phase' = "built"
          /\ rules' = BuildRuntimeRules(cfg)
          /\ measured' = Measured(cfg)
       \/ /\ phase' = "down"
          /\ UNCHANGED <<rules, measured>>
    /\ UNCHANGED <<file, cfg, children, scrape>>

\* Manager.Start.  When the integrations directory cannot be created nothing
\* is started, when vmagent's file cannot be written vmagent is not; either
\* error is only logged.
StartIntegrations ==
    /\ phase = "built"
    /\ phase' = "running"
    /\ \E made, written \in BOOLEAN :
        LET vm == IF made /\ cfg.vm.enabled THEN {VictoriaMetricsSpec(cfg)} ELSE {}
            agent == IF made /\ written /\ cfg.agent.enabled THEN {VMAgentSpec(cfg)} ELSE {}
        IN /\ children' = vm \cup agent
           /\ scrape' = IF agent # {} THEN VMAgentConfig(cfg) ELSE scrape
    /\ UNCHANGED <<file, cfg, rules, measured>>

\* The process ends and is started again.  The file written for vmagent stays.
End ==
    /\ phase = "running"
    /\ phase' = "down"
    /\ rules' = <<>>
    /\ measured' = {}
    /\ children' = {}
    /\ UNCHANGED <<file, cfg, scrape>>

Next == LoadConfig \/ New \/ StartIntegrations \/ End

Spec == Init /\ [][Next]_vars

----------------------------------------------------------------------------
(***************************************************************************)
(* What the rest of the service relies on                                  *)
(***************************************************************************)

\* What the rule engine, the alert manager and state.json take for granted of
\* the rules they are given, the one New adds included: a rule's name is its
\* key, its `for` is positive, and the 0 of a reading that was not taken does
\* not exceed its threshold.
RulesUsable ==
    /\ DistinctNames(rules)
    /\ \A i \in DOMAIN rules :
        /\ rules[i].name # NoName
        /\ rules[i].for > 0
        /\ rules[i].threshold = NaN \/ 0 <= rules[i].threshold

\* Every rule watches a metric that is measured, but for disk rules under
\* disk.enabled = false: those are accepted and read 0 for ever.
RulesMeasured ==
    phase \in {"built", "running"} =>
        \A i \in DOMAIN rules :
            \/ Metric(rules[i]) \in measured
            \/ rules[i].type = "disk_used_percent" /\ ~cfg.diskEnabled

\* A client on this machine that connects to `target` reaches what listens on
\* `addr`.  The unspecified address is one to listen on, not one to connect to.
Unspecified == {"", "::", "0.0.0.0"}
Reaches(target, addr) ==
    /\ target.port = addr.port
    /\ target.host = IF addr.host \in Unspecified THEN "127.0.0.1" ELSE addr.host

\* vmagent scrapes the service's own /metrics, and with no remote_write_url in
\* the file writes to the VictoriaMetrics that is started beside it, whichever
\* of the addresses are defaults.
IntegrationsConnected ==
    \A agent \in children : agent.name = "vmagent" =>
        /\ Reaches(scrape.target, cfg.listen)
        /\ file.agent.url = NoURL =>
            \E vm \in children : vm.name = "victoriametrics" /\ Reaches(agent.url.addr, vm.listen)

====
