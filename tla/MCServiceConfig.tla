---- MODULE MCServiceConfig ----
(***************************************************************************)
(* Instances of ServiceConfig for TLC: every pair of rules out of a set    *)
(* with one rule for each check of Validate, and every combination of the  *)
(* integrations' fields.                                                   *)
(***************************************************************************)
EXTENDS ServiceConfig

CONSTANTS high, low, root, data

MCNames == {high, low, StorageRule, NoName}
MCMounts == {root, data, NoMount}
MCHosts == {"", "::", "0.0.0.0", "127.0.0.1", "monitor.lan"}
MCPorts == {"", "18080", "8428", "8429", "9428", "80"}

Empty ==
    [listen |-> NoAddr, interval |-> 0, sampleWindow |-> 0, keepDaysLocal |-> 0,
     keepDaysLegacy |-> 0, dirSizeAlertMB |-> 0, dirSizeCheck |-> 0,
     defaultDays |-> 0, dedupWindow |-> 0, repeatInterval |-> 0,
     diskEnabled |-> FALSE, mounts |-> {}, sampleDailyAt |-> "unset", rules |-> <<>>,
     telegram |-> [enabled |-> FALSE, token |-> FALSE, chatID |-> FALSE,
                   commandsEnabled |-> FALSE, allowedChats |-> 0],
     vm |-> [enabled |-> FALSE, listen |-> NoAddr, retention |-> 0],
     agent |-> [enabled |-> FALSE, listen |-> NoAddr, scrapeInterval |-> 0, url |-> NoURL]]

Cpu == [name |-> high, type |-> "cpu_used_percent", mount |-> NoMount,
        threshold |-> 90, for |-> Minute, severity |-> TRUE]
Disk == [Cpu EXCEPT !.name = low, !.type = "disk_used_percent", !.mount = root]

SomeRules ==
    {Cpu, Disk,
     [Cpu EXCEPT !.name = NoName], [Cpu EXCEPT !.name = StorageRule],
     [Cpu EXCEPT !.type = "other"], [Cpu EXCEPT !.for = 0],
     [Cpu EXCEPT !.severity = FALSE], [Cpu EXCEPT !.threshold = NaN],
     [Cpu EXCEPT !.threshold = 0], [Cpu EXCEPT !.threshold = 101],
     [Disk EXCEPT !.mount = NoMount], [Disk EXCEPT !.mount = data],
     [Cpu EXCEPT !.name = low, !.type = "storage_dir_size_mb", !.threshold = 512]}

RuleFiles ==
    {[Empty EXCEPT !.rules = rs, !.dirSizeAlertMB = mb, !.diskEnabled = disk,
                   !.mounts = mounts, !.interval = interval] :
        rs \in {<<>>} \cup [{1} -> SomeRules] \cup [{1, 2} -> SomeRules],
        mb \in {0, 512}, disk \in BOOLEAN, mounts \in {{root}, {root, data}},
        interval \in {0, 5}}

Any(port) == [host |-> "0.0.0.0", port |-> port]
Named(port) == [host |-> "monitor.lan", port |-> port]

IntegrationFiles ==
    {[Empty EXCEPT !.listen = listen, !.keepDaysLocal = keep, !.keepDaysLegacy = 21,
                   !.vm = vm, !.agent = agent] :
        listen \in {NoAddr, [NoAddr EXCEPT !.port = "18080"], Any("18080"), Named("18080")},
        keep \in {-1, 0, 30},
        vm \in [enabled : BOOLEAN, listen : {NoAddr, Any("8428"), Named("9428")},
                retention : {-1, 0}],
        agent \in [enabled : BOOLEAN, listen : {NoAddr}, scrapeInterval : {-10, 0, 5},
                   url : {NoURL, [scheme |-> "http", addr |-> Named("80")],
                          [scheme |-> "", addr |-> Any("8428")],
                          [scheme |-> "", addr |-> Named("80")]}]}

OtherFiles ==
    {[Empty EXCEPT !.sampleDailyAt = at, !.dirSizeCheck = check, !.sampleWindow = window,
                   !.telegram = telegram] :
        at \in {"unset", "HH:MM", "malformed"}, check \in {-10, 0, 5, 50},
        window \in {-1, 0, 1},
        telegram \in [enabled : BOOLEAN, token : BOOLEAN, chatID : BOOLEAN,
                      commandsEnabled : BOOLEAN, allowedChats : {0, 1}]}

MCFiles == RuleFiles \cup IntegrationFiles \cup OtherFiles

====
