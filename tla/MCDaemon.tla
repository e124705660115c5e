---- MODULE MCDaemon ----
(***************************************************************************)
(* Instances of Daemon for TLC: two rules, one of them on the CPU.         *)
(***************************************************************************)
EXTENDS Daemon

CONSTANTS cpu, mem

MCRules == {cpu, mem}
MCCpuRules == {cpu}

\* The CPU rule fires on the second reading above its threshold, the memory
\* rule on the third.
MCFor == [r \in MCRules |-> IF r = cpu THEN 1 ELSE 2]

\* One configuration, or one that loses and regains a rule.
OneConfig == {MCRules}
TwoConfigs == {MCRules, {mem}}

\* aboveSince, the journal and the instants on the wire are only written: two
\* states that differ in nothing else have the same future, and no property of
\* the fault run tells them apart.
WithoutRecords ==
    <<engineVars, lastSent, dispatching, [r \in Rules |-> wire[r].kind],
      processVars, now, saved, faultsLeft, forgot>>

====
