\* Every kind of failure, and a configuration that loses and regains a rule.
CONSTANTS
    cpu = cpu
    mem = mem
    Rules <- MCRules
    CpuRules <- MCCpuRules
    For <- MCFor
    Configs <- TwoConfigs
    DedupWindow = 2
    RepeatInterval = 2
    ResetBaselineOnStart = FALSE
    Faults = {"crash", "save", "load", "append", "clock"}
    MaxFaults = 2
    MaxTime = 3
SPECIFICATION Spec
INVARIANT TypeOK
INVARIANT AlertedIffFiring
INVARIANT SavedAlertedIffFiring
INVARIANT RecoveredUnlessInterrupted
PROPERTY NoReminderOverdue
PROPERTY PersistedChangesAnnounced
VIEW WithoutRecords
