\* A recovery that nobody measured.
CONSTANTS
    cpu = cpu
    mem = mem
    Rules <- MCRules
    CpuRules <- MCCpuRules
    For <- MCFor
    Configs <- OneConfig
    DedupWindow = 2
    RepeatInterval = 2
    ResetBaselineOnStart = FALSE
    Faults = {}
    MaxFaults = 0
    MaxTime = 5
SPECIFICATION Spec
INVARIANT RecoveredOnlyIfMeasured
