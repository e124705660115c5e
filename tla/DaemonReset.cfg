\* reset_baseline_on_start and the rules' states.
CONSTANTS
    cpu = cpu
    mem = mem
    Rules <- MCRules
    CpuRules <- MCCpuRules
    For <- MCFor
    Configs <- OneConfig
    DedupWindow = 2
    RepeatInterval = 2
    ResetBaselineOnStart = TRUE
    Faults = {}
    MaxFaults = 0
    MaxTime = 5
SPECIFICATION Spec
PROPERTY RuleStateSurvivesRestart
