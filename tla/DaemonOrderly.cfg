\* Restarts are orderly and only readings are lost: no rule fires
\* early, the messages meet the contract, a cancelled daemon ends.
CONSTANTS
    cpu = cpu
    mem = mem
    Rules <- MCRules
    CpuRules <- MCCpuRules
    For <- MCFor
    Configs <- OneConfig
    DedupWindow = 2
    RepeatInterval = 2
    ResetBaselineOnStart = FALSE
    Faults = {"collect"}
    MaxFaults = 1
    MaxTime = 4
SPECIFICATION LiveSpec
INVARIANT SustainedBeforeFiring
INVARIANT JournalMatchesWire
PROPERTY MeetsContract
PROPERTY CancelledEnds
