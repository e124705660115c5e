CONSTANTS
    Window = 2
    Keep = 2
    MaxMinute = 3
    MaxCycles = 3
    MaxFaults = 2
SPECIFICATION Spec
INVARIANT TypeOK
INVARIANT CompletedMinutesRecorded
INVARIANT SamplesRecordedOnce
INVARIANT FiringNotOlderThanSnapshot
INVARIANT SameSnapshotSameAverages
