CONSTANTS
    KeepDays = 1
    MaxRecords = 4
    MaxTime = 3
SPECIFICATION Spec
PROPERTY CleanRemovesExpiredOnly
