\* The default HH:MM, 00:00, on a day of 25 hours.
CONSTANTS
    LastDay = 2
    DayLength = 4
    HourOfSample = 0
    MaxDelay = 0
    Midnight <- AutumnMidnight
    SampleAt <- AutumnSample
    CheckInterval = 1
    MaxSize = 1
SPECIFICATION UpkeepSpec
INVARIANT AtMostOnePerDay
