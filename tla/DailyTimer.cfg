\* Three days of four units, HH:MM at the second; the directory is measured
\* anew after two units.
CONSTANTS
    LastDay = 2
    DayLength = 4
    HourOfSample = 2
    MaxDelay = 1
    Midnight <- EvenMidnight
    SampleAt <- EvenSample
    CheckInterval = 2
    MaxSize = 2
SPECIFICATION UpkeepSpec
INVARIANTS TypeOK AtMostOnePerDay NoDayMissed
PROPERTIES OwnReadings ReportedSizeRecent
