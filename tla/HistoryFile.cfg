CONSTANTS
    KeepDays = 1
    MaxRecords = 4
    MaxTime = 2
SPECIFICATION Spec
INVARIANT TypeOK
INVARIANT AcknowledgedReadable
INVARIANT RecordsInOrder
 
