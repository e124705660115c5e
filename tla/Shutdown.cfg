CONSTANTS
    victoriametrics = victoriametrics
    vmagent = vmagent
    Procs <- MCProcs
    Order <- MCOrder
    MaxStarts = 2
SPECIFICATION LiveShutdownSpec
INVARIANT ShutdownTypeOK
INVARIANT AtMostOneChild
INVARIANT HeldChildStopped
INVARIANT AtMostOneStartAfterCancel
INVARIANT NoSpinOnClosedChannel
PROPERTY CancelReapsChildren
PROPERTY BotReturns
PROPERTY ShutdownCompletes
CHECK_DEADLOCK FALSE
