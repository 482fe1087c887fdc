CONSTANTS
    c1 = c1
    Calls <- MC_Calls
    Keys <- MC_Keys
    MaxTries = 3
    MaxRetries = 3
    RejectStatuses <- MC_RejectStatuses
    Bodies <- MC_Bodies
    Faults <- MC_Faults
    Inputs = {"model", "dict"}
SPECIFICATION FSpec
INVARIANT FTypeOK
INVARIANT DeleteTrueMeansDeleted
