CONSTANTS
    c1 = c1
    c2 = c2
    Calls <- MC_Calls
    Keys <- MC_Keys
    MaxTries = 3
    MaxRetries = 3
    RejectStatuses <- MC_ContractRejects
    Bodies <- MC_Bodies
    Faults <- MC_AllFaults
SPECIFICATION Spec
SYMMETRY Symmetry
PROPERTY ContractSpec
