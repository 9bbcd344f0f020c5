CONSTANTS
    Assocs <- MC_Assocs
    Sais <- MC_Sais
    Tmgis <- MC_Tmgis
    TmgiAsId <- MC_TmgiAsId
    IdWidth = 2
    INVALID_MCE_MBMS_M2AP_ID = 0
    UINT32_MAX = 2147483647
SPECIFICATION Spec
\* A DevAssert ends the process: no step follows it.
CHECK_DEADLOCK FALSE
INVARIANTS
    TypeOK
    
