\* The M3AP task under every interleaving of SCTP association events, MCE
\* PDUs and MCE_APP session requests.  The process stops when it aborts.
CONSTANTS
    Assocs <- MC_Assocs
    Streams <- MC_Streams
    Tmgis <- MC_Tmgis
    Sais <- MC_Sais
    TmgiAsId <- MC_TmgiAsId
    MBMS_SERVICE_SCTP_STREAM_ID = 1
    max_m3_mces = 3
    IdWidth = 1
    INVALID_MME_MBMS_M3AP_ID = 0
    UINT32_MAX = 2147483647
SPECIFICATION Spec
CHECK_DEADLOCK FALSE
INVARIANTS
    TypeOK
    AssociatedCountMatchesTable
    PeerTableFollowsSctp
