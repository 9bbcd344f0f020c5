\* A PDU from an MCE that lacks a mandatory IE (spec: not fatal).
CONSTANTS
    Assocs <- MC_Assocs
    Streams <- MC_Streams
    Tmgis <- MC_Tmgis
    Sais <- MC_Sais
    TmgiAsId <- MC_TmgiAsId
    MBMS_SERVICE_SCTP_STREAM_ID = 1
    max_m3_mces = 3
    IdWidth = 1
    INVALID_MME_MBMS_M3AP_ID = 0
    UINT32_MAX = 2147483647
SPECIFICATION Spec
CHECK_DEADLOCK FALSE
INVARIANT PeerPduNeverFatal
