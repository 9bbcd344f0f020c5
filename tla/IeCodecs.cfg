CONSTANTS
    CauseValues <- MC_CauseValues
    FteidValues <- MC_FteidValues
    PaaValues <- MC_PaaValues
    EbiValues <- MC_EbiValues
    AmbrValues <- MC_AmbrValues
    QosValues <- MC_QosValues
    SelectionModeValues <- MC_SelectionModeValues
    TmgiValues <- MC_TmgiValues
    ApnValues <- MC_ApnValues
    PcoValues <- MC_PcoValues
    Qos24008Values <- MC_Qos24008Values
    LlcSapiValues <- MC_LlcSapiValues
    NetworkNameValues <- MC_NetworkNameValues
    TimeZoneValues <- MC_TimeZoneValues
    TimeZoneAndTimeValues <- MC_TimeZoneAndTimeValues
    DstValues <- MC_DstValues
    DrxValues <- MC_DrxValues
    IdentityType2Values <- MC_IdentityType2Values
    LaiValues <- MC_LaiValues
    PlmnListValues <- MC_PlmnListValues
    Classmark2Values <- MC_Classmark2Values
    NetworkFeatureSupportValues <- MC_NetworkFeatureSupportValues
SPECIFICATION Spec
INVARIANTS
    TypeOK
    RoundTrip
    LengthsAgree
