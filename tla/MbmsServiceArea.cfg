CONSTANTS
    e1 = e1
    e2 = e2
    home = home
    visited = visited
    Enbs <- MC_Enbs
    Plmns <- MC_Plmns
    GUMCEI_PLMN = home
    GlobalTypeValues = {0, 1, 2}
    LocalAreaValues = {0, 1, 2, 3}
    LocalTypeValues = {0, 1, 2, 3}
    McchSizes = {1, 2, 3}
    RequestLists <- MC_RequestLists
    AdvertisedLists <- MC_AdvertisedLists
    MAX_MBMSFN_AREAS = 6
    MCE_CONFIG_MAX_LOCAL_MBMS_SERVICE_AREAS = 3
SPECIFICATION Spec
CHECK_DEADLOCK FALSE
SYMMETRY Symm
INVARIANTS
    TypeOK
    EnbSaWithinPlan
    MceAppFindsGlobalArea
