--------------------------- MODULE MbmsServiceArea ---------------------------
(***************************************************************************)
(* The MBMS service area plan and the two places that classify service     *)
(* area ids (SAIs) against it.                                             *)
(*                                                                         *)
(* mce_config_parse_file (src/mce_app/mce_config.c) reads the plan: G      *)
(* global area types, L local areas and T local area types, starting from *)
(* the defaults of mce_config_init, and aborts on a plan it rejects.  The  *)
(* SAIs the plan provisions are 1 .. max_mbsfn_area_id, the bound it       *)
(* checks against MAX_MBMSFN_AREAS.                                        *)
(*                                                                         *)
(* M2AP keeps, for each eNB, the SAIs of its M2 setup that                 *)
(* m2ap_set_embms_cfg_item accepts (src/m2ap/m2ap_mce.c); the session      *)
(* fan-out matches a session's SAI against that list.  MCE_APP checks the  *)
(* SAI list of a session request with mce_app_check_mbms_sa_exists, which *)
(* answers the first SAI mme_app_compare_mbms_sa accepts, or 0.            *)
(*                                                                         *)
(* A C integer division by a zero T traps (SIGFPE); the process is then    *)
(* "crashed", as it is after a failed assertion of the parser.             *)
(*   phase       "init" before the configuration is read, then "running"   *)
(*               or "crashed".                                             *)
(*   cfg         the plan of mce_config.                                   *)
(*   enbSa       mbms_sa_list of each eNB description.                     *)
(*   advertised  the SAI list each eNB's M2 setup carried.                 *)
(*   configured  the eNBs whose setup has been processed.                  *)
(*   lastCheck   the latest session SAI check: its list, PLMN and answer.  *)
(***************************************************************************)
EXTENDS Naturals, Sequences, SequencesExt

CONSTANTS
    Enbs,                 \* eNB descriptions
    Plmns,                \* PLMNs a session request may carry
    GUMCEI_PLMN,          \* the PLMN of the MCE's one GUMCEI entry
    GlobalTypeValues,     \* values the file may give each plan parameter
    LocalAreaValues,
    LocalTypeValues,
    McchSizes,            \* what get_enb_subframe_size may return for the eNB band
    RequestLists,         \* SAI lists of session requests
    AdvertisedLists,      \* SAI lists of M2 setup requests
    MAX_MBMSFN_AREAS,                       \* from the common headers
    MCE_CONFIG_MAX_LOCAL_MBMS_SERVICE_AREAS

INVALID_MBMS_SERVICE_AREA_ID == 0
MAX_MBMS_SA == 8

\* mce_config_init: GLOBAL_MBMS_AREAS, LOCAL_MBMS_AREAS, LOCAL_MBMS_AREA_TYPES
\* (src/utils/mce_default_values.h); the flag is zero in the static mce_config.
DefaultCfg == [g |-> 1, l |-> 1, t |-> 1, flag |-> FALSE]

VARIABLES phase, cfg, enbSa, advertised, configured, lastCheck

vars == <<phase, cfg, enbSa, advertised, configured, lastCheck>>

(***************************************************************************)
(* The plan check of mce_config_parse_file.                               *)
(***************************************************************************)
MaxMbsfnAreaId(c) ==
    IF c.flag THEN c.g + c.l * (c.t + c.g) ELSE c.g + c.l * c.t

\* The DevAssert on the local areas, the AssertFatal on max_mbsfn_area_id and,
\* without the per-local-group flag, the checks against the MCCH subframes.
ConfigAccepted(c, mcch) ==
    /\ c.l < MCE_CONFIG_MAX_LOCAL_MBMS_SERVICE_AREAS
    /\ MaxMbsfnAreaId(c) <= MAX_MBMSFN_AREAS
    /\ ~c.flag => /\ mcch >= c.g
                  /\ mcch = c.g => c.l = 0

\* The SAIs the plan provisions.
Provisioned(c) == 1 .. MaxMbsfnAreaId(c)

(***************************************************************************)
(* MCE_APP: mme_app_compare_mbms_sa scans the request's list, skips 0,     *)
(* returns the first global SAI or the first local one whose local area    *)
(* (SAI - (G+1)) / T is below T.                                           *)
(***************************************************************************)
\* Mutant: the invalid SAI 0 is not skipped.
RECURSIVE McScanNoSkip(_, _, _)
McScanNoSkip(c, s, j) ==
    IF j > Len(s) THEN INVALID_MBMS_SERVICE_AREA_ID
    ELSE IF s[j] <= c.g THEN s[j]
    ELSE IF (s[j] - (c.g + 1)) \div c.t < c.t THEN s[j]
    ELSE McScanNoSkip(c, s, j + 1)

RECURSIVE McScan(_, _, _)
McScan(c, s, j) ==
    IF j > Len(s) THEN INVALID_MBMS_SERVICE_AREA_ID
    ELSE IF s[j] = INVALID_MBMS_SERVICE_AREA_ID THEN McScan(c, s, j + 1)
    ELSE IF s[j] <= c.g THEN s[j]
    ELSE IF (s[j] - (c.g + 1)) \div c.t < c.t THEN s[j]
    ELSE McScan(c, s, j + 1)

\* The scan divides when the first non-zero SAI is not global.
McDivides(c, s) ==
    LET nz == SelectSeq(s, LAMBDA x : x # INVALID_MBMS_SERVICE_AREA_ID)
    IN nz # <<>> /\ Head(nz) > c.g

(***************************************************************************)
(* M2AP: m2ap_set_embms_cfg_item keeps the first SAI of the setup that is  *)
(* global (<= G, 0 included) or whose local area (SAI - G + 1) / T is      *)
(* below L, and stops there.                                               *)
(***************************************************************************)
\* Mutant: the loop goes on after a match.
RECURSIVE EnbScanNoBreak(_, _, _)
EnbScanNoBreak(c, s, j) ==
    IF j > Len(s) THEN <<>>
    ELSE IF s[j] <= c.g \/ (c.t # 0 /\ (s[j] - c.g + 1) \div c.t < c.l)
         THEN <<s[j]>> \o EnbScanNoBreak(c, s, j + 1)
         ELSE EnbScanNoBreak(c, s, j + 1)

\* Mutant: the local area compared with T, as in mme_app_compare_mbms_sa.
RECURSIVE EnbScanLocalBoundTypes(_, _, _)
EnbScanLocalBoundTypes(c, s, j) ==
    IF j > Len(s) THEN <<>>
    ELSE IF s[j] <= c.g THEN <<s[j]>>
    ELSE IF (s[j] - c.g + 1) \div c.t < c.t THEN <<s[j]>>
    ELSE EnbScanLocalBoundTypes(c, s, j + 1)

RECURSIVE EnbScan(_, _, _)
EnbScan(c, s, j) ==
    IF j > Len(s) THEN <<>>
    ELSE IF s[j] <= c.g THEN <<s[j]>>
    ELSE IF (s[j] - c.g + 1) \div c.t < c.l THEN <<s[j]>>
    ELSE EnbScan(c, s, j + 1)

\* The loop divides when the first SAI is not global.
EnbDivides(c, s) == s # <<>> /\ s[1] > c.g

Init == /\ phase = "init"
        /\ cfg = DefaultCfg
        /\ enbSa = [e \in Enbs |-> <<>>]
        /\ advertised = [e \in Enbs |-> <<>>]
        /\ configured = {}
        /\ lastCheck = [sais |-> <<>>, plmn |-> GUMCEI_PLMN,
                        result |-> INVALID_MBMS_SERVICE_AREA_ID]

\* The MBMS part of mce_config_parse_file: each parameter is the file's
\* value or the default, then the plan is checked.
ParseConfig ==
    /\ phase = "init"
    /\ \E g \in GlobalTypeValues, l \in LocalAreaValues, t \in LocalTypeValues,
          flag \in BOOLEAN, mcch \in McchSizes :
         LET c == [g |-> g, l |-> l, t |-> t, flag |-> flag]
         IN /\ cfg' = c
            /\ phase' = IF ConfigAccepted(c, mcch) THEN "running" ELSE "crashed"
    /\ UNCHANGED <<enbSa, advertised, configured, lastCheck>>

\* The M2 setup of eNB e, whose service areas m2ap_set_embms_cfg_item stores.
EnbSetup(e) ==
    /\ phase = "running"
    /\ e \notin configured
    /\ \E s \in AdvertisedLists :
         \/ /\ cfg.t = 0 /\ EnbDivides(cfg, s)
            /\ phase' = "crashed"
            /\ UNCHANGED <<enbSa, advertised, configured>>
         \/ /\ ~(cfg.t = 0 /\ EnbDivides(cfg, s))
            /\ enbSa' = [enbSa EXCEPT ![e] = @ \o EnbScan(cfg, s, 1)]
            /\ advertised' = [advertised EXCEPT ![e] = s]
            /\ configured' = configured \cup {e}
            /\ UNCHANGED phase
    /\ UNCHANGED <<cfg, lastCheck>>

\* mce_app_compare_plmn: the PLMN is that of a GUMCEI entry (MAX_GUMCEI is 1).
ComparePlmn(p) == p = GUMCEI_PLMN

\* mce_app_check_mbms_sa_exists: the PLMN must match, then the SAI list is
\* scanned.
SessionCheck ==
    /\ phase = "running"
    /\ \E s \in RequestLists, p \in Plmns :
         \/ /\ ComparePlmn(p) /\ cfg.t = 0 /\ McDivides(cfg, s)
            /\ phase' = "crashed"
            /\ UNCHANGED lastCheck
         \/ /\ ~(ComparePlmn(p) /\ cfg.t = 0 /\ McDivides(cfg, s))
            /\ lastCheck' = [sais |-> s, plmn |-> p,
                             result |-> IF ComparePlmn(p) THEN McScan(cfg, s, 1)
                                        ELSE INVALID_MBMS_SERVICE_AREA_ID]
            /\ UNCHANGED phase
    /\ UNCHANGED <<cfg, enbSa, advertised, configured>>

Next == ParseConfig \/ SessionCheck \/ \E e \in Enbs : EnbSetup(e)

Spec == Init /\ [][Next]_vars

(***************************************************************************)
(* Properties.                                                             *)
(***************************************************************************)
SaiValues == {0} \cup UNION {Range(s) : s \in RequestLists \cup AdvertisedLists}

TypeOK ==
    /\ phase \in {"init", "running", "crashed"}
    /\ cfg \in [g : GlobalTypeValues \cup {1}, l : LocalAreaValues \cup {1},
                t : LocalTypeValues \cup {1}, flag : BOOLEAN]
    /\ configured \subseteq Enbs
    \* serviceArea is an array of MAX_MBMS_SA entries
    /\ \A e \in Enbs : Len(enbSa[e]) <= MAX_MBMS_SA /\ Range(enbSa[e]) \subseteq SaiValues
    /\ lastCheck.result \in SaiValues

\* Every service area M2AP stores for an eNB, the invalid 0 aside, is one
\* the plan provisions, whatever the plan and the eNB's setup: the local
\* area test of m2ap_set_embms_cfg_item never lets an SAI past the plan.
EnbSaWithinPlan ==
    \A e \in Enbs : Range(enbSa[e]) \ {INVALID_MBMS_SERVICE_AREA_ID} \subseteq Provisioned(cfg)

\* A session request for the home PLMN that names a global service area is
\* answered with a service area, whatever comes before it in the list
\* (mme_app_compare_mbms_sa skips the invalid SAI 0).
MceAppFindsGlobalArea ==
    (phase = "running" /\ lastCheck.plmn = GUMCEI_PLMN
       /\ \E j \in DOMAIN lastCheck.sais : lastCheck.sais[j] \in 1 .. cfg.g)
    => lastCheck.result # INVALID_MBMS_SERVICE_AREA_ID

\* A provisioned SAI that MCE_APP accepts for a session reaches every eNB
\* that advertised it in its M2 setup: peers_matching_service_area finds
\* each peer whose service area list contains the session's SAI.
SessionReachesAdvertisers ==
    LET r == lastCheck.result
    IN \A e \in configured :
         (r \in Provisioned(cfg) /\ r \in Range(advertised[e]))
           => r \in Range(enbSa[e])
============================================================================
