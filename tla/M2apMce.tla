------------------------------ MODULE M2apMce ------------------------------
(***************************************************************************)
(* The M2AP task (TASK_M2AP) of the MCE, facing the eNBs: the loop         *)
(* m2ap_mce_thread and the registry of src/m2ap/m2ap_mce.c.  The M2AP      *)
(* handlers and procedures (the m2ap_handle_ and m2ap_generate_ functions) *)
(* are not in the repository; they are modelled from the specification   *)
(* and from their M3AP twins, and marked so in the map.                   *)
(*                                                                         *)
(* The messages TASK_M2AP can receive in this build: SCTP new association, *)
(* close and data, the eNB setup response and the session start request   *)
(* from MCE_APP, and timer expiries.  MCE_APP sends the M2AP session       *)
(* update and stop requests to TASK_M3AP (module MceAppItti), so they      *)
(* never reach this loop.                                                  *)
(*                                                                         *)
(* State of the task:                                                      *)
(*   enbColl   g_m2ap_enb_coll, key -> element.  Keys are SCTP association *)
(*             ids and, since m2ap_new_mbms inserts there (m2ap_mce.c:797), *)
(*             MCE MBMS M2AP ids: an element is an eNB description (kind   *)
(*             "enb") or an MBMS description (kind "mbms").                *)
(*   nb_m2ap_enb_associated, mce_mbms_m2ap_id_generator: the globals.      *)
(*   timers    MCE MBMS M2AP ids with an armed session action timer.       *)
(*   sctpOut   the PDUs handed to TASK_SCTP, as a set.                     *)
(*   crash     how the process died ("none" while it runs).                *)
(* State of the environment:                                               *)
(*   sctpUp    the associations TASK_SCTP has announced and not closed.    *)
(*   setupAsked  associations whose eNB sent an M2 Setup Request on the    *)
(*             current association (history, for StaleSetupResponse).      *)
(*   mceAppSetup  setup requests MCE_APP has taken and not yet answered.   *)
(***************************************************************************)
EXTENDS Naturals, FiniteSets, Functions, TLC

CONSTANTS
    Assocs,                     \* sctp_assoc_id_t values TASK_SCTP hands out
    Sais,                       \* mbms_service_area_id_t values
    Tmgis,                      \* tmgi_t values in requests
    TmgiAsId,                   \* [Tmgis -> Ids]: a tmgi_t read as an id
    IdWidth,                    \* bits of mce_mbms_m2ap_id_t kept by the model
    INVALID_MCE_MBMS_M2AP_ID,
    UINT32_MAX                  \* largest value of a uint32_t counter

IdMod == 2 ^ IdWidth
Ids == 0 .. IdMod - 1
Keys == Assocs \cup Ids

\* enum of the eNB states (m2ap_mce.h, as mme_m3_mce_state_s for M3AP)
M2AP_INIT == 0
M2AP_RESETING == 1
M2AP_READY == 2
M2AP_SHUTDOWN == 3

\* abs_start_time_sec of a start request: 0, or a time for which
\* timer_setup succeeds.
StartTimes == {"now", "timer"}

\* The eNB PDUs the model distinguishes (SCTP_DATA_IND).
EnbPdus == {"M2SetupRequest", "MbmsSessionStartResponse"}

EnbRecs == [kind : {"enb"}, m2_state : {M2AP_INIT, M2AP_RESETING, M2AP_READY, M2AP_SHUTDOWN},
            sa : SUBSET Sais, nb_mbms_associated : 0 .. UINT32_MAX]
MbmsRecs == [kind : {"mbms"}, id : Ids, tmgi : Tmgis, sai : Sais]
SentPdus == [assoc : Assocs,
             kind : {"M2SetupResponse", "M2SetupFailure", "MBMSSessionStartRequest"},
             id : Ids]
CrashCauses == {"none", "devassert"}

VARIABLES enbColl, nb_m2ap_enb_associated, mce_mbms_m2ap_id_generator,
          timers, sctpOut, crash, sctpUp, setupAsked, mceAppSetup,
          sctpInit

task == <<enbColl, nb_m2ap_enb_associated, mce_mbms_m2ap_id_generator,
          timers, sctpOut, crash>>
vars == <<task, sctpUp, setupAsked, mceAppSetup, sctpInit>>

Cur == [enb |-> enbColl, nb |-> nb_m2ap_enb_associated,
        gen |-> mce_mbms_m2ap_id_generator, timers |-> timers,
        out |-> sctpOut, crash |-> crash]

Commit(c) == /\ enbColl' = c.enb
             /\ nb_m2ap_enb_associated' = c.nb
             /\ mce_mbms_m2ap_id_generator' = c.gen
             /\ timers' = c.timers
             /\ sctpOut' = c.out
             /\ crash' = c.crash

Send(c, a, k, i) == [c EXCEPT !.out = @ \cup {[assoc |-> a, kind |-> k, id |-> i]}]

Dec32(n) == IF n = 0 THEN UINT32_MAX ELSE n - 1
Inc32(n) == IF n = UINT32_MAX THEN 0 ELSE n + 1
(***************************************************************************)
(* The registry: m2ap_mce.c.                                               *)
(***************************************************************************)

\* g_m2ap_mbms_coll: initialised by m2ap_mce_init and never inserted into
\* by any code of the repository.
mbmsColl == <<>>

\* m2ap_is_enb_assoc_id_in_list: hashtable_ts_get on the association id.
IsEnbAssocIdInList(c, a) == a \in DOMAIN c.enb

\* The eNB descriptions proper, and the MBMS descriptions in the table.
EnbKeysOf(c) == {k \in DOMAIN c.enb : c.enb[k].kind = "enb"}
GhostKeysOf(c) == {k \in DOMAIN c.enb : c.enb[k].kind = "mbms"}

\* m2ap_enb_compare_by_mbms_sai_cb: eNB description e is collected when one
\* entry of its service area list equals s.
CompareByMbmsSai(e, s) == s \in e.sa

\* m2ap_is_mbms_sai_in_list: the callback applied to every element of
\* g_m2ap_enb_coll.  An MBMS description in the table is read through an
\* eNB pointer; the outcome of that read is undefined and is the parameter
\* ghostHits: the MBMS descriptions it counts as matching.
IsMbmsSaiInList(c, s, ghostHits) ==
    {k \in EnbKeysOf(c) : CompareByMbmsSai(c.enb[k], s)} \cup ghostHits

\* m2ap_mbms_compare_by_tmgi_cb: the leading word of the tmgi compared with
\* the session's id.
CompareByTmgi(e, t) == e.id = TmgiAsId[t]

\* m2ap_is_mbms_tmgi_in_list: the callback applied to g_m2ap_mbms_coll.
IsMbmsTmgiInList(t) == {k \in DOMAIN mbmsColl : CompareByTmgi(mbmsColl[k], t)}

\* m2ap_is_mbms_mce_m2ap_id_in_list: a scan of g_m2ap_mbms_coll by id.
IsMbmsMceM2apIdInList(i) == {k \in DOMAIN mbmsColl : mbmsColl[k].id = i}

\* m2ap_new_enb: the counter counts every description allocated.
NewEnb(c) == [c EXCEPT !.nb = Inc32(@)]

\* Mutant: the element freed but its key left in the table.
RemoveEnbLeavesKey(c, a) ==
    [c EXCEPT !.enb = [@ EXCEPT ![a] = [kind |-> "freed"]], !.nb = Dec32(@)]

\* m2ap_remove_enb, the free function of g_m2ap_enb_coll, with the removal of
\* key a by hashtable_ts_free: the association is dropped from every session
\* of g_m2ap_mbms_coll (there are none) and the counter is decremented,
\* whatever the element under the key is.
RemoveEnb(c, a) == [c EXCEPT !.enb = Restrict(@, DOMAIN @ \ {a}), !.nb = Dec32(@)]

\* generate_new_mce_mbms_m2ap_id: fetch-and-add on the generator.
NextId(c) == c.gen

NewMbms(c, t, s) ==
    LET i == NextId(c)
        c1 == [c EXCEPT !.gen = (@ + 1) % IdMod]
        rec == [kind |-> "mbms", id |-> i, tmgi |-> t, sai |-> s]
    IN IF i = INVALID_MCE_MBMS_M2AP_ID
       THEN [ctx |-> c1, ref |-> INVALID_MCE_MBMS_M2AP_ID]
       ELSE IF IsMbmsMceM2apIdInList(i) # {} \/ i \in DOMAIN c1.enb
       THEN [ctx |-> [(IF i \in DOMAIN c1.enb THEN RemoveEnb(c1, i) ELSE c1)
                        EXCEPT !.crash = "devassert"],
             ref |-> INVALID_MCE_MBMS_M2AP_ID]
       ELSE [ctx |-> [c1 EXCEPT !.enb = (i :> rec) @@ @], ref |-> i]
(***************************************************************************)
(* Handlers and procedures (not in the repository: from the specification  *)
(* and from the M3AP handlers they duplicate).                             *)
(***************************************************************************)

\* m2ap_handle_new_association: a new eNB description in INIT, or an
\* existing one back to INIT unless SHUTDOWN or RESETING.  An MBMS
\* description under the key is taken for an eNB: the state read and the
\* writes that follow hit the MBMS description's memory, which the model
\* does not track, so the table is left as it is.
NewAssociation(c, a) ==
    IF ~IsEnbAssocIdInList(c, a)
    THEN [NewEnb(c) EXCEPT !.enb = (a :> [kind |-> "enb", m2_state |-> M2AP_INIT,
                                          sa |-> {}, nb_mbms_associated |-> 0]) @@ @]
    ELSE IF c.enb[a].kind = "mbms" \/ c.enb[a].m2_state \in {M2AP_SHUTDOWN, M2AP_RESETING}
    THEN c
    ELSE [c EXCEPT !.enb[a].m2_state = M2AP_INIT]

\* m2ap_handle_sctp_disconnection: nothing for an unknown association,
\* otherwise hashtable_ts_free of the key.
SctpDisconnection(c, a) ==
    IF ~IsEnbAssocIdInList(c, a) THEN c ELSE RemoveEnb(c, a)

\* m2ap_handle_m2ap_enb_setup_res: nothing for an unknown association; with
\* no MBSFN area an M2 Setup Failure; otherwise the service areas are
\* stored, the eNB is READY and an M2 Setup Response is sent.  For an MBMS
\* description under the key, the writes land in its memory and the PDU
\* goes to whatever its bytes give as association: left out of the model.
EnbSetupRes(c, a, sa) ==
    IF ~IsEnbAssocIdInList(c, a) \/ c.enb[a].kind = "mbms" THEN c
    ELSE IF sa = {} THEN Send(c, a, "M2SetupFailure", 0)
    ELSE Send([c EXCEPT !.enb[a].sa = sa, !.enb[a].m2_state = M2AP_READY],
              a, "M2SetupResponse", 0)

\* m2ap_handle_mbms_session_start_request (after the lookup by TMGI that
\* would stop an old session for (t, s), see SessionStartRequest): the eNBs serving s are collected; none, and
\* the request is dropped; otherwise a new MBMS description, and either its
\* action timer or an MBMS Session Start Request to every eNB collected.
MbmsSessionStartRequest(c, t, s, when, ghostHits) ==
    LET targets == IsMbmsSaiInList(c, s, ghostHits)
        new == NewMbms(c, t, s)
        c1 == new.ctx
        i == new.ref
    IN IF targets = {} THEN c
       ELSE IF i = INVALID_MCE_MBMS_M2AP_ID THEN c1
       ELSE IF when = "timer" THEN [c1 EXCEPT !.timers = @ \cup {i}]
       ELSE [c1 EXCEPT !.out = @ \cup {[assoc |-> a, kind |-> "MBMSSessionStartRequest", id |-> i]
                                        : a \in targets \ ghostHits}]
(***************************************************************************)
(* The specification: one action per message the loop of m2ap_mce_thread   *)
(* can receive.  A process that has died takes no more steps.              *)
(***************************************************************************)
Init == /\ enbColl = <<>>
        /\ nb_m2ap_enb_associated = 0
        /\ mce_mbms_m2ap_id_generator = 1
        /\ timers = {}
        /\ sctpOut = {}
        /\ crash = "none"
        /\ sctpUp = {}
        /\ setupAsked = {}
        /\ mceAppSetup = {}
        /\ sctpInit = "queued"

Alive == crash = "none"

\* m2ap_send_init_sctp: an SCTP_INIT_MSG for M2AP_PORT_NUMBER (the port of
\* the configuration file is never read) goes to TASK_SCTP, which then
\* listens; or the ITTI allocation or send fails and RETURNerror.
SendInitSctp ==
    \/ sctpInit' = "sent"
    \/ sctpInit' = "failed"

\* ACTIVATE_MESSAGE from main: the init request is sent and a failure only
\* logged.
ActivateMessage ==
    /\ Alive
    /\ sctpInit = "queued"
    /\ SendInitSctp
    /\ UNCHANGED <<task, sctpUp, setupAsked, mceAppSetup>>

\* SCTP_NEW_ASSOCIATION, which TASK_SCTP announces only on the port M2AP's
\* init request opened.
SctpNewAssociation(a) ==
    /\ Alive
    /\ sctpInit = "sent"
    /\ sctpUp' = sctpUp \cup {a}
    /\ setupAsked' = setupAsked \ {a}
    /\ Commit(NewAssociation(Cur, a))
    /\ UNCHANGED mceAppSetup
    /\ UNCHANGED sctpInit

\* SCTP_CLOSE_ASSOCIATION for an association TASK_SCTP had announced.
SctpCloseAssociation(a) ==
    /\ Alive
    /\ a \in sctpUp
    /\ sctpUp' = sctpUp \ {a}
    /\ setupAsked' = setupAsked \ {a}
    /\ Commit(SctpDisconnection(Cur, a))
    /\ UNCHANGED mceAppSetup
    /\ UNCHANGED sctpInit

\* SCTP_DATA_IND from an eNB.  An M2 Setup Request of a known eNB is
\* forwarded to MCE_APP; a session start response names an MCE MBMS M2AP id
\* that m2ap_is_mbms_mce_m2ap_id_in_list cannot find, and is dropped.
SctpDataInd(a, pdu, i) ==
    /\ Alive
    /\ a \in sctpUp
    /\ \/ /\ pdu = "M2SetupRequest"
          /\ a \in EnbKeysOf(Cur)
          /\ setupAsked' = setupAsked \cup {a}
          /\ mceAppSetup' = mceAppSetup \cup {a}
       \/ /\ pdu = "MbmsSessionStartResponse"
          /\ IsMbmsMceM2apIdInList(i) = {}
          /\ UNCHANGED <<setupAsked, mceAppSetup>>
    /\ UNCHANGED <<task, sctpUp>>
    /\ UNCHANGED sctpInit

\* M2AP_ENB_SETUP_RESPONSE: MCE_APP answers a setup request it took, for the
\* association id the request came from (mce_app_itti_m2ap_enb_setup_response).
EnbSetupResponse(a, sa) ==
    /\ Alive
    /\ a \in mceAppSetup
    /\ mceAppSetup' = mceAppSetup \ {a}
    /\ Commit(EnbSetupRes(Cur, a, sa))
    /\ UNCHANGED <<sctpUp, setupAsked>>
    /\ UNCHANGED sctpInit

\* M2AP_MBMS_SESSION_START_REQUEST from MCE_APP.  The handler first looks
\* for a live session of the TMGI to stop it; the lookup scans the empty
\* g_m2ap_mbms_coll and always fails, so no old session is ever stopped.
SessionStartRequest(t, s, when) ==
    /\ Alive
    /\ IsMbmsTmgiInList(t) = {}
    /\ \E ghostHits \in SUBSET GhostKeysOf(Cur) :
          Commit(MbmsSessionStartRequest(Cur, t, s, when, ghostHits))
    /\ UNCHANGED <<sctpUp, setupAsked, mceAppSetup>>
    /\ UNCHANGED sctpInit

\* TIMER_HAS_EXPIRED for a session action timer: the MBMS description is
\* looked up in g_m2ap_mbms_coll and, not found, the message is dropped.
TimerHasExpired(i) ==
    /\ Alive
    /\ i \in timers
    /\ IsMbmsMceM2apIdInList(i) = {}
    /\ timers' = timers \ {i}
    /\ UNCHANGED <<enbColl, nb_m2ap_enb_associated, mce_mbms_m2ap_id_generator,
                   sctpOut, crash, sctpUp, setupAsked, mceAppSetup>>
    /\ UNCHANGED sctpInit

Next ==
    \/ ActivateMessage
    \/ \E a \in Assocs : SctpNewAssociation(a)
    \/ \E a \in Assocs : SctpCloseAssociation(a)
    \/ \E a \in Assocs, pdu \in EnbPdus, i \in Ids : SctpDataInd(a, pdu, i)
    \/ \E a \in Assocs, sa \in SUBSET Sais : EnbSetupResponse(a, sa)
    \/ \E t \in Tmgis, s \in Sais, w \in StartTimes : SessionStartRequest(t, s, w)
    \/ \E i \in Ids : TimerHasExpired(i)

Spec == Init /\ [][Next]_vars
(***************************************************************************)
(* Properties.                                                             *)
(***************************************************************************)
EnbKeys == EnbKeysOf(Cur)

TypeOK ==
    /\ DOMAIN enbColl \subseteq Keys
    /\ \A k \in DOMAIN enbColl : enbColl[k] \in EnbRecs \cup MbmsRecs
    /\ nb_m2ap_enb_associated \in 0 .. UINT32_MAX
    /\ mce_mbms_m2ap_id_generator \in Ids
    /\ timers \subseteq Ids
    /\ sctpOut \subseteq SentPdus
    /\ crash \in CrashCauses
    /\ sctpUp \subseteq Assocs /\ setupAsked \subseteq Assocs /\ mceAppSetup \subseteq Assocs
    /\ sctpInit \in {"queued", "sent", "failed"}

NoDuplicateLiveSession ==
    \A k1, k2 \in GhostKeysOf(Cur) :
        k1 # k2 => <<enbColl[k1].tmgi, enbColl[k1].sai>> # <<enbColl[k2].tmgi, enbColl[k2].sai>>

\* An eNB is READY (it will be sent session starts for its service areas)
\* only if it sent an M2 Setup Request on its current association: the
\* setup response of MCE_APP, addressed by association id only, never
\* configures a later association that reuses the id.
StaleSetupResponse == \A k \in EnbKeys : enbColl[k].m2_state = M2AP_READY => k \in setupAsked
============================================================================
