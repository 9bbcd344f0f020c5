------------------------------ MODULE M3apMme ------------------------------
(***************************************************************************)
(* The M3AP task (TASK_M3AP) of the MCE in its MME personality: the        *)
(* single-threaded ITTI loop m3ap_mce_thread (src/m3ap/m3ap_mme.c) and the *)
(* handlers it calls (m3ap_mme_handlers.c, m3ap_mme_procedures.c).  One    *)
(* step of the model is one ITTI message taken from the task's mailbox and *)
(* handled to completion, with every registry call it makes.              *)
(*                                                                         *)
(* State of the task:                                                      *)
(*   mceColl   g_m3ap_mce_coll, hash key -> element.  Keys are SCTP        *)
(*             association ids, and (m3ap_new_mbms, m3ap_mme.c:789) also   *)
(*             MME MBMS M3AP ids: an element is an MCE description         *)
(*             (kind "mce") or an MBMS description (kind "mbms").          *)
(*   mbmsColl  g_m3ap_mbms_coll, MME MBMS M3AP id -> MBMS description.     *)
(*   nb_m3ap_mce_associated, mme_mbms_m3ap_id_generator: the globals.      *)
(*   sctpOut   the PDUs handed to TASK_SCTP (SCTP_DATA_REQ), as a set.     *)
(*   crash     how the process died ("none" while it runs): a DevAssert    *)
(*             aborts, a NULL dereference faults; both end the process.    *)
(* State of the environment:                                               *)
(*   sctpUp    the associations TASK_SCTP has announced and not closed.    *)
(***************************************************************************)
EXTENDS Naturals, FiniteSets, Functions, TLC

CONSTANTS
    Assocs,                    \* sctp_assoc_id_t values TASK_SCTP hands out
    Streams,                   \* sctp_stream_id_t values of SCTP_DATA_IND
    Sais,                      \* mbms_service_area_id_t values in requests
    Tmgis,                     \* tmgi_t values in requests
    TmgiAsId,                  \* [Tmgis -> Ids]: the leading bytes of a tmgi_t
                               \* read as an mme_mbms_m3ap_id_t
    MBMS_SERVICE_SCTP_STREAM_ID, \* stream of session PDUs, in Streams
    max_m3_mces,               \* mce_config.max_m3_mces
    IdWidth,                   \* bits of mme_mbms_m3ap_id_t kept by the model
    INVALID_MME_MBMS_M3AP_ID,
    UINT32_MAX                 \* largest value of a uint32_t counter

IdMod == 2 ^ IdWidth
Ids == 0 .. IdMod - 1
Keys == Assocs \cup Ids

\* enum mme_m3_mce_state_s
M3AP_INIT == 0
M3AP_RESETING == 1
M3AP_READY == 2
M3AP_SHUTDOWN == 3

\* The IEs of a received PDU that the handlers look for.
IeNames == {"MME_MBMS_M3AP_ID", "MCE_MBMS_M3AP_ID", "ResetType"}

\* A decoded PDU: procedure code, pdu->present (1 initiating, 2 successful
\* outcome, 3 unsuccessful outcome), the IEs it carries and the value of its
\* MME MBMS M3AP ID IE.
Pdus == [proc : 0 .. 8, present : 1 .. 3, ies : SUBSET IeNames, mme : Ids]

\* abs_start_time_sec / abs_update_time_sec of a request: 0, or a time for
\* which timer_setup succeeds, or one for which it fails.
StartTimes == {"now", "timer", "timer_setup_fails"}

MceRecs == [kind : {"mce"}, m3_state : {M3AP_INIT, M3AP_RESETING, M3AP_READY, M3AP_SHUTDOWN},
            sa : SUBSET Sais, nb_mbms_associated : 0 .. UINT32_MAX]
MbmsRecs == [kind : {"mbms"}, id : Ids, tmgi : Tmgis, sai : Sais,
             peers : SUBSET Assocs, timer : BOOLEAN]
SentPdus == [assoc : Assocs, stream : Streams,
             kind : {"M3SetupFailure", "MBMSSessionStartRequest",
                     "MBMSSessionStopRequest", "MBMSSessionUpdateRequest"},
             cause : {"protocol", "overload", "unspecified", "none"}, id : Ids]
CrashCauses == {"none", "setup_request_null_deref", "missing_mandatory_ie",
                "devassert", "double_free"}

VARIABLES mceColl, mbmsColl, nb_m3ap_mce_associated,
          mme_mbms_m3ap_id_generator, sctpOut, crash, sctpUp, sctpInit

vars == <<mceColl, mbmsColl, nb_m3ap_mce_associated,
          mme_mbms_m3ap_id_generator, sctpOut, crash, sctpUp, sctpInit>>

(***************************************************************************)
(* The task's state as one record, so that a handler can be written as the *)
(* composition of the C functions it calls, each an operator from record   *)
(* to record.                                                              *)
(***************************************************************************)
Cur == [mce |-> mceColl, mbms |-> mbmsColl, nb |-> nb_m3ap_mce_associated,
        gen |-> mme_mbms_m3ap_id_generator, out |-> sctpOut, crash |-> crash]

Commit(c) == /\ mceColl' = c.mce
             /\ mbmsColl' = c.mbms
             /\ nb_m3ap_mce_associated' = c.nb
             /\ mme_mbms_m3ap_id_generator' = c.gen
             /\ sctpOut' = c.out
             /\ crash' = c.crash

Die(c, why) == [c EXCEPT !.crash = why]

\* A PDU handed to TASK_SCTP: its kind, a cause (M3 Setup Failure) and the
\* MME MBMS M3AP id it carries (session PDUs).
Send(c, a, st, k, cause, i) ==
    [c EXCEPT !.out = @ \cup {[assoc |-> a, stream |-> st, kind |-> k,
                                cause |-> cause, id |-> i]}]

\* Decrement of a uint32_t with no guard: 0 wraps to UINT32_MAX.
Dec32(n) == IF n = 0 THEN UINT32_MAX ELSE n - 1
\* Increment of a uint32_t: UINT32_MAX wraps to 0.
Inc32(n) == IF n = UINT32_MAX THEN 0 ELSE n + 1
(***************************************************************************)
(* The registry: m3ap_mme.c.                                               *)
(***************************************************************************)

\* m3ap_is_mce_assoc_id_in_list: hashtable_ts_get on the association id.
IsMceAssocIdInList(c, a) == a \in DOMAIN c.mce

\* m3ap_mce_compare_by_mbms_sai_cb: MCE description e is collected when one
\* entry of its service area list equals s.
CompareByMbmsSai(e, s) == s \in e.sa

\* m3ap_mce_compare_by_mbms_sai_NACK_cb: collected when no entry equals s.
CompareByMbmsSaiNack(e, s) == s \notin e.sa

\* m3ap_is_mbms_sai_in_list: the callback applied to every element of
\* g_m3ap_mce_coll, collecting the matches.  An MBMS description stored in
\* the table (m3ap_new_mbms) would be read as an MCE description; no run of
\* this model stores one (see README), so the scans skip them.
IsMbmsSaiInList(c, s) ==
    {k \in DOMAIN c.mce : c.mce[k].kind = "mce" /\ CompareByMbmsSai(c.mce[k], s)}

\* m3ap_is_mbms_sai_not_in_list: the same walk with the NACK callback.
IsMbmsSaiNotInList(c, s) ==
    {k \in DOMAIN c.mce : c.mce[k].kind = "mce" /\ CompareByMbmsSaiNack(c.mce[k], s)}

\* m3ap_is_mbms_mme_m3ap_id_in_list: scan of g_m3ap_mbms_coll by id.
IsMbmsMmeM3apIdInList(c, i) == {k \in DOMAIN c.mbms : c.mbms[k].id = i}

\* m3ap_mbms_compare_by_tmgi_cb: casts its mxap_tmgi_t parameter to an
\* mme_mbms_m3ap_id_t and compares that word with the session's id; the
\* service area is never compared.
CompareByTmgi(e, t) == e.id = TmgiAsId[t]

\* m3ap_is_mbms_tmgi_in_list: the callback applied to g_m3ap_mbms_coll with
\* the tmgi and service area packed into one mxap_tmgi_t.
IsMbmsTmgiInList(c, t, s) == {k \in DOMAIN c.mbms : CompareByTmgi(c.mbms[k], t)}

\* m3ap_new_mce: the counter counts every description ever allocated.
NewMce(c) == [c EXCEPT !.nb = Inc32(@)]

\* m3ap_mce_mbms_remove_sctp_assoc_id_cb applied to every session of
\* g_m3ap_mbms_coll.
RemoveAssocFromSessions(mbms, a) ==
    [k \in DOMAIN mbms |-> [mbms[k] EXCEPT !.peers = @ \ {a}]]

\* Mutant: m3ap_remove_mce without the decrement of nb_m3ap_mce_associated.
RemoveMceKeepsCount(c, a) ==
    [c EXCEPT !.mbms = RemoveAssocFromSessions(@, a),
              !.mce = Restrict(@, DOMAIN @ \ {a})]

\* m3ap_remove_mce, the free function of g_m3ap_mce_coll, and the removal of
\* the key by hashtable_ts_free.
RemoveMce(c, a) ==
    [c EXCEPT !.mbms = RemoveAssocFromSessions(@, a),
              !.mce = Restrict(@, DOMAIN @ \ {a}),
              !.nb = Dec32(@)]

\* m3ap_clear_mce_mbms_stats_cb on one MCE of a removed session: decrement
\* its session count if positive; at zero a RESETING MCE goes back to INIT.
ClearMceMbmsStats(e) ==
    LET n == IF e.nb_mbms_associated > 0 THEN e.nb_mbms_associated - 1 ELSE 0
    IN [e EXCEPT !.nb_mbms_associated = n,
                 !.m3_state = IF n = 0 /\ @ = M3AP_RESETING THEN M3AP_INIT ELSE @]

\* m3ap_remove_mbms, the free function of g_m3ap_mbms_coll, with the removal
\* of key i: the timer is stopped, every peer MCE's count is cleared and an
\* MCE in SHUTDOWN whose count reaches zero is freed (m3ap_remove_mce).
RemoveMbms(c, i) ==
    LET peers == {a \in c.mbms[i].peers : a \in DOMAIN c.mce /\ c.mce[a].kind = "mce"}
        cleared == [k \in DOMAIN c.mce |->
                      IF k \in peers THEN ClearMceMbmsStats(c.mce[k]) ELSE c.mce[k]]
        gone == {a \in peers : cleared[a].nb_mbms_associated = 0
                               /\ cleared[a].m3_state = M3AP_SHUTDOWN}
        c1 == [c EXCEPT !.mce = cleared, !.mbms = Restrict(@, DOMAIN @ \ {i})]
    IN [c1 EXCEPT !.mce = Restrict(@, DOMAIN @ \ gone),
                  !.mbms = [k \in DOMAIN @ |-> [@[k] EXCEPT !.peers = @ \ gone]],
                  !.nb = @ - Cardinality(gone)]

\* generate_new_mme_mbms_m3ap_id: fetch-and-add on the generator.
NextId(c) == c.gen

\* m3ap_new_mbms: a fresh id (INVALID gives NULL), DevAssert that no session
\* has it, and the new description inserted into g_m3ap_mce_coll under the
\* id.  Inserting over an existing key frees the old element (m3ap_remove_mce)
\* and returns a code that is not HASH_TABLE_OK: the DevAssert then aborts.
\* The result is the new context and the id, or INVALID for NULL.
NewMbms(c, t, s) ==
    LET i == NextId(c)
        c1 == [c EXCEPT !.gen = (@ + 1) % IdMod]
        rec == [kind |-> "mbms", id |-> i, tmgi |-> t, sai |-> s,
                peers |-> {}, timer |-> FALSE]
    IN IF i = INVALID_MME_MBMS_M3AP_ID
       THEN [ctx |-> c1, ref |-> INVALID_MME_MBMS_M3AP_ID]
       ELSE IF IsMbmsMmeM3apIdInList(c1, i) # {}
       THEN [ctx |-> Die(c1, "devassert"), ref |-> INVALID_MME_MBMS_M3AP_ID]
       ELSE IF i \in DOMAIN c1.mce
       THEN [ctx |-> Die(IF c1.mce[i].kind = "mce" THEN RemoveMce(c1, i) ELSE c1, "devassert"),
             ref |-> INVALID_MME_MBMS_M3AP_ID]
       ELSE [ctx |-> [c1 EXCEPT !.mce = (i :> rec) @@ @], ref |-> i]
(***************************************************************************)
(* The procedures: m3ap_mme_procedures.c.                                  *)
(***************************************************************************)

\* m3ap_generate_mbms_session_stop_request(i, a): nothing unless the session,
\* the MCE and the MCE's entry in the session's map all exist.
GenerateStop(c, i, a) ==
    LET found == IsMbmsMmeM3apIdInList(c, i)
    IN IF found = {} \/ ~IsMceAssocIdInList(c, a)
          \/ a \notin c.mbms[CHOOSE k \in found : TRUE].peers
       THEN c
       ELSE Send(c, a, MBMS_SERVICE_SCTP_STREAM_ID, "MBMSSessionStopRequest", "none", i)

\* m3ap_generate_mbms_session_start_request(i, n, targets): one encoding,
\* freed in the first pass of the loop over the targets and freed again in the
\* second (procedures.c:641-642); glibc detects the double free and aborts.
GenerateStart(c, i, targets) ==
    IF IsMbmsMmeM3apIdInList(c, i) = {} \/ targets = {} THEN c
    ELSE LET a == CHOOSE x \in targets : TRUE
             c1 == Send(c, a, MBMS_SERVICE_SCTP_STREAM_ID, "MBMSSessionStartRequest", "none", i)
         IN IF Cardinality(targets) > 1 THEN Die(c1, "double_free") ELSE c1

\* m3ap_generate_mbms_session_update_request(i, a).
GenerateUpdate(c, i, a) ==
    IF IsMbmsMmeM3apIdInList(c, i) = {} \/ ~IsMceAssocIdInList(c, a)
       \/ a \notin c.mbms[CHOOSE k \in IsMbmsMmeM3apIdInList(c, i) : TRUE].peers
    THEN c
    ELSE Send(c, a, MBMS_SERVICE_SCTP_STREAM_ID, "MBMSSessionUpdateRequest", "none", i)

\* m3ap_handle_mbms_session_stop_request(tmgi, sai, inform_mces): a stop to
\* every MCE of the service area, then hashtable_ts_free of the session's
\* key in g_m3ap_mbms_coll (m3ap_remove_mbms).
MbmsSessionStop(c, t, s, inform) ==
    LET found == IsMbmsTmgiInList(c, t, s)
    IN IF found = {} THEN c
       ELSE LET k == CHOOSE x \in found : TRUE
                i == c.mbms[k].id
                Stops[T \in SUBSET Keys] ==
                    IF T = {} THEN c
                    ELSE LET a == CHOOSE x \in T : TRUE
                         IN GenerateStop(Stops[T \ {a}], i, a)
                c1 == IF inform THEN Stops[IsMbmsSaiInList(c, s)] ELSE c
            IN RemoveMbms(c1, k)

\* m3ap_update_mbms_service_context(i): stop the session if no MCE serves its
\* area; else an update to each MCE already in the session and a start to
\* each other one.  The update to an MCE in the session's map cannot fail
\* in the model (encoding is not modelled), so the stop-and-drop branch of
\* procedures.c:501-507 is not taken.
UpdateServiceContext(c, i) ==
    LET found == IsMbmsMmeM3apIdInList(c, i)
    IN IF found = {} THEN c
       ELSE LET k == CHOOSE x \in found : TRUE
                targets == IsMbmsSaiInList(c, c.mbms[k].sai)
                Step(d, a) ==
                    IF d.crash # "none" THEN d
                    ELSE IF a \in d.mbms[k].peers
                    THEN GenerateUpdate(d, i, a)
                    ELSE GenerateStart(d, i, {a})
                Each[T \in SUBSET Keys] ==
                    IF T = {} THEN c
                    ELSE LET a == CHOOSE x \in T : TRUE IN Step(Each[T \ {a}], a)
            IN IF targets = {}
               THEN MbmsSessionStop(c, c.mbms[k].tmgi, c.mbms[k].sai, TRUE)
               ELSE Each[targets]
\* m3ap_handle_mbms_session_start_request (procedures.c:72-164).  A session
\* found for the TMGI is stopped first; no MCE in the area ends the request;
\* the new description's timer is armed with the local mme_mbms_m3ap_id, which
\* is never assigned and stays INVALID; the start is generated for that same
\* INVALID id.
MbmsSessionStartRequest(c, t, s, when) ==
    LET dup == IsMbmsTmgiInList(c, t, s)
        c1 == IF dup = {} THEN c
              ELSE LET k == CHOOSE x \in dup : TRUE
                   IN MbmsSessionStop(c, c.mbms[k].tmgi, c.mbms[k].sai, TRUE)
        targets == IsMbmsSaiInList(c1, s)
        r == NewMbms(c1, t, s)
        c2 == r.ctx
    IN IF targets = {} THEN c1
       ELSE IF r.ref = INVALID_MME_MBMS_M3AP_ID THEN c2
       ELSE IF when = "timer"
       THEN [c2 EXCEPT !.mce[r.ref].timer = TRUE]
       ELSE GenerateStart(c2, INVALID_MME_MBMS_M3AP_ID, targets)

\* m3ap_handle_mbms_session_update_request (procedures.c:168-266): the MCEs
\* that do not serve the new area get a stop, are dropped from the session and
\* have their session count decremented with no check (procedures.c:232).
MbmsSessionUpdateRequest(c, t, old, new, when) ==
    LET found == IsMbmsTmgiInList(c, t, old)
        k == CHOOSE x \in found : TRUE
        i == c.mbms[k].id
        missing == IsMbmsSaiNotInList(c, new)
        Drop[T \in SUBSET Keys] ==
            IF T = {} THEN c
            ELSE LET a == CHOOSE x \in T : TRUE
                     d == GenerateStop(Drop[T \ {a}], i, a)
                 IN [d EXCEPT !.mce[a].nb_mbms_associated = Dec32(@),
                              !.mbms[k].peers = @ \ {a}]
        c1 == [Drop[missing] EXCEPT !.mbms[k].sai = new]
    IN IF found = {} THEN c
       ELSE IF IsMbmsSaiInList(c, new) = {}
       THEN MbmsSessionStop(c, c.mbms[k].tmgi, c.mbms[k].sai, TRUE)
       ELSE IF when = "timer" THEN [c1 EXCEPT !.mbms[k].timer = TRUE]
       ELSE UpdateServiceContext(c1, i)

(***************************************************************************)
(* The handlers of received PDUs: m3ap_mme_handlers.c.                     *)
(***************************************************************************)

\* m3ap_mme_generate_m3_setup_failure: sent on the request's stream.
GenerateM3SetupFailure(c, a, st, cause) == Send(c, a, st, "M3SetupFailure", cause, 0)

\* m3ap_mme_handle_m3_setup_request (handlers.c:223-422).  Past the stream
\* and overload checks every IE lookup is commented out, and the request is
\* forwarded with &m3ap_mce_association->mbms_sa_list where the pointer is
\* still NULL: the memcpy of m3ap_mme_itti_m3ap_mce_setup_request faults.
M3SetupRequest(c, a, st) ==
    IF st # 0 THEN GenerateM3SetupFailure(c, a, st, "protocol")
    ELSE IF c.nb >= max_m3_mces THEN GenerateM3SetupFailure(c, a, st, "overload")
    ELSE Die(c, "setup_request_null_deref")

\* M3AP_FIND_PROTOCOLIE_BY_ID(..., mandatory = true) DevAsserts the IE.
Mandatory(c, pdu, ie) == IF ie \in pdu.ies THEN c ELSE Die(c, "missing_mandatory_ie")

\* m3ap_mme_handle_mbms_session_start_response: the MME MBMS M3AP id read
\* from the PDU is overwritten by the MCE id, so the session looked up is
\* the one with id 0 (handlers.c:577-593).
MbmsSessionStartResponse(c, a, pdu) ==
    LET c1 == Mandatory(Mandatory(c, pdu, "MME_MBMS_M3AP_ID"), pdu, "MCE_MBMS_M3AP_ID")
        found == IsMbmsMmeM3apIdInList(c1, 0)
        k == CHOOSE x \in found : TRUE
    IN IF c1.crash # "none" \/ found = {} THEN c1
       ELSE IF ~IsMceAssocIdInList(c1, a) THEN Die(c1, "devassert")
       ELSE IF a \in c1.mbms[k].peers THEN c1
       ELSE [c1 EXCEPT !.mbms[k].peers = @ \cup {a},
                       !.mce[a].nb_mbms_associated = @ + 1]

\* m3ap_mme_handle_mbms_session_start_failure: DevAssert that the MCE is
\* not in the session's map (handlers.c:651).
MbmsSessionStartFailure(c, a, pdu) ==
    LET c1 == Mandatory(c, pdu, "MME_MBMS_M3AP_ID")
        found == IsMbmsMmeM3apIdInList(c1, pdu.mme)
    IN IF c1.crash # "none" \/ found = {} THEN c1
       ELSE IF a \in c1.mbms[CHOOSE x \in found : TRUE].peers
       THEN Die(c1, "devassert") ELSE c1

\* m3ap_mme_handle_mbms_session_stop_response and
\* m3ap_mme_handle_mbms_session_update_response change nothing once both
\* ids are read.
MbmsSessionStopResponse(c, a, pdu) ==
    Mandatory(Mandatory(c, pdu, "MME_MBMS_M3AP_ID"), pdu, "MCE_MBMS_M3AP_ID")

MbmsSessionUpdateResponse(c, a, pdu) ==
    Mandatory(Mandatory(c, pdu, "MME_MBMS_M3AP_ID"), pdu, "MCE_MBMS_M3AP_ID")

\* Drop MCE a from session k after a stop: handlers.c:775-780 and 957-961.
StopAndDropMce(c, k, a) ==
    LET d == GenerateStop(c, c.mbms[k].id, a)
    IN [d EXCEPT !.mbms[k].peers = @ \ {a},
                 !.mce[a].nb_mbms_associated = IF @ > 0 THEN @ - 1 ELSE @]

\* m3ap_mme_handle_mbms_session_update_failure.
MbmsSessionUpdateFailure(c, a, pdu) ==
    LET c1 == Mandatory(Mandatory(c, pdu, "MME_MBMS_M3AP_ID"), pdu, "MCE_MBMS_M3AP_ID")
        found == IsMbmsMmeM3apIdInList(c1, pdu.mme)
    IN IF c1.crash # "none" \/ found = {} \/ ~IsMceAssocIdInList(c1, a) THEN c1
       ELSE StopAndDropMce(c1, CHOOSE x \in found : TRUE, a)

\* m3ap_mme_handle_error_indication: DevAssert that the MCE exists; an absent
\* MME id reads as INVALID.
ErrorIndication(c, a, pdu) ==
    LET i == IF "MME_MBMS_M3AP_ID" \in pdu.ies THEN pdu.mme ELSE INVALID_MME_MBMS_M3AP_ID
        found == IsMbmsMmeM3apIdInList(c, i)
    IN IF ~IsMceAssocIdInList(c, a) THEN Die(c, "devassert")
       ELSE IF i = INVALID_MME_MBMS_M3AP_ID \/ found = {} THEN c
       ELSE StopAndDropMce(c, CHOOSE x \in found : TRUE, a)

\* m3ap_mme_handle_reset_request: ignored unless the MCE is READY; then only
\* the ResetType IE is looked up (the reset itself is commented out).
ResetRequest(c, a, pdu) ==
    IF ~IsMceAssocIdInList(c, a) \/ c.mce[a].m3_state # M3AP_READY THEN c
    ELSE Mandatory(c, pdu, "ResetType")
\* m3ap_messages_callback: the handler of each (procedure code, present);
\* "none" where the table holds 0.
m3ap_messages_callback ==
    (<<0, 2>> :> "start_response") @@ (<<0, 3>> :> "start_failure")
    @@ (<<1, 2>> :> "stop_response") @@ (<<2, 1>> :> "error_indication")
    @@ (<<3, 1>> :> "reset") @@ (<<4, 1>> :> "m3_setup")
    @@ (<<8, 2>> :> "update_response") @@ (<<8, 3>> :> "update_failure")
    @@ [x \in (0 .. 8) \X (1 .. 3) |-> "none"]

\* m3ap_mme_handle_message: a PDU with no handler is dropped.
HandleMessage(c, a, st, pdu) ==
    CASE m3ap_messages_callback[<<pdu.proc, pdu.present>>] = "start_response"
             -> MbmsSessionStartResponse(c, a, pdu)
      [] m3ap_messages_callback[<<pdu.proc, pdu.present>>] = "start_failure"
             -> MbmsSessionStartFailure(c, a, pdu)
      [] m3ap_messages_callback[<<pdu.proc, pdu.present>>] = "stop_response"
             -> MbmsSessionStopResponse(c, a, pdu)
      [] m3ap_messages_callback[<<pdu.proc, pdu.present>>] = "error_indication"
             -> ErrorIndication(c, a, pdu)
      [] m3ap_messages_callback[<<pdu.proc, pdu.present>>] = "reset"
             -> ResetRequest(c, a, pdu)
      [] m3ap_messages_callback[<<pdu.proc, pdu.present>>] = "m3_setup"
             -> M3SetupRequest(c, a, st)
      [] m3ap_messages_callback[<<pdu.proc, pdu.present>>] = "update_response"
             -> MbmsSessionUpdateResponse(c, a, pdu)
      [] m3ap_messages_callback[<<pdu.proc, pdu.present>>] = "update_failure"
             -> MbmsSessionUpdateFailure(c, a, pdu)
      [] OTHER -> c

\* Mutant: the description is freed with m3ap_remove_mce called directly,
\* so its key stays in the table with the freed element.
SctpDisconnectionLeavesKey(c, a) ==
    IF ~IsMceAssocIdInList(c, a) THEN c
    ELSE [RemoveMce(c, a) EXCEPT !.mce = (a :> [kind |-> "freed"]) @@ @]

\* Mutant: the MCE is marked SHUTDOWN and left for the session-count
\* callback to free, as if it still had sessions.
SctpDisconnectionMarksShutdown(c, a) ==
    IF ~IsMceAssocIdInList(c, a) THEN c
    ELSE [c EXCEPT !.mce[a].m3_state = M3AP_SHUTDOWN]

\* m3ap_handle_sctp_disconnection: hashtable_ts_free of the MCE's key, whose
\* free function is m3ap_remove_mce.
SctpDisconnection(c, a) ==
    IF ~IsMceAssocIdInList(c, a) THEN c ELSE RemoveMce(c, a)

\* m3ap_handle_new_association: a new MCE description in INIT, or an existing
\* one back to INIT unless it is SHUTDOWN or RESETING.
NewAssociation(c, a) ==
    IF ~IsMceAssocIdInList(c, a)
    THEN [NewMce(c) EXCEPT !.mce = (a :> [kind |-> "mce", m3_state |-> M3AP_INIT,
                                          sa |-> {}, nb_mbms_associated |-> 0]) @@ @]
    ELSE IF c.mce[a].m3_state \in {M3AP_SHUTDOWN, M3AP_RESETING} THEN c
    ELSE [c EXCEPT !.mce[a].m3_state = M3AP_INIT]

(***************************************************************************)
(* The specification: one action per message the loop of m3ap_mce_thread   *)
(* handles.  A process that has died takes no more steps.                  *)
(***************************************************************************)
Init == /\ mceColl = <<>>
        /\ mbmsColl = <<>>
        /\ nb_m3ap_mce_associated = 0
        /\ mme_mbms_m3ap_id_generator = 1
        /\ sctpOut = {}
        /\ crash = "none"
        /\ sctpUp = {}
        /\ sctpInit = "queued"

Alive == crash = "none"

\* m3ap_send_init_sctp: an SCTP_INIT_MSG for the M3AP port and PPID and the
\* configured addresses goes to TASK_SCTP, which then listens.  The ITTI
\* allocation or send may fail (the ITTI library is not in the repository):
\* RETURNerror, and TASK_SCTP never hears of M3AP.
SendInitSctp ==
    \/ sctpInit' = "sent"
    \/ sctpInit' = "failed"

\* ACTIVATE_MESSAGE, queued by main once every task is initialised: the
\* loop sends the SCTP init request and only logs an error.
ActivateMessage ==
    /\ Alive
    /\ sctpInit = "queued"
    /\ SendInitSctp
    /\ UNCHANGED <<mceColl, mbmsColl, nb_m3ap_mce_associated,
                   mme_mbms_m3ap_id_generator, sctpOut, crash, sctpUp>>

\* SCTP_NEW_ASSOCIATION: TASK_SCTP announces an association (a new one, or
\* one it announced before, which the handler treats as a restart).  It
\* accepts associations on the M3AP port only once M3AP's init request
\* reached it.
SctpNewAssociation(a) ==
    /\ Alive
    /\ sctpInit = "sent"
    /\ sctpUp' = sctpUp \cup {a}
    /\ Commit(NewAssociation(Cur, a))
    /\ UNCHANGED sctpInit

\* SCTP_CLOSE_ASSOCIATION for an association TASK_SCTP had announced.
SctpCloseAssociation(a) ==
    /\ Alive
    /\ a \in sctpUp
    /\ sctpUp' = sctpUp \ {a}
    /\ Commit(SctpDisconnection(Cur, a))
    /\ UNCHANGED sctpInit

\* SCTP_DATA_IND on an open association, decoded and dispatched.
SctpDataInd(a, st, pdu) ==
    /\ Alive
    /\ a \in sctpUp
    /\ Commit(HandleMessage(Cur, a, st, pdu))
    /\ UNCHANGED <<sctpUp, sctpInit>>

\* SCTP_DATA_IND whose payload m3ap_mme_decode_pdu rejects: only the payload
\* is freed.
SctpDataIndUndecodable(a) ==
    /\ Alive
    /\ a \in sctpUp
    /\ UNCHANGED vars

\* M3AP_MBMS_SESSION_START_REQUEST, _STOP_REQUEST, _UPDATE_REQUEST from MCE_APP.
SessionStartRequest(t, s, when) ==
    /\ Alive
    /\ Commit(MbmsSessionStartRequest(Cur, t, s, when))
    /\ UNCHANGED <<sctpUp, sctpInit>>

SessionStopRequest(t, s, inform) ==
    /\ Alive
    /\ Commit(MbmsSessionStop(Cur, t, s, inform))
    /\ UNCHANGED <<sctpUp, sctpInit>>

SessionUpdateRequest(t, old, new, when) ==
    /\ Alive
    /\ Commit(MbmsSessionUpdateRequest(Cur, t, old, new, when))
    /\ UNCHANGED <<sctpUp, sctpInit>>

\* The PDUs an MCE may send: every procedure and direction of the table.
InPdus == Pdus

Next ==
    \/ ActivateMessage
    \/ \E a \in Assocs : SctpNewAssociation(a)
    \/ \E a \in Assocs : SctpCloseAssociation(a)
    \/ \E a \in Assocs, st \in Streams, pdu \in InPdus : SctpDataInd(a, st, pdu)
    \/ \E a \in Assocs : SctpDataIndUndecodable(a)
    \/ \E t \in Tmgis, s \in Sais, w \in StartTimes : SessionStartRequest(t, s, w)
    \/ \E t \in Tmgis, s \in Sais, b \in BOOLEAN : SessionStopRequest(t, s, b)
    \/ \E t \in Tmgis, o, n \in Sais, w \in StartTimes : SessionUpdateRequest(t, o, n, w)

Spec == Init /\ [][Next]_vars
(***************************************************************************)
(* Properties.                                                             *)
(***************************************************************************)
MceKeys == {k \in DOMAIN mceColl : mceColl[k].kind = "mce"}

TypeOK ==
    /\ DOMAIN mceColl \subseteq Keys
    /\ \A k \in DOMAIN mceColl : mceColl[k] \in MceRecs \cup MbmsRecs
    /\ DOMAIN mbmsColl \subseteq Ids /\ \A k \in DOMAIN mbmsColl : mbmsColl[k] \in MbmsRecs
    /\ nb_m3ap_mce_associated \in 0 .. UINT32_MAX
    /\ mme_mbms_m3ap_id_generator \in Ids
    /\ sctpOut \subseteq SentPdus
    /\ crash \in CrashCauses
    /\ sctpUp \subseteq Assocs
    /\ sctpInit \in {"queued", "sent", "failed"}

\* nb_m3ap_mce_associated, which the M3 Setup Request compares with
\* max_m3_mces, counts exactly the MCE descriptions in g_m3ap_mce_coll: every
\* m3ap_new_mce (++) is matched by an insertion, every m3ap_remove_mce (--)
\* by a removal, across any order of announcements, restarts and closes.
AssociatedCountMatchesTable == nb_m3ap_mce_associated = Cardinality(MceKeys)

\* The MCE table follows TASK_SCTP: while the process runs, there is an MCE
\* description exactly for the associations SCTP has announced and not
\* closed, so no description outlives its association and no open
\* association is unknown to the error-indication DevAssert.
PeerTableFollowsSctp == Alive => MceKeys = sctpUp

\* An M3 Setup Request is refused with the overload cause only when the MCEs
\* other than the requester already fill mce_config.max_m3_mces (spec: the
\* Setup path fails with an overload cause when the peer limit is reached).
OverloadOnlyAtPeerLimit ==
    [][\A p \in sctpOut' \ sctpOut :
          p.cause = "overload" => Cardinality(MceKeys \ {p.assoc}) >= max_m3_mces]_vars

\* No M3 Setup Request kills the process (spec: failures are fatal only at
\* process initialisation, never mid-operation).
SetupRequestNeverFatal == crash # "setup_request_null_deref"

\* No PDU an MCE sends kills the process (same statement of the spec, for
\* the DevAssert of M3AP_FIND_PROTOCOLIE_BY_ID on a missing mandatory IE).
PeerPduNeverFatal == crash # "missing_mandatory_ie"
=============================================================================
