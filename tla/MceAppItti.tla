----------------------------- MODULE MceAppItti -----------------------------
(***************************************************************************)
(* MCE_APP forwards MBMS session and setup decisions to the two protocol   *)
(* tasks through the ITTI bus (src/mce_app/mce_app_itti_messaging.c): each *)
(* mce_app_itti_m2ap_* / mce_app_itti_m3ap_* function fills one message    *)
(* and hands it to itti_send_msg_to_task for one destination task.  Each   *)
(* task (m2ap_mce_thread, m3ap_mce_thread) blocks in itti_receive_msg and  *)
(* handles its mailbox in FIFO order, one message at a time; a message id  *)
(* its switch has no case for falls into the default branch and is        *)
(* dropped after a log line.                                               *)
(*                                                                         *)
(* A request is a message id and a sequence number; the payload (TMGI,     *)
(* service area, QoS, times) plays no part in the routing.                 *)
(*   mailbox  the ITTI queue of each task.                                 *)
(*   handled  the requests each task's switch has handled, in order.       *)
(*   sent     history: every request MCE_APP has issued, in order.         *)
(***************************************************************************)
EXTENDS Naturals, Sequences, SequencesExt, MceAppProcedures

CONSTANTS
    MaxSends     \* bound on the requests MCE_APP issues in one behaviour

Tasks == {"TASK_M2AP", "TASK_M3AP"}

\* The message ids MCE_APP sends to the protocol tasks.
Msgs == {"M2AP_MBMS_SESSION_START_REQUEST", "M2AP_MBMS_SESSION_UPDATE_REQUEST",
         "M2AP_MBMS_SESSION_STOP_REQUEST", "M2AP_ENB_SETUP_RESPONSE",
         "M2AP_MBMS_SCHEDULING_INFORMATION",
         "M3AP_MBMS_SESSION_START_REQUEST", "M3AP_MBMS_SESSION_UPDATE_REQUEST",
         "M3AP_MBMS_SESSION_STOP_REQUEST", "M3AP_MCE_SETUP_RESPONSE"}

Requests == [id : Msgs, n : 1 .. MaxSends]

\* The cases of the switch in m2ap_mce_thread.
M2apCases == {"ACTIVATE_MESSAGE", "MESSAGE_TEST",
              "M2AP_MBMS_SESSION_START_REQUEST", "M2AP_MBMS_SESSION_STOP_REQUEST",
              "M2AP_MBMS_SESSION_UPDATE_REQUEST", "M2AP_ENB_SETUP_RESPONSE",
              "M2AP_MBMS_SCHEDULING_INFORMATION", "SCTP_CLOSE_ASSOCIATION",
              "SCTP_DATA_IND", "M2AP_ENB_INITIATED_RESET_ACK",
              "TIMER_HAS_EXPIRED", "SCTP_NEW_ASSOCIATION", "TERMINATE_MESSAGE"}

\* The cases of the switch in m3ap_mce_thread.
M3apCases == {"ACTIVATE_MESSAGE", "MESSAGE_TEST",
              "M3AP_MBMS_SESSION_START_REQUEST", "M3AP_MBMS_SESSION_STOP_REQUEST",
              "M3AP_MBMS_SESSION_UPDATE_REQUEST", "M3AP_MCE_SETUP_RESPONSE",
              "SCTP_CLOSE_ASSOCIATION", "SCTP_DATA_IND",
              "M3AP_MCE_INITIATED_RESET_ACK", "TIMER_HAS_EXPIRED",
              "SCTP_NEW_ASSOCIATION", "TERMINATE_MESSAGE"}

Cases == [TASK_M2AP |-> M2apCases, TASK_M3AP |-> M3apCases]

\* The task whose loop handles a message id.
Owner(m) == CHOOSE t \in Tasks : m \in Cases[t]

\* Mutant: the M3AP stop request addressed to TASK_M2AP.
DestM3StopToM2(m) ==
    IF m = "M3AP_MBMS_SESSION_STOP_REQUEST" THEN "TASK_M2AP"
    ELSE IF m \in {"M2AP_MBMS_SESSION_START_REQUEST", "M2AP_ENB_SETUP_RESPONSE",
                   "M2AP_MBMS_SCHEDULING_INFORMATION"} THEN "TASK_M2AP"
    ELSE "TASK_M3AP"

\* The task each sender passes to itti_send_msg_to_task.  The M2AP update
\* and stop senders name TASK_M3AP, like their M3AP twins.
Dest(m) ==
    IF m \in {"M2AP_MBMS_SESSION_START_REQUEST", "M2AP_ENB_SETUP_RESPONSE",
              "M2AP_MBMS_SCHEDULING_INFORMATION"} THEN "TASK_M2AP"
    ELSE "TASK_M3AP"

VARIABLES mailbox, handled, sent

vars == <<mailbox, handled, sent>>

allVars == <<vars, procVars>>

Init == /\ mailbox = [t \in Tasks |-> <<>>]
        /\ handled = [t \in Tasks |-> <<>>]
        /\ sent = <<>>
        /\ ProcInit

\* One mce_app_itti_* sender: itti_alloc_new_message, fill, and
\* itti_send_msg_to_task(Dest(m)), a non-blocking enqueue.
MceAppSend(m) ==
    /\ crash = "none"
    /\ Len(sent) < MaxSends
    /\ LET r == [id |-> m, n |-> Len(sent) + 1]
       IN /\ mailbox' = [mailbox EXCEPT ![Dest(m)] = Append(@, r)]
          /\ sent' = Append(sent, r)
    /\ UNCHANGED <<handled, procVars>>

\* One turn of a task loop: itti_receive_msg takes the oldest message, the
\* switch handles it or drops it in its default branch.
TaskReceive(t) ==
    /\ crash = "none"
    /\ mailbox[t] # <<>>
    /\ LET r == Head(mailbox[t])
       IN handled' = IF r.id \in Cases[t]
                     THEN [handled EXCEPT ![t] = Append(@, r)]
                     ELSE handled
    /\ mailbox' = [mailbox EXCEPT ![t] = Tail(@)]
    /\ UNCHANGED <<sent, procVars>>

\* MCE_APP's own procedures and timers (MceAppProcedures) run in the same
\* process, beside the two protocol tasks.
Next == \/ \E m \in Msgs : MceAppSend(m)
        \/ \E t \in Tasks : TaskReceive(t)
        \/ ProcNext /\ UNCHANGED vars

\* Each task thread blocks only while its mailbox is empty.
Spec == Init /\ [][Next]_allVars /\ \A t \in Tasks : WF_allVars(TaskReceive(t))

(***************************************************************************)
(* Refinement.  The requests still pending for a task are those issued for *)
(* it (by the task that owns the message id) that it has not handled.      *)
(***************************************************************************)
PendingFor(t) == SelectSeq(sent, LAMBDA r : Owner(r.id) = t /\ r \notin Range(handled[t]))

M3Delivery == INSTANCE TaskDelivery
                WITH Tasks <- {"TASK_M3AP"}, Requests <- Requests, Owner <- LAMBDA r : Owner(r.id),
                     pending <- [t \in {"TASK_M3AP"} |-> PendingFor(t)],
                     handled <- [t \in {"TASK_M3AP"} |-> handled[t]]

M2Delivery == INSTANCE TaskDelivery
                WITH Tasks <- {"TASK_M2AP"}, Requests <- Requests, Owner <- LAMBDA r : Owner(r.id),
                     pending <- [t \in {"TASK_M2AP"} |-> PendingFor(t)],
                     handled <- [t \in {"TASK_M2AP"} |-> handled[t]]

\* Every session and setup request MCE_APP addresses to M3AP reaches
\* m3ap_mce_thread and is handled there, in issue order, and eventually.
M3RequestsDelivered == M3Delivery!Spec

\* The same for the requests MCE_APP addresses to M2AP (session start,
\* update and stop, eNB setup response, scheduling information).
M2RequestsDelivered == M2Delivery!Spec
============================================================================
