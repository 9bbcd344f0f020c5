-------------------------- MODULE MceAppProcedures --------------------------
(***************************************************************************)
(* The MBMS procedures of MCE_APP (src/mce_app/mce_app_procedures.c).  An  *)
(* MBMS service holds at most one procedure.  mce_app_create_mbms_procedure *)
(* arms a one-shot timer whose argument is the service index, so that      *)
(* MCE_APP wakes up when the session is to be stopped or checked;          *)
(* mce_app_delete_mbms_procedure removes that timer, if still armed, and   *)
(* frees the procedure.                                                    *)
(*                                                                         *)
(* The timer library and the MCE_APP service handlers that call these two  *)
(* functions are not in the repository.  A timer that fires leaves the     *)
(* armed set and becomes a TIMER_HAS_EXPIRED message in the MCE_APP ITTI    *)
(* queue; timer_remove of a timer that already fired fails and changes     *)
(* nothing.  The handlers may call either function at any time, and the    *)
(* expiry handler either ends the service's procedure or keeps it.         *)
(*   procs          the services that hold a procedure, and the procedure. *)
(*   armed          the armed timers: timer id and argument.               *)
(*   mceAppMailbox  the expiries queued for TASK_MCE_APP, oldest first.    *)
(*   timerSeq       timer_setup calls so far; the next timer id.           *)
(*   crash          whether and why the process died.                      *)
(***************************************************************************)
EXTENDS Integers, Sequences, TLC

CONSTANTS
    Services,          \* the MBMS service indices
    SessionDurations,  \* mbms_session_duration->seconds a caller can pass
    NULL_DURATION,     \* mbms_session_duration == NULL: a stop procedure
    mbms_short_idle_session_duration_in_sec,
    MaxTimers          \* bound on the timer_setup calls of one behaviour

\* MCE_APP_TIMER_INACTIVE_ID (mce_app_procedures.h).
MCE_APP_TIMER_INACTIVE_ID == -1

TimerIds == 1 .. MaxTimers
Timers == [id : TimerIds, arg : Services]
Procs == [stop : BOOLEAN, timer : TimerIds \cup {MCE_APP_TIMER_INACTIVE_ID}]

VARIABLES procs, armed, mceAppMailbox, timerSeq, crash

procVars == <<procs, armed, mceAppMailbox, timerSeq, crash>>

ProcInit == /\ procs = <<>>
            /\ armed = {}
            /\ mceAppMailbox = <<>>
            /\ timerSeq = 0
            /\ crash = "none"

\* mce_app_mbms_proc_t as created for duration d: the stop trigger is set
\* when d is no longer than the short idle duration of the configuration.
ProcedureFor(d, t) ==
    [stop |-> mbms_short_idle_session_duration_in_sec >= d, timer |-> t]

\* The timer_setup call and what follows it: on success the timer is armed
\* with the service index as argument and the procedure is attached to the
\* service; on failure the procedure is freed and NULL returned.
ArmProcedureTimer(s, d) ==
    /\ timerSeq < MaxTimers
    /\ timerSeq' = timerSeq + 1
    /\ \/ /\ armed' = armed \cup {[id |-> timerSeq + 1, arg |-> s]}
          /\ procs' = (s :> ProcedureFor(d, timerSeq + 1)) @@ procs
       \/ UNCHANGED <<armed, procs>>

\* Mutant: no check for a procedure already ongoing.
CreateMbmsProcedureNoCheck(s, d) ==
    /\ crash = "none"
    /\ IF d = NULL_DURATION
       THEN crash' = "null_duration" /\ UNCHANGED <<procs, armed, timerSeq>>
       ELSE ArmProcedureTimer(s, d) /\ UNCHANGED crash
    /\ UNCHANGED mceAppMailbox

\* mce_app_create_mbms_procedure: NULL when the service already has a
\* procedure.  A stop procedure (no duration) sets the stop trigger, but the
\* timer_setup call then reads mbms_session_duration->seconds through the
\* NULL pointer (or, with no absolute start time, the DevAssert fails first):
\* the process dies.
CreateMbmsProcedure(s, d) ==
    /\ crash = "none"
    /\ s \notin DOMAIN procs
    /\ IF d = NULL_DURATION
       THEN crash' = "null_duration" /\ UNCHANGED <<procs, armed, timerSeq>>
       ELSE ArmProcedureTimer(s, d) /\ UNCHANGED crash
    /\ UNCHANGED mceAppMailbox

\* The body of mce_app_delete_mbms_procedure for a service that holds a
\* procedure: timer_remove of an active timer id (which fails, leaving the
\* armed set as it is, when the timer already fired), then the free.
FreeProcedure(s) ==
    /\ armed' = {t \in armed : t.id # procs[s].timer}
    /\ procs' = [k \in DOMAIN procs \ {s} |-> procs[k]]

\* A handler calls mce_app_delete_mbms_procedure; it returns at once when the
\* service holds no procedure.
DeleteMbmsProcedure(s) ==
    /\ crash = "none"
    /\ s \in DOMAIN procs
    /\ FreeProcedure(s)
    /\ UNCHANGED <<mceAppMailbox, timerSeq, crash>>

\* The timer library: an armed one-shot timer fires and its expiry, with
\* the timer id and the argument, is queued for TASK_MCE_APP.
TimerExpires(t) ==
    /\ crash = "none"
    /\ t \in armed
    /\ armed' = armed \ {t}
    /\ mceAppMailbox' = Append(mceAppMailbox, t)
    /\ UNCHANGED <<procs, timerSeq, crash>>

\* MCE_APP takes the oldest expiry.  It finds the service by the argument;
\* if the service holds a procedure, the handler either ends it through
\* mce_app_delete_mbms_procedure or keeps it.
MceAppTimerHasExpired ==
    /\ crash = "none"
    /\ mceAppMailbox # <<>>
    /\ mceAppMailbox' = Tail(mceAppMailbox)
    /\ LET s == Head(mceAppMailbox).arg
       IN \/ s \in DOMAIN procs /\ FreeProcedure(s)
          \/ UNCHANGED <<procs, armed>>
    /\ UNCHANGED <<timerSeq, crash>>

ProcNext ==
    \/ \E s \in Services, d \in SessionDurations : CreateMbmsProcedure(s, d)
    \/ \E s \in Services : DeleteMbmsProcedure(s)
    \/ \E t \in armed : TimerExpires(t)
    \/ MceAppTimerHasExpired

(***************************************************************************)
(* Properties.                                                             *)
(***************************************************************************)

\* Every armed timer belongs to the procedure its argument names: that
\* service holds a procedure and the procedure's timer id is this timer.
\* Broken when a timer outlives the procedure that armed it (a delete that
\* skips timer_remove, or a second create that replaces a procedure whose
\* timer is still running): the timer would later wake MCE_APP for a
\* procedure that no longer exists, or for another one.
TimerBelongsToProcedure ==
    \A t \in armed : t.arg \in DOMAIN procs /\ procs[t.arg].timer = t.id
============================================================================
