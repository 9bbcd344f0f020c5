CONSTANTS
    MaxSends = 3
    Services = {1}
    SessionDurations = {3, 10}
    NULL_DURATION = NULL_DURATION
    mbms_short_idle_session_duration_in_sec = 5
    MaxTimers = 2
SPECIFICATION Spec
\* Once MCE_APP has issued its requests and both tasks have drained their
\* mailboxes, every task is blocked in itti_receive_msg: the system idles.
CHECK_DEADLOCK FALSE
INVARIANT TimerBelongsToProcedure
PROPERTY M3RequestsDelivered
