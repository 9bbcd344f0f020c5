---------------------------- MODULE TaskDelivery ----------------------------
(***************************************************************************)
(* What the inter-task message bus promises a task of the MCE: a request   *)
(* addressed to the task whose loop handles it is queued for that task and *)
(* handled by it, once, in the order the requests were issued, and every   *)
(* queued request is eventually handled (the task blocks only on an empty  *)
(* mailbox).  MCE_APP relies on this when it forwards MBMS session         *)
(* requests to TASK_M2AP and TASK_M3AP.                                    *)
(***************************************************************************)
EXTENDS Sequences

CONSTANTS
    Tasks,       \* the tasks whose requests are tracked
    Requests,    \* the requests that can be issued
    Owner(_)     \* the task that handles a request

VARIABLES pending, handled

vars == <<pending, handled>>

Init == /\ pending = [t \in Tasks |-> <<>>]
        /\ handled = [t \in Tasks |-> <<>>]

\* A request for task Owner(r) is issued.
Issue(r) == /\ Owner(r) \in Tasks
            /\ pending' = [pending EXCEPT ![Owner(r)] = Append(@, r)]
            /\ UNCHANGED handled

\* Task t handles the oldest request issued for it.
Deliver(t) == /\ pending[t] # <<>>
              /\ handled' = [handled EXCEPT ![t] = Append(@, Head(pending[t]))]
              /\ pending' = [pending EXCEPT ![t] = Tail(@)]

Next == (\E r \in Requests : Issue(r)) \/ (\E t \in Tasks : Deliver(t))

Spec == Init /\ [][Next]_vars /\ \A t \in Tasks : WF_vars(Deliver(t))
============================================================================
