----------------------------- MODULE MC_M2apMce -----------------------------
(* Constants of M2apMce for TLC. *)
EXTENDS M2apMce

\* Association ids: the kernel's ids and the MCE MBMS M2AP ids 1, 2, ...
\* both start small, so one association id is also a session id, and one
\* is beyond the 2-bit ids of the model.
MC_Assocs == {1, 10}
MC_Sais == {100}
MC_Tmgis == {"tmgi1"}
MC_TmgiAsId == [t \in MC_Tmgis |-> 1]
============================================================================
