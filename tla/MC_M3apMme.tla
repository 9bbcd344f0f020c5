---------------------------- MODULE MC_M3apMme ----------------------------
(* Model-checking instance of M3apMme: three associations, the two SCTP   *)
(* streams the handlers tell apart, one TMGI and one service area, ids of *)
(* one bit (the id generator never moves in any run: no session is       *)
(* created), and the peer limit of the cfg.                               *)
EXTENDS M3apMme

MC_Assocs == {1, 2, 3}
MC_Streams == {0, 1}
MC_Tmgis == {"tmgi1"}
MC_Sais == {100}
MC_TmgiAsId == [t \in MC_Tmgis |-> 1]
====
