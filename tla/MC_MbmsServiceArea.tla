------------------------- MODULE MC_MbmsServiceArea -------------------------
EXTENDS MbmsServiceArea, TLC

CONSTANTS e1, e2, home, visited

MC_Enbs == {e1, e2}
MC_Plmns == {home, visited}
MC_AdvertisedLists == {<<1>>, <<2>>, <<0, 2>>, <<3, 2>>, <<5>>, <<2, 1>>,
                       [i \in 1 .. 9 |-> 1]}
MC_RequestLists == {<<2>>, <<0, 1>>, <<4, 1>>, <<3>>}
Symm == Permutations(MC_Enbs)
============================================================================
