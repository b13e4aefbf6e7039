--------------------------- MODULE SceneCatalogue ---------------------------
(***************************************************************************)
(* What a user of GET /scenes may count on, for the names whose uploads    *)
(* nobody else can overwrite: a listed name stands for one scene file,     *)
(* which does not change as long as the name is listed.  The catalogue is  *)
(* kept in memory: it may be forgotten, as a whole.                        *)
(***************************************************************************)
CONSTANTS Names, Data, NoData

VARIABLE entries

Init == entries = [n \in Names |-> NoData]

Add(n, data) ==
    /\ entries[n] = NoData
    /\ entries' = [entries EXCEPT ![n] = data]

Forget == entries' = [n \in Names |-> NoData]

Next == Forget \/ \E n \in Names, data \in Data : Add(n, data)

Spec == Init /\ [][Next]_entries
=============================================================================
