--------------------------- MODULE MCTaskRegistry ---------------------------
(* Tasks are interchangeable: it is enough to see them created in one      *)
(* order.  Unlike a SYMMETRY this is sound for liveness as well.           *)
EXTENDS TaskRegistry, TLC

CONSTANTS t1, t2, t3
MCRank == t1 :> 1 @@ t2 :> 2 @@ t3 :> 3

InOrder == \A t, s \in Tasks :
             MCRank[s] < MCRank[t] /\ create[s] = "new" => create'[t] = create[t]

\* bounds: the last of them comes when those before it may be over, only the first one fails,
\* and clients ask for the first two
LastIsLate == create'[t3] # create[t3] => now = LastTick - Ttl
FirstFails == \A t \in Tasks \ {t1} : result'[t] # "error"
EarlyAsked == \A c \in Clients : poll'[c].task # t3

MCSpec == Init /\ [][Next /\ InOrder /\ LastIsLate /\ FirstFails /\ EarlyAsked]_vars /\ Fairness
=============================================================================
