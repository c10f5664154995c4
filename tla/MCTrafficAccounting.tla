------------------------ MODULE MCTrafficAccounting -------------------------
(* The instance TLC checks.  Ports are interchangeable and each belongs to  *)
(* one machine, so every hop may as well start on the same one.             *)
EXTENDS TrafficAccounting

AlikeInit == Init /\ \A h, k \in Hops : listen[h] = listen[k]

AlikeSpec == AlikeInit /\ [][Next]_vars /\ Fairness
=============================================================================
