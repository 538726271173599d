----------------------------- MODULE MCBrowser -----------------------------
(* An instance of Browser for TLC: of two tasks the first exists. *)
EXTENDS Browser, TLC

CONSTANTS t1, t2, n1

MCInit == version = (t1 :> 1 @@ t2 :> 0) /\ Init
MCSpec == MCInit /\ [][Next]_vars /\ Fairness
=============================================================================
