------------------------------ MODULE MCSession ------------------------------
(* An instance of Session for TLC, from the first login on. *)
EXTENDS Session, TLC

CONSTANTS t1, u1

MCInit ==
  /\ owner = <<u1>> /\ active = {1} /\ alarm = FALSE
  /\ storage = [access |-> 1, refresh |-> 1, user |-> u1]
  /\ store = [i \in Tabs |-> IF i = t1 THEN [token |-> 1, user |-> u1] ELSE LoggedOut]
  /\ refresh = [i \in Tabs |-> NoRefresh] /\ req = [i \in Tabs |-> NoReqs]
  /\ excuses = {} /\ faults = 0

MCSpec == MCInit /\ [][Next]_vars /\ Fairness
=============================================================================
