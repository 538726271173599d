----------------------------- MODULE MCDelivery -----------------------------
(* An instance of Delivery for TLC: the first user comments, on a task of any *)
(* creator, unassigned or assigned to the second user.                        *)
EXTENDS Delivery, TLC

CONSTANTS u1, u2

AllFaults == {"database", "queue", "stall", "removal"}

MCInit == /\ Init
          /\ people.author = [c \in Reqs |-> u1] /\ people.assignedTo \in {None, u2}
MCSpec == MCInit /\ [][Next]_vars /\ Fairness
=============================================================================
