------------------------------- MODULE MCAuth -------------------------------
(* Instances of Auth for TLC. The sessions and the account meet only where a *)
(* login compares the password, so an instance serves the requests of one of *)
(* two menus, which a behaviour keeps to.                                    *)
EXTENDS Auth, TLC

VARIABLE menu

AllFaults == {"queue", "crash"}
AnyOrder == Permutations(Reqs)

Menus == {{"signup", "login"} \cup AccountOps,
          {"signup", "login"} \cup SessionOps}

OnMenu == \A p \in Reqs : req'[p].op \in menu \cup {"none"}

MCInit == Init /\ menu \in Menus
MCNext == Next /\ UNCHANGED menu /\ OnMenu
MCSpec == MCInit /\ [][MCNext]_<<vars, menu>>
=============================================================================
