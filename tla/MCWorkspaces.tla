---------------------------- MODULE MCWorkspaces ----------------------------
(* An instance of Workspaces for TLC: no workspace yet, or one with an ADMIN *)
(* and a project, and room for more. A behaviour keeps to requests of one of  *)
(* three menus, which meet in the removal of a workspace; the second user is  *)
(* to be invited, or a MEMBER already.                                        *)
EXTENDS Workspaces, TLC

CONSTANTS w1, s1, u1, x1

VARIABLE menu

AllFaults == {"redis", "queue", "crash"}
AnyOrder == Permutations(Reqs)

Menus == {{"create", "bySlug", "byId", "remove"},
          {"byId", "update", "remove", "invite"},
          {"list", "add", "edit", "drop", "remove"}}

OnMenu == \A p \in Reqs : req'[p].op \in menu \cup {"none"}

\* Where workspaces are created there is none yet.
MCInit ==
  /\ menu \in Menus
  /\ slugOf = [w \in Ids |-> IF w = w1 /\ "create" \notin menu THEN s1 ELSE Free]
  /\ role = [w \in Ids |-> [u \in Users |->
               IF slugOf[w] = Free THEN "none" ELSE IF u = u1 THEN "ADMIN"
               ELSE IF "list" \in menu THEN "MEMBER" ELSE "none"]]
  /\ projectOf = [x \in Projects |-> IF x = x1 /\ slugOf[w1] # Free THEN w1 ELSE Free]
  /\ Init
MCNext == Next /\ UNCHANGED menu /\ OnMenu
MCSpec == MCInit /\ [][MCNext]_<<vars, menu>>
=============================================================================
