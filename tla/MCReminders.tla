---------------------------- MODULE MCReminders ----------------------------
(* Instances of Reminders for TLC. *)
EXTENDS Reminders, TLC

CONSTANTS t1, t2, s1, s2, k1, k2

Due(d) == [due |-> d, open |-> TRUE, assigned |-> TRUE, deleted |-> FALSE]

\* The code's 24, 12, 6 and 1 hours, scaled: two milestones whose windows are
\* disjoint, and one hour.
MCMilestones == <<3, 1>>

\* Moving the due date, completing, unassigning, deleting.
MCVersions == {Due(3), Due(4), [Due(3) EXCEPT !.open = FALSE],
               [Due(3) EXCEPT !.assigned = FALSE], [Due(3) EXCEPT !.deleted = TRUE]}
WorkVersions == {Due(3), [Due(3) EXCEPT !.open = FALSE], [Due(3) EXCEPT !.deleted = TRUE]}
OneTask  == [t \in {t1} |-> Due(3)]
TwoTasks == [t \in {t1, t2} |-> Due(3)]

AllFaults == {"enqueue", "notify", "scanCrash", "workerCrash"}

Symmetry == Permutations(Scans) \cup Permutations(Workers)
============================================================================
