------------------------- MODULE MCRecurringSchedule -------------------------
(* Two instances; intervals of two seconds, of a second and a half and of  *)
(* half a second, with a backend or without, and a cron entry whose slots  *)
(* and lock are both the model's minute of two seconds.                    *)
EXTENDS RecurringSchedule, TLC

CONSTANTS i1, i2

MCInstances == {i1, i2}
MCSymmetry == Permutations(MCInstances)

MCInterval(e, cron, first, live, shared) ==
    [every |-> e, cron |-> cron, onStartup |-> first, live |-> live, shared |-> shared]

MCSetups == {MCInterval(4, FALSE, FALSE, FALSE, TRUE),
             MCInterval(3, FALSE, TRUE, FALSE, TRUE),
             MCInterval(1, FALSE, FALSE, TRUE, TRUE),
             MCInterval(4, TRUE, FALSE, FALSE, TRUE),
             MCInterval(3, FALSE, FALSE, FALSE, FALSE)}
=============================================================================
