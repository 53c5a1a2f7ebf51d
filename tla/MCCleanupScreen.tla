--------------------------- MODULE MCCleanupScreen ---------------------------
(* CleanupScreen for TLC: a merged worktree that is open in herdr, and one on  *)
(* disk only whose upstream is gone; nothing is unpushed or uncommitted yet.   *)
EXTENDS CleanupScreen

Finished == [there |-> TRUE, head |-> 1, pushed |-> 1, landed |-> 1, lost |-> FALSE,
             dirty |-> FALSE, agent |-> "resting"]
Left == [Finished EXCEPT !.landed = 0, !.lost = TRUE, !.agent = "closed"]

TwoTrees == <<Finished, Left>>
OneTree == <<Finished>>
===============================================================================
