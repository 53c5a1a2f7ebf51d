--------------------------- MODULE MCPopupProtection ---------------------------
(* PopupProtection for TLC.                                                    *)
EXTENDS PopupProtection, TLC

(* Popups are alike and so are hooks; no run of this module checks liveness.   *)
Symmetry == Permutations(Popups) \cup Permutations(Hooks)
===============================================================================
