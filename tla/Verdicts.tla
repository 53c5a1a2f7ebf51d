------------------------------- MODULE Verdicts -------------------------------
(* What the cleanup screen may offer for removal: the pure function Assess     *)
(* from the facts known of a worktree to a verdict.  The wording of the        *)
(* description column is left out.                                             *)
EXTENDS Naturals

(* A fact that could not be found out is marked as unknown; what its value     *)
(* field holds then means nothing.                                             *)
Facts == [isMain : BOOLEAN, locked : BOOLEAN, prunable : BOOLEAN, agentWorking : BOOLEAN,
          untouched : BOOLEAN, untouchedKnown : BOOLEAN,
          gone : BOOLEAN, goneKnown : BOOLEAN,
          merged : BOOLEAN,
          ahead : Nat, countsKnown : BOOLEAN,
          catchup : {"unknown", "clean", "conflict"}]

Blocked(f) == f.isMain \/ f.locked \/ f.prunable \/ f.agentWorking

Gone(f) == f.goneKnown /\ f.gone
GoneAndPushed(f) == Gone(f) /\ f.countsKnown /\ f.ahead = 0
GoneAndUnsure(f) == Gone(f) /\ (~f.countsKnown \/ f.ahead > 0)
Clean(f) == f.untouchedKnown /\ f.untouched

Assess(f) ==
    IF Blocked(f) THEN "blocked"
    ELSE IF Clean(f) /\ (f.merged \/ GoneAndPushed(f)) THEN "safe"
    ELSE IF ~Clean(f) \/ f.catchup = "conflict" \/ GoneAndUnsure(f) THEN "review"
    ELSE "keep"

-------------------------------------------------------------------------------
(* g is what may really be the case when only f is known.                      *)
MayBe(g, f) ==
    /\ \A field \in {"isMain", "locked", "prunable", "agentWorking", "merged"} :
         g[field] = f[field]
    /\ f.untouchedKnown => g.untouched = f.untouched
    /\ f.goneKnown => g.gone = f.gone
    /\ f.countsKnown => g.ahead = f.ahead
    /\ g.untouchedKnown /\ g.goneKnown /\ g.countsKnown

(* What is not known never speaks for a removal: a worktree that comes out     *)
(* safe would do so whatever the unknown facts turned out to be (the comment   *)
(* on Facts, verdict.go:60-62).                                                *)
UnknownNeverSafe(facts) ==
    \A f, g \in facts : MayBe(g, f) /\ Assess(f) = "safe" => Assess(g) = "safe"

(* What comes out safe has nothing to lose: no agent, no files, no commits     *)
(* that are not in some branch of the remote.                                  *)
SafeLosesNothing(facts) ==
    \A f \in facts : Assess(f) = "safe" =>
      ~f.agentWorking /\ f.untouched /\ (f.merged \/ f.ahead = 0)
===============================================================================
