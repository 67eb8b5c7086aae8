---------------------------- MODULE MCLiveBetting ----------------------------
(* Small sets of actions and roles for TLC.                                *)
EXTENDS LiveBettingVerdicts, TLC
CONSTANTS a1, a2

OneAction == {a1}
TwoActions == {a1, a2}
Symmetry == Permutations(Actions)
Recovering == {"exec", "loop"}
Unattended == {"exec", "hedge"}
Attended == {"exec", "operate", "loop"}
Automatic == {"exec", "hedge", "loop"}
Alone == {"exec"}
Reconciled == {"exec", "loop", "manual"}
Everyone == Automatic \cup Attended \cup Reconciled
=============================================================================
