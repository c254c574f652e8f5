------------------------- MODULE MCSecurityMonitor -------------------------
(* Small thresholds, and clock samples that may be several seconds old.     *)
EXTENDS SecurityMonitor
MCLadder == <<1, 2, 3>>
MCOff    == -1
Symmetry == Permutations(Threads)
=============================================================================
