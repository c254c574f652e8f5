--------------------------- MODULE MCWifiConnect ---------------------------
(* Bounds for model-checking WifiConnect: two windows are interchangeable.  *)
EXTENDS WifiConnect, TLC

Symmetry == Permutations(Windows)
=============================================================================
