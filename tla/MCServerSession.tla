-------------------------- MODULE MCServerSession --------------------------
(* One account, two concurrent sessions that serve request after request.   *)
EXTENDS ServerSession, TLC
Symmetry == Permutations(Sessions) \cup Permutations(Passwords)
=============================================================================
