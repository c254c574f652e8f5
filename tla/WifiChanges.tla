---------------------------- MODULE WifiChanges ----------------------------
(***************************************************************************)
(* What the administrators who ask for Wi-Fi changes are promised, without *)
(* sockets, queues, sessions or tickets.                                   *)
(*                                                                         *)
(* Each of them has one change.  It begins at most once, only when no      *)
(* other one is pending, and it ends once for all: committed, rolled back, *)
(* or in a state that only the recovery of the board can tell.             *)
(***************************************************************************)
CONSTANT Windows

VARIABLE fate

Init == fate = [w \in Windows |-> "none"]

\* A change that fails on the way has ended as soon as it began.
Begin(w, state) ==
  /\ \A v \in Windows : fate[v] # "pending"
  /\ fate[w] = "none"
  /\ fate' = [fate EXCEPT ![w] = state]

End(w, state) ==
  /\ fate[w] = "pending"
  /\ fate' = [fate EXCEPT ![w] = state]

Next ==
  \E w \in Windows :
    \/ \E state \in {"pending", "rolledBack", "unknown"} : Begin(w, state)
    \/ \E state \in {"committed", "rolledBack", "unknown"} : End(w, state)

Spec == Init /\ [][Next]_fate
=============================================================================
