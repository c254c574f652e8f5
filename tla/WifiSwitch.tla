----------------------------- MODULE WifiSwitch -----------------------------
(***************************************************************************)
(* What a Wi-Fi change promises, without journal, file, lock or service.   *)
(*                                                                         *)
(* There is one configuration in force, "settled": the one the board ends  *)
(* up with when everything pending has been resolved.  Only a commit       *)
(* replaces it.  A commit is tentative until it is acknowledged: a power   *)
(* loss may take it back, so "possible" holds every configuration that may *)
(* be in force afterwards.  An acknowledged commit is never taken back.    *)
(***************************************************************************)
CONSTANTS Files, Ops

VARIABLES settled, possible, outcome

Init ==
  /\ settled \in Files
  /\ possible = {settled}
  /\ outcome = [o \in Ops |-> "open"]

Commit(o) ==
  /\ outcome[o] = "open"
  /\ settled' \in Files
  /\ possible' = possible \cup {settled'}
  /\ UNCHANGED outcome

\* The owner learns that its commit is durable.
Acknowledge(o) ==
  /\ outcome[o] = "open"
  /\ outcome' = [outcome EXCEPT ![o] = "committed"]
  /\ possible' = {settled}
  /\ UNCHANGED settled

\* The change ends without an acknowledged commit.
End(o, how) ==
  /\ outcome[o] = "open"
  /\ outcome' = [outcome EXCEPT ![o] = how]
  /\ possible' \in {possible, {settled}}
  /\ UNCHANGED settled

\* Whatever was tentative becomes durable.
Flush ==
  /\ possible' = {settled}
  /\ UNCHANGED <<settled, outcome>>

PowerLoss ==
  /\ settled' \in possible
  /\ possible' = {settled'}
  /\ \E lost \in SUBSET {o \in Ops : outcome[o] = "open"} :
       outcome' = [o \in Ops |-> IF o \in lost THEN "unknown" ELSE outcome[o]]

Next ==
  \/ \E o \in Ops : \/ Commit(o)
                    \/ Acknowledge(o)
                    \/ \E how \in {"rolledBack", "unknown"} : End(o, how)
  \/ Flush
  \/ PowerLoss

Spec == Init /\ [][Next]_<<settled, possible, outcome>>
=============================================================================
