------------------------------- MODULE WifiRpc -------------------------------
(***************************************************************************)
(* The root helper of server/src/wifi_change_helper.cpp: one thread that   *)
(* alternates WifiRpc::tick and WifiRpc::handle (common/src/wifi_rpc.cpp)  *)
(* over at most one WifiSession (common/src/wifi_session.cpp).             *)
(*                                                                         *)
(* What happens inside a change is the subject of WifiRecovery; here a     *)
(* WifiChange is its state and the results its calls may have.  A ticket   *)
(* is named by the window whose start request created it.                  *)
(***************************************************************************)
EXTENDS Naturals, Sequences

CONSTANTS
  Windows,   \* connection windows of the administration program
  NoWindow   \* owner of no session

ASSUME WindowsAssumption == NoWindow \notin Windows

VARIABLES
  session,   \* session_: its owner, the WifiChangeState, whether ticket_ is set
  fate       \* what became of the change each window asked for

helperVars == <<session, fate>>

Actions      == {"Start", "Status", "Confirm", "Cancel"}
ChangeStates == {"Idle", "Connecting", "AwaitingConfirmation", "Committed",
                 "RolledBack", "RecoveryRequired"}
Fates        == {"none", "pending", "committed", "rolledBack", "unknown"}

NoSession == [owner |-> NoWindow, state |-> "Idle", ticket |-> FALSE]

pending(state) == state \in {"Connecting", "AwaitingConfirmation"}
finished       == session.state \in {"Committed", "RolledBack"}

\* Wrong on purpose: any well-formed ticket opens the session.
authorized_AnyTicket(w) == session.ticket

\* Does the ticket of window w open the session?
authorized(w) == session.ticket /\ session.owner = w

\* tick() while the change is pending re-reads the link or reverts.
TickResults(state) ==
  IF pending(state) THEN {"Connecting", "AwaitingConfirmation", "RolledBack",
                          "RecoveryRequired"}
                    ELSE {state}

RevertResults == {"RolledBack", "RecoveryRequired"}

FateOf(state) ==
  CASE pending(state)             -> "pending"
    [] state = "Committed"        -> "committed"
    [] state = "RolledBack"       -> "rolledBack"
    [] state = "RecoveryRequired" -> "unknown"
    [] OTHER                      -> "none"

\* The change of the current session moves to a state.
Becomes(state) ==
  /\ session' = [session EXCEPT !.state = state]
  /\ fate'    = [fate EXCEPT ![session.owner] = FateOf(state)]

-----------------------------------------------------------------------------
(* WifiRpc::handle, one operator per request, with the reply it gives *)

\* Wrong on purpose: a new start replaces whatever session there is.
HandleStart_Replaces(w, reply) ==
  \E state \in {"Idle", "Connecting"} \cup RevertResults :
    /\ session' = [owner |-> w, state |-> state, ticket |-> state = "Connecting"]
    /\ fate'    = [fate EXCEPT ![w] = FateOf(state)]
    /\ reply    = IF state = "Connecting" THEN "Ticket" ELSE "RecoveryRequired"

\* A finished session is replaced.  A refused start leaves an Idle session, a
\* failed one a session that has already reverted; both answer the same word.
HandleStart(w, reply) ==
  \/ /\ session # NoSession /\ ~finished
     /\ reply = "Rejected"
     /\ UNCHANGED helperVars
  \/ /\ session = NoSession \/ finished
     /\ \E state \in {"Idle", "Connecting"} \cup RevertResults :
          /\ session' = [owner |-> w, state |-> state,
                         ticket |-> state = "Connecting"]
          /\ fate'    = [fate EXCEPT ![w] = FateOf(state)]
          /\ reply    = IF state = "Connecting" THEN "Ticket"
                                                ELSE "RecoveryRequired"

HandleStatus(w, reply) ==
  \/ ~authorized(w) /\ reply = "Error" /\ UNCHANGED helperVars
  \/ /\ authorized(w)
     /\ \E state \in TickResults(session.state) :
          Becomes(state) /\ reply = state

\* A repeated confirm of a committed change succeeds again; any other confirm
\* ticks first, commits only from AwaitingConfirmation and reverts on failure.
HandleConfirm(w, reply) ==
  \/ ~authorized(w) /\ reply = "Error" /\ UNCHANGED helperVars
  \/ /\ authorized(w)
     /\ session.state = "Committed"
     /\ reply = "Committed" /\ UNCHANGED helperVars
  \/ /\ authorized(w)
     /\ session.state # "Committed"
     /\ \E ticked \in TickResults(session.state) :
          \E state \in IF ticked = "AwaitingConfirmation"
                         THEN {"Committed"} \cup RevertResults
                         ELSE {ticked} :
            Becomes(state)
              /\ reply = IF state = "Committed" THEN "Committed" ELSE "Error"

\* Wrong on purpose: the answer does not depend on what cancel() found.
HandleCancel_Blind(w, reply) ==
  /\ authorized(w)
  /\ Becomes(IF pending(session.state) THEN "RolledBack" ELSE session.state)
  /\ reply = "RolledBack"

\* Only a pending change is reverted; the answer is the state it is in.
HandleCancel(w, reply) ==
  \/ ~authorized(w) /\ reply = "Error" /\ UNCHANGED helperVars
  \/ /\ authorized(w)
     /\ \E state \in IF pending(session.state) THEN RevertResults
                                               ELSE {session.state} :
          Becomes(state) /\ reply = state

handle(request, reply) ==
  \/ request.action = "Start"   /\ HandleStart(request.window, reply)
  \/ request.action = "Status"  /\ HandleStatus(request.window, reply)
  \/ request.action = "Confirm" /\ HandleConfirm(request.window, reply)
  \/ request.action = "Cancel"  /\ HandleCancel(request.window, reply)

Replies == ChangeStates \cup {"Ticket", "Rejected", "Error"}

-----------------------------------------------------------------------------

\* The loop's own tick, before the deadline.
HelperTick ==
  /\ pending(session.state)
  /\ \E state \in TickResults(session.state) : Becomes(state)

\* Wrong on purpose: the deadline is not looked at once the link is ready.
HelperTimeout_Connecting ==
  /\ session.state = "Connecting"
  /\ \E state \in RevertResults : Becomes(state)

\* The loop's own tick once the 90 seconds are over.
HelperTimeout ==
  /\ pending(session.state)
  /\ \E state \in RevertResults : Becomes(state)

\* What the recovery supervisor makes of a change that was pending.
Abandoned == [w \in Windows |->
                IF fate[w] = "pending" THEN "rolledBack" ELSE fate[w]]

\* The helper dies and systemd starts it again on the same socket; requests in
\* the accept queue stay there.
HelperDies ==
  /\ session # NoSession
  /\ session' = NoSession
  /\ fate'    = Abandoned

\* It dies while it handles a request: an interrupted start has changed nothing
\* or is rolled back, an interrupted commit may already be durable.
HelperDiesInside(request) ==
  /\ session' = NoSession
  /\ \/ fate' = Abandoned
     \/ /\ request.action = "Confirm"
        /\ authorized(request.window) /\ pending(session.state)
        /\ fate' = [fate EXCEPT ![request.window] = "committed"]
     \/ /\ request.action = "Start"
        /\ session = NoSession \/ finished
        /\ fate' = [fate EXCEPT ![request.window] = "rolledBack"]
=============================================================================
