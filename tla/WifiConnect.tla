----------------------------- MODULE WifiConnect -----------------------------
(***************************************************************************)
(* The path of a Wi-Fi change from the administrator to the helper: the    *)
(* WifiConnectDialog (admin/src/wifi_connect_dialog.cpp) with the request  *)
(* function AdminWindow::onNetworkStatus gives it, the admin_wifi_change   *)
(* handler of the server (server/src/main.cpp), the local socket           *)
(* (server/src/wifi_change_ipc.cpp) and WifiRpc.                           *)
(*                                                                         *)
(* Each window has at most one call outstanding.  A call can be refused    *)
(* locally, rejected by the server, lost on the way there, lost on the way *)
(* back, or given up after 30 seconds while the request still waits in the *)
(* helper's accept queue and will be executed later.                       *)
(***************************************************************************)
EXTENDS WifiRpc

CONSTANT Backlog  \* length of the helper's accept queue

ASSUME BacklogAssumption == Backlog \in Nat \ {0}

VARIABLES
  queue,     \* requests in the accept queue of the helper's socket
  open,      \* the window has not been closed
  call,      \* the outstanding call (state->pending) and how far it got
  reply,     \* what the worker thread left for the poll timer
  ticket,    \* the window holds a ticket
  active,    \* active_
  enabled,   \* enabled buttons
  refresh,   \* the refresh timer runs
  shown      \* the outcome the window displays

uiVars   == <<active, enabled, refresh, shown>>
vars     == <<queue, helperVars, open, call, reply, ticket, uiVars>>

NoCall   == [action |-> "None", stage |-> "idle"]
Calls    == [action : Actions \cup {"None"},
             stage : {"idle", "sending", "queued", "done"}]
Requests == [window : Windows, action : Actions, awaited : BOOLEAN]
Shown    == ChangeStates \cup {"Rejected", "Nothing", "NoAnswer"}

Init ==
  /\ queue   = <<>>
  /\ session = NoSession
  /\ fate    = [w \in Windows |-> "none"]
  /\ open    = [w \in Windows |-> TRUE]
  /\ call    = [w \in Windows |-> NoCall]
  /\ reply   = [w \in Windows |-> "Lost"]
  /\ ticket  = [w \in Windows |-> FALSE]
  /\ active  = [w \in Windows |-> FALSE]
  /\ enabled = [w \in Windows |-> {"Start"}]
  /\ refresh = [w \in Windows |-> FALSE]
  /\ shown   = [w \in Windows |-> "Nothing"]

-----------------------------------------------------------------------------
(* WifiConnectDialog *)

\* The send lambda: one call at a time, Confirm and Cancel disabled meanwhile.
send(w, action, buttons) ==
  /\ open[w]
  /\ call[w] = NoCall
  /\ call'    = [call EXCEPT ![w] = [action |-> action, stage |-> "sending"]]
  /\ enabled' = [enabled EXCEPT ![w] = buttons \ {"Confirm", "Cancel"}]
  /\ UNCHANGED <<queue, helperVars, open, reply, ticket, refresh, shown>>

ClickStart(w) ==
  /\ "Start" \in enabled[w]
  /\ active' = [active EXCEPT ![w] = TRUE]
  /\ send(w, "Start", {})

Click(w, action) ==
  /\ action \in enabled[w] \cap {"Confirm", "Cancel"}
  /\ send(w, action, enabled[w])
  /\ UNCHANGED active

RefreshTimer(w) ==
  /\ refresh[w]
  /\ send(w, "Status", enabled[w])
  /\ UNCHANGED active

\* What the poll timer does with the reply of a finished call.
Displays(w, state) ==
  LET goesOn == active[w] /\ state \notin {"Committed", "RolledBack", "Rejected"}
  IN  /\ active'  = [active EXCEPT ![w] = goesOn]
      /\ enabled' = [enabled EXCEPT ![w] =
                       (IF state = "AwaitingConfirmation" THEN {"Confirm"} ELSE {})
                         \cup (IF goesOn THEN {"Cancel"} ELSE {})]
      /\ refresh' = [refresh EXCEPT ![w] = goesOn]
      /\ shown'   = [shown EXCEPT ![w] = state]

\* Wrong on purpose: a start that was not answered can be repeated.
DisplaysNoAnswer_Retry(w) ==
  /\ enabled' = [enabled EXCEPT ![w] = @ \cup {"Start", "Cancel"}]
  /\ refresh' = [refresh EXCEPT ![w] = TRUE]
  /\ shown'   = [shown EXCEPT ![w] = "NoAnswer"]
  /\ UNCHANGED active

\* Without an answer the outcome is unknown: keep asking.
DisplaysNoAnswer(w) ==
  /\ enabled' = [enabled EXCEPT ![w] = @ \cup {"Cancel"}]
  /\ refresh' = [refresh EXCEPT ![w] = TRUE]
  /\ shown'   = [shown EXCEPT ![w] = "NoAnswer"]
  /\ UNCHANGED active

PollTimer(w) ==
  /\ open[w]
  /\ call[w].stage = "done"
  /\ call' = [call EXCEPT ![w] = NoCall]
  /\ IF reply[w] = "Lost" THEN DisplaysNoAnswer(w) ELSE Displays(w, reply[w])
  /\ UNCHANGED <<queue, helperVars, open, reply, ticket>>

\* Closing the window leaves its worker thread and the operation alone.
Close(w) ==
  /\ open[w]
  /\ open' = [open EXCEPT ![w] = FALSE]
  /\ UNCHANGED <<queue, helperVars, call, reply, ticket, uiVars>>

-----------------------------------------------------------------------------
(* The request function, the server and the socket *)

\* The worker thread is done with its call.
Finish(w, answer) ==
  /\ call'  = [call EXCEPT ![w].stage = "done"]
  /\ reply' = [reply EXCEPT ![w] = answer]

\* Only a start may be sent without a ticket.
MaySend(w) == call[w].action = "Start" \/ ticket[w]

\* The call ends before the helper sees it: refused by the request function, no
\* connection to the server, or the helper's socket does not accept it.
CallLost(w) ==
  /\ call[w].stage = "sending"
  /\ Finish(w, "Lost")
  /\ UNCHANGED <<queue, helperVars, open, ticket, uiVars>>

\* The server refuses the token, the configuration or the network path; the
\* request function reports that as Rejected whatever the action was.
ServerRejects(w) ==
  /\ call[w].stage = "sending"
  /\ MaySend(w)
  /\ Finish(w, "Rejected")
  /\ UNCHANGED <<queue, helperVars, open, ticket, uiVars>>

\* Wrong on purpose: requests are queued without limit.
request_wifi_change_Unbounded(w) ==
  /\ call[w].stage = "sending"
  /\ MaySend(w)
  /\ call'  = [call EXCEPT ![w].stage = "queued"]
  /\ queue' = Append(queue, [window |-> w, action |-> call[w].action,
                             awaited |-> TRUE])
  /\ UNCHANGED <<helperVars, open, reply, ticket, uiVars>>

\* The server passes the packet on to the helper's socket.
request_wifi_change(w) ==
  /\ call[w].stage = "sending"
  /\ MaySend(w)
  /\ Len(queue) < Backlog
  /\ call'  = [call EXCEPT ![w].stage = "queued"]
  /\ queue' = Append(queue, [window |-> w, action |-> call[w].action,
                             awaited |-> TRUE])
  /\ UNCHANGED <<helperVars, open, reply, ticket, uiVars>>

\* 30 seconds without an answer, or the connection breaks: the request stays.
GivesUp(w) ==
  /\ call[w].stage = "queued"
  /\ Finish(w, "Lost")
  /\ queue' = [i \in DOMAIN queue |->
                 IF queue[i].window = w THEN [queue[i] EXCEPT !.awaited = FALSE]
                                        ELSE queue[i]]
  /\ UNCHANGED <<helperVars, open, ticket, uiVars>>

\* The window learns the answer, and its ticket with the answer to a start.
Answer(w, answer) ==
  /\ Finish(w, CASE answer = "Ticket" -> "Connecting"
                 [] answer = "Error"  -> "Lost"
                 [] OTHER             -> answer)
  /\ ticket' = [ticket EXCEPT ![w] = @ \/ answer = "Ticket"]

\* serve_wifi_change_packet: handle one request, answered if still awaited.
Serve ==
  /\ queue # <<>>
  /\ queue' = Tail(queue)
  /\ \E answer \in Replies :
       /\ handle(Head(queue), answer)
       /\ IF Head(queue).awaited THEN Answer(Head(queue).window, answer)
                                 ELSE UNCHANGED <<call, reply, ticket>>
  /\ UNCHANGED <<open, uiVars>>

Tick ==
  /\ HelperTick \/ HelperTimeout
  /\ UNCHANGED <<queue, open, call, reply, ticket, uiVars>>

Dies ==
  /\ HelperDies
  /\ UNCHANGED <<queue, open, call, reply, ticket, uiVars>>

\* The connection of the interrupted request closes without an answer.
DiesInside ==
  /\ queue # <<>>
  /\ HelperDiesInside(Head(queue))
  /\ queue' = Tail(queue)
  /\ IF Head(queue).awaited THEN Finish(Head(queue).window, "Lost")
                            ELSE UNCHANGED <<call, reply>>
  /\ UNCHANGED <<open, ticket, uiVars>>

-----------------------------------------------------------------------------

Next ==
  \/ \E w \in Windows : \/ ClickStart(w)
                        \/ Click(w, "Confirm")
                        \/ Click(w, "Cancel")
                        \/ RefreshTimer(w)
                        \/ PollTimer(w)
                        \/ Close(w)
                        \/ CallLost(w)
                        \/ ServerRejects(w)
                        \/ request_wifi_change(w)
                        \/ GivesUp(w)
  \/ Serve
  \/ Tick
  \/ Dies
  \/ DiesInside

Spec == Init /\ [][Next]_vars

\* The helper's loop ticks every 250 ms and the deadline passes: in the end a
\* tick of a pending session is one after the deadline.
FairSpec == Spec /\ WF_vars(Tick /\ HelperTimeout)

-----------------------------------------------------------------------------

\* Every variable keeps its type.
TypeOK ==
  /\ queue \in Seq(Requests) /\ Len(queue) <= Backlog
  /\ session \in [owner : Windows \cup {NoWindow}, state : ChangeStates,
                  ticket : BOOLEAN]
  /\ fate \in [Windows -> Fates]
  /\ open \in [Windows -> BOOLEAN]
  /\ call \in [Windows -> Calls]
  /\ reply \in [Windows -> ChangeStates \cup {"Rejected", "Lost"}]
  /\ ticket \in [Windows -> BOOLEAN]
  /\ active \in [Windows -> BOOLEAN]
  /\ enabled \in [Windows -> SUBSET Actions]
  /\ refresh \in [Windows -> BOOLEAN]
  /\ shown \in [Windows -> Shown]

\* A pending change is never left without the session that will revert it: a
\* start, however late it is executed, replaces finished sessions only.
PendingHasSession ==
  \A w \in Windows : fate[w] = "pending" =>
    session.owner = w /\ pending(session.state)

\* A change whose start was answered too late, or not at all, is never
\* committed: without the ticket nothing can confirm it.
CommitNeedsTicket == \A w \in Windows : fate[w] = "committed" => ticket[w]

\* A change is committed only while the helper executes a confirm request of the
\* window that started it, and that window has the ticket.
CommittedByOwnConfirm ==
  [][\A w \in Windows : fate[w] # "committed" /\ fate'[w] = "committed" =>
       /\ queue # <<>>
       /\ Head(queue).window = w
       /\ Head(queue).action = "Confirm"
       /\ ticket[w]]_fate

\* A window that shows a final outcome shows what happened to its change, even
\* if earlier answers were lost or requests were executed after it gave up.
ShownIsTrue ==
  \A w \in Windows :
    /\ shown[w] = "Committed"  => fate[w] = "committed"
    /\ shown[w] = "RolledBack" => fate[w] = "rolledBack"

Changes == INSTANCE WifiChanges

\* Whatever is lost, given up, executed late or cut off by the death of the
\* helper, each window's change begins once at most, beside no other one, and
\* what it ended with stays (wifi_rpc.cpp:32, wifi_connect_dialog.cpp).
ImplementsChanges == Changes!Spec

\* Every change that was started comes to an end, with or without its window.
ChangeEnds == \A w \in Windows : fate[w] = "pending" ~> fate[w] # "pending"

\* The text of the Rejected state, "the server rejected the request without
\* changing the network": whoever is shown it has no change.
RejectedIsDefinitive ==
  \A w \in Windows : shown[w] = "Rejected" => fate[w] = "none"

\* "After completion the next operation replaces the previous session;
\* RecoveryRequired blocks a new start": nothing else than a pending or
\* unrecovered change makes the helper reject a start.
OnlyUnrecoveredBlocks ==
  session # NoSession /\ ~finished =>
    pending(session.state) \/ session.state = "RecoveryRequired"
=============================================================================
