------------------------- MODULE WifiConnectProofs -------------------------
(***************************************************************************)
(* Proofs about WifiConnect for any number of windows and any length of    *)
(* the helper's accept queue.                                              *)
(***************************************************************************)
EXTENDS WifiConnect, SequenceTheorems, TLAPS

\* The i-th request in the accept queue is the start of window w.
QueuedStart(w, i) ==
  i \in 1..Len(queue) /\ queue[i].window = w /\ queue[i].action = "Start"

\* The start of window w is on its way to the server.
SendingStart(w) == call[w].action = "Start" /\ call[w].stage = "sending"

\* The start of window w may still be executed.
StartAhead(w) ==
  "Start" \in enabled[w] \/ SendingStart(w) \/ \E i \in 1..Len(queue) : QueuedStart(w, i)

Final == {"Committed", "RolledBack"}

\* The fate of the session's window is the state of the session.
SessionInv ==
  /\ session.owner = NoWindow => session = NoSession
  /\ session.owner \in Windows => fate[session.owner] = FateOf(session.state)

\* A call on its way to the server is one of the four requests.
SendInv == \A w \in Windows : call[w].stage = "sending" => call[w].action \in Actions

\* Whatever is in the queue besides starts was sent with a ticket.
TicketInv ==
  \A i \in 1..Len(queue) : queue[i].action # "Start" => ticket[queue[i].window]

\* A window's start exists at most once on its way to the helper, and until the
\* helper has executed it nothing else has happened to its change.
StartInv ==
  \A w \in Windows :
    /\ StartAhead(w) =>
         /\ fate[w] = "none" /\ ~ticket[w] /\ session.owner # w
         /\ reply[w] \notin Final /\ shown[w] \notin Final
    /\ "Start" \in enabled[w] =>
         /\ call[w] = NoCall /\ enabled[w] = {"Start"} /\ ~refresh[w]
         /\ \A i \in 1..Len(queue) : ~QueuedStart(w, i)
    /\ SendingStart(w) => \A i \in 1..Len(queue) : ~QueuedStart(w, i)
    /\ \A i, j \in 1..Len(queue) : QueuedStart(w, i) /\ QueuedStart(w, j) => i = j

\* A final answer on its way to a window is what happened to its change.
ReplyIsTrue ==
  \A w \in Windows :
    /\ reply[w] = "Committed"  => fate[w] = "committed"
    /\ reply[w] = "RolledBack" => fate[w] = "rolledBack"

\* The inductive invariant, without the types.
IInv ==
  /\ SessionInv /\ SendInv /\ TicketInv /\ StartInv /\ ReplyIsTrue
  /\ PendingHasSession /\ CommitNeedsTicket /\ ShownIsTrue

-----------------------------------------------------------------------------
(* The window *)

\* What the window may do by itself: nothing but click its start once, and show
\* the reply it has been given.
LEMMA WindowFrame ==
  ASSUME IInv, UNCHANGED <<queue, session, fate, ticket, reply>>,
         \A w \in Windows :
           /\ "Start" \in enabled'[w] =>
                /\ enabled'[w] = enabled[w] /\ call'[w] = call[w]
                /\ refresh'[w] = refresh[w]
           /\ SendingStart(w)' => SendingStart(w) \/ "Start" \in enabled[w]
           /\ call'[w].stage = "sending" => call'[w] = call[w] \/ call'[w].action \in Actions
           /\ shown'[w] \in Final => shown'[w] = shown[w] \/ shown'[w] = reply[w]
  PROVE  IInv'
  <1>1. \A w, i : QueuedStart(w, i)' <=> QueuedStart(w, i)
    BY DEF QueuedStart
  <1>2. \A w \in Windows : StartAhead(w)' => StartAhead(w)
    BY <1>1 DEF StartAhead
  <1>3. StartInv'
    BY <1>1, <1>2 DEF IInv, StartInv
  <1>4. SessionInv' /\ TicketInv' /\ ReplyIsTrue'
    BY DEF IInv, SessionInv, TicketInv, ReplyIsTrue
  <1>5. PendingHasSession' /\ CommitNeedsTicket'
    BY DEF IInv, PendingHasSession, CommitNeedsTicket
  <1>6. ShownIsTrue'
    BY DEF IInv, ShownIsTrue, ReplyIsTrue, Final
  <1>7. SendInv'
    BY DEF IInv, SendInv
  <1> QED BY <1>3, <1>4, <1>5, <1>6, <1>7 DEF IInv

\* The start button.
LEMMA ClickStartInv ==
  ASSUME TypeOK, IInv, NEW w \in Windows, ClickStart(w)
  PROVE  TypeOK' /\ IInv'
  <1>1. TypeOK'
    BY DEF TypeOK, ClickStart, send, helperVars, Calls, Actions
  <1>2. IInv'
    BY WindowFrame DEF TypeOK, ClickStart, send, helperVars, SendingStart, Actions
  <1> QED BY <1>1, <1>2

\* The confirm and cancel buttons.
LEMMA ClickInv ==
  ASSUME TypeOK, IInv, NEW w \in Windows, NEW action \in {"Confirm", "Cancel"}, Click(w, action)
  PROVE  TypeOK' /\ IInv'
  <1>1. TypeOK'
    BY DEF TypeOK, Click, send, helperVars, Calls, Actions
  <1>2. "Start" \notin enabled[w]
    BY DEF IInv, StartInv, Click
  <1>3. IInv'
    BY <1>2, WindowFrame DEF TypeOK, Click, send, helperVars, SendingStart, Actions
  <1> QED BY <1>1, <1>3

\* The refresh timer.
LEMMA RefreshTimerInv ==
  ASSUME TypeOK, IInv, NEW w \in Windows, RefreshTimer(w)
  PROVE  TypeOK' /\ IInv'
  <1>1. TypeOK'
    BY DEF TypeOK, RefreshTimer, send, helperVars, Calls, Actions
  <1>2. "Start" \notin enabled[w]
    BY DEF IInv, StartInv, RefreshTimer
  <1>3. IInv'
    BY <1>2, WindowFrame DEF TypeOK, RefreshTimer, send, helperVars, SendingStart, Actions
  <1> QED BY <1>1, <1>3

\* The poll timer shows a reply, or that there is none.
LEMMA PollTimerInv ==
  ASSUME TypeOK, IInv, NEW w \in Windows, PollTimer(w)
  PROVE  TypeOK' /\ IInv'
  <1>1. TypeOK'
    <2>1. call' \in [Windows -> Calls]
      BY DEF TypeOK, PollTimer, Calls, NoCall
    <2>2. active' \in [Windows -> BOOLEAN] /\ refresh' \in [Windows -> BOOLEAN]
      BY ONLY TypeOK, PollTimer(w), w \in Windows
         DEF TypeOK, PollTimer, Displays, DisplaysNoAnswer
    <2>4. enabled' \in [Windows -> SUBSET Actions]
      <3>1. CASE reply[w] = "Lost"
        <4>1. enabled' = [enabled EXCEPT ![w] = @ \cup {"Cancel"}]
          BY <3>1 DEF PollTimer, DisplaysNoAnswer
        <4> QED BY <4>1 DEF TypeOK, Actions
      <3>2. CASE reply[w] # "Lost"
        <4>1. \E b \in SUBSET {"Confirm", "Cancel"} : enabled' = [enabled EXCEPT ![w] = b]
          BY <3>2 DEF PollTimer, Displays
        <4> QED BY <4>1 DEF TypeOK, Actions
      <3> QED BY <3>1, <3>2
    <2>3. shown' \in [Windows -> Shown]
      BY DEF TypeOK, PollTimer, Displays, DisplaysNoAnswer, Shown
    <2> QED BY <2>1, <2>2, <2>3, <2>4 DEF TypeOK, PollTimer, helperVars
  <1>2. "Start" \notin enabled[w]
    BY DEF IInv, StartInv, PollTimer, NoCall
  <1>3. /\ UNCHANGED <<queue, session, fate, ticket, reply>>
        /\ call'[w] = NoCall
        /\ "Start" \notin enabled'[w]
        /\ shown'[w] \in {reply[w], "NoAnswer"}
        /\ \A q \in Windows \ {w} : /\ call'[q] = call[q] /\ enabled'[q] = enabled[q]
                                    /\ refresh'[q] = refresh[q] /\ shown'[q] = shown[q]
    BY <1>2 DEF TypeOK, PollTimer, Displays, DisplaysNoAnswer, helperVars
  <1>4. IInv'
    BY <1>3, WindowFrame DEF SendingStart, NoCall, Final
  <1> QED BY <1>1, <1>4

\* The window is closed.
LEMMA CloseInv ==
  ASSUME TypeOK, IInv, NEW w \in Windows, Close(w)
  PROVE  TypeOK' /\ IInv'
  <1>1. TypeOK'
    BY DEF TypeOK, Close, helperVars, uiVars
  <1>2. IInv'
    BY WindowFrame DEF Close, helperVars, uiVars, SendingStart
  <1> QED BY <1>1, <1>2

-----------------------------------------------------------------------------
(* The call *)

\* The outstanding call of a window ends without a final answer; what is in the
\* queue stays there.
LEMMA FinishFrame ==
  ASSUME TypeOK, IInv, NEW w \in Windows, NEW answer, answer \notin Final,
         call[w].stage # "idle", Finish(w, answer),
         UNCHANGED <<session, fate, ticket, uiVars>>,
         Len(queue') = Len(queue),
         \A i \in 1..Len(queue) :
           queue'[i].window = queue[i].window /\ queue'[i].action = queue[i].action
  PROVE  IInv'
  <1>1. \A q, i : QueuedStart(q, i)' <=> QueuedStart(q, i)
    BY DEF QueuedStart, TypeOK
  <1>2. /\ ~SendingStart(w)' /\ "Start" \notin enabled[w]
        /\ \A q \in Windows \ {w} : call'[q] = call[q] /\ reply'[q] = reply[q]
        /\ reply'[w] \notin Final
    BY DEF TypeOK, Finish, SendingStart, IInv, StartInv, NoCall, Calls
  <1>3. \A q \in Windows : SendingStart(q)' => SendingStart(q)
    BY <1>2 DEF SendingStart
  <1>4. \A q \in Windows : StartAhead(q)' => StartAhead(q)
    BY <1>1, <1>3 DEF StartAhead, uiVars
  <1>5. StartInv'
    BY <1>1, <1>2, <1>3, <1>4 DEF IInv, StartInv, uiVars
  <1>6. SessionInv' /\ TicketInv' /\ PendingHasSession' /\ CommitNeedsTicket' /\ ShownIsTrue'
    BY DEF IInv, SessionInv, TicketInv, PendingHasSession, CommitNeedsTicket, ShownIsTrue, uiVars
  <1>7. ReplyIsTrue'
    BY <1>2 DEF IInv, ReplyIsTrue, Final
  <1>8. SendInv'
    BY DEF IInv, SendInv, Finish, TypeOK, Calls
  <1> QED BY <1>5, <1>6, <1>7, <1>8 DEF IInv

\* A call that goes on to its next stage is still a call.
LEMMA StageTyped ==
  ASSUME TypeOK, NEW w \in Windows, NEW stage \in {"idle", "sending", "queued", "done"}
  PROVE  [call EXCEPT ![w].stage = stage] \in [Windows -> Calls]
  <1>1. call \in [Windows -> Calls]
    BY DEF TypeOK
  <1> QED BY <1>1 DEF Calls

\* A call is lost before the helper sees it.
LEMMA CallLostInv ==
  ASSUME TypeOK, IInv, NEW w \in Windows, CallLost(w)
  PROVE  TypeOK' /\ IInv'
  <1>1. TypeOK'
    <2>1. call' \in [Windows -> Calls]
      BY StageTyped DEF CallLost, Finish
    <2>2. reply' \in [Windows -> ChangeStates \cup {"Rejected", "Lost"}]
      BY DEF TypeOK, CallLost, Finish
    <2> QED BY <2>1, <2>2 DEF TypeOK, CallLost, helperVars, uiVars
  <1>2. IInv'
    BY FinishFrame DEF CallLost, helperVars, Final
  <1> QED BY <1>1, <1>2

\* The server rejects a call.
LEMMA ServerRejectsInv ==
  ASSUME TypeOK, IInv, NEW w \in Windows, ServerRejects(w)
  PROVE  TypeOK' /\ IInv'
  <1>1. TypeOK'
    <2>1. call' \in [Windows -> Calls]
      BY StageTyped DEF ServerRejects, Finish
    <2>2. reply' \in [Windows -> ChangeStates \cup {"Rejected", "Lost"}]
      BY DEF TypeOK, ServerRejects, Finish
    <2> QED BY <2>1, <2>2 DEF TypeOK, ServerRejects, helperVars, uiVars
  <1>2. IInv'
    BY FinishFrame DEF ServerRejects, helperVars, Final
  <1> QED BY <1>1, <1>2

\* A request enters the accept queue.
LEMMA RequestInv ==
  ASSUME TypeOK, IInv, NEW w \in Windows, request_wifi_change(w)
  PROVE  TypeOK' /\ IInv'
  <1> DEFINE new == [window |-> w, action |-> call[w].action, awaited |-> TRUE]
  <1>1. new \in Requests
    <2>1. call[w].action \in Actions
      BY DEF IInv, SendInv, request_wifi_change
    <2> QED BY <2>1 DEF Requests
  <1>2. /\ queue' = Append(queue, new) /\ Len(queue') = Len(queue) + 1
        /\ queue' \in Seq(Requests)
        /\ queue'[Len(queue) + 1] = new
        /\ \A i \in 1..Len(queue) : queue'[i] = queue[i]
    BY <1>1 DEF TypeOK, request_wifi_change
  <1>3. TypeOK'
    <2>1. Len(queue') <= Backlog
      BY <1>2, BacklogAssumption DEF TypeOK, request_wifi_change
    <2>2. call' \in [Windows -> Calls]
      BY StageTyped DEF request_wifi_change
    <2> QED BY <1>2, <2>1, <2>2 DEF TypeOK, request_wifi_change, helperVars, uiVars
  <1>4. /\ call'[w].stage = "queued" /\ call'[w].action = call[w].action
        /\ \A q \in Windows \ {w} : call'[q] = call[q]
        /\ UNCHANGED <<session, fate, open, reply, ticket, active, enabled, refresh, shown>>
    BY DEF TypeOK, request_wifi_change, Calls, helperVars, uiVars
  <1>5. new.window = w /\ new.action = call[w].action
    OBVIOUS
  <1> HIDE DEF new
  <1>6. \A q, i : QueuedStart(q, i)' <=>
          QueuedStart(q, i) \/ (i = Len(queue) + 1 /\ q = w /\ call[w].action = "Start")
    BY <1>2, <1>5 DEF QueuedStart, TypeOK
  <1>7. \A q \in Windows : SendingStart(q)' => SendingStart(q) /\ q # w
    BY <1>4 DEF SendingStart
  <1>8. call[w].action = "Start" => SendingStart(w)
    BY DEF SendingStart, request_wifi_change
  <1>9. "Start" \notin enabled[w]
    BY DEF IInv, StartInv, request_wifi_change, NoCall
  <1>10. \A q \in Windows : StartAhead(q)' => StartAhead(q)
    <2>1. \A q, i : QueuedStart(q, i) => i \in 1..Len(queue)
      BY DEF QueuedStart
    <2> QED BY <2>1, <1>4, <1>6, <1>7, <1>8 DEF StartAhead
  <1>11. StartInv'
    <2> SUFFICES ASSUME NEW q \in Windows
                 PROVE  /\ (SendingStart(q) => \A i \in 1..Len(queue) : ~QueuedStart(q, i))'
                        /\ ("Start" \in enabled[q] => \A i \in 1..Len(queue) : ~QueuedStart(q, i))'
                        /\ (\A i, j \in 1..Len(queue) :
                              QueuedStart(q, i) /\ QueuedStart(q, j) => i = j)'
      BY <1>4, <1>9, <1>10 DEF IInv, StartInv
    <2>1. \A i : QueuedStart(q, i) => i \in 1..Len(queue)
      BY DEF QueuedStart
    <2> QED BY <2>1, <1>4, <1>6, <1>7, <1>8, <1>9 DEF IInv, StartInv
  <1>12. TicketInv'
    BY <1>2, <1>4, <1>5 DEF IInv, TicketInv, TypeOK, request_wifi_change, MaySend
  <1>13. SessionInv' /\ PendingHasSession' /\ CommitNeedsTicket' /\ ShownIsTrue' /\ ReplyIsTrue'
    BY <1>4 DEF IInv, SessionInv, PendingHasSession, CommitNeedsTicket, ShownIsTrue, ReplyIsTrue
  <1>14. SendInv'
    BY <1>4 DEF IInv, SendInv
  <1> QED BY <1>3, <1>11, <1>12, <1>13, <1>14 DEF IInv

\* A call is given up while its request waits in the queue.
LEMMA GivesUpInv ==
  ASSUME TypeOK, IInv, NEW w \in Windows, GivesUp(w)
  PROVE  TypeOK' /\ IInv'
  <1>1. DOMAIN queue = 1..Len(queue) /\ Len(queue) \in Nat
    BY DEF TypeOK
  <1>2. ASSUME NEW i \in 1..Len(queue)
        PROVE  /\ queue'[i] \in Requests
               /\ queue'[i].window = queue[i].window /\ queue'[i].action = queue[i].action
    <2>1. queue[i] \in Requests
      BY <1>1 DEF TypeOK
    <2>2. queue'[i] = IF queue[i].window = w THEN [queue[i] EXCEPT !.awaited = FALSE]
                                             ELSE queue[i]
      BY <1>1 DEF GivesUp
    <2> QED BY <2>1, <2>2 DEF Requests
  <1>3. queue' \in [1..Len(queue) -> Requests]
    BY <1>1, <1>2 DEF GivesUp
  <1>4. queue' \in Seq(Requests) /\ Len(queue') = Len(queue)
    BY <1>1, <1>3
  <1>5. TypeOK'
    <2>1. call' \in [Windows -> Calls]
      BY StageTyped DEF GivesUp, Finish
    <2>2. reply' \in [Windows -> ChangeStates \cup {"Rejected", "Lost"}]
      BY DEF TypeOK, GivesUp, Finish
    <2> QED BY <1>4, <2>1, <2>2 DEF TypeOK, GivesUp, helperVars, uiVars
  <1>6. IInv'
    BY <1>2, <1>4, FinishFrame DEF GivesUp, helperVars, Final
  <1> QED BY <1>5, <1>6

-----------------------------------------------------------------------------
(* The helper *)

SessionType == [owner : Windows \cup {NoWindow}, state : ChangeStates, ticket : BOOLEAN]

\* What the fate of a change says about its state.
LEMMA FateOfState ==
  ASSUME NEW state \in ChangeStates
  PROVE  /\ FateOf(state) \in Fates
         /\ FateOf(state) = "committed" <=> state = "Committed"
         /\ FateOf(state) = "rolledBack" <=> state = "RolledBack"
         /\ FateOf(state) = "pending" <=> pending(state)
         /\ state = "Idle" => FateOf(state) = "none"
  BY DEF FateOf, ChangeStates, pending, Fates

\* The change of the session moves to a state.
LEMMA BecomesSession ==
  ASSUME TypeOK, IInv, session.owner \in Windows, NEW state \in ChangeStates, Becomes(state)
  PROVE  /\ session' \in SessionType /\ fate' \in [Windows -> Fates]
         /\ session'.owner = session.owner /\ session'.state = state
         /\ fate'[session.owner] = FateOf(state)
         /\ \A q \in Windows \ {session.owner} : fate'[q] = fate[q]
         /\ SessionInv' /\ PendingHasSession'
  <1>1. /\ session' \in SessionType
        /\ session'.owner = session.owner /\ session'.state = state
    BY DEF TypeOK, Becomes, SessionType
  <1>2. /\ fate' \in [Windows -> Fates]
        /\ fate'[session.owner] = FateOf(state)
        /\ \A q \in Windows \ {session.owner} : fate'[q] = fate[q]
    BY FateOfState DEF TypeOK, Becomes
  <1>3. SessionInv'
    BY <1>1, <1>2, WindowsAssumption DEF SessionInv
  <1>4. PendingHasSession'
    BY <1>1, <1>2, FateOfState DEF IInv, PendingHasSession
  <1> QED BY <1>1, <1>2, <1>3, <1>4

\* The helper executes the request of window w: the promises of WifiRpc::handle.
Handles(w, action, answer) ==
  /\ session' \in SessionType /\ fate' \in [Windows -> Fates]
  /\ SessionInv' /\ PendingHasSession'
  /\ \A q \in Windows \ {w} : fate'[q] = fate[q]
  /\ action # "Start" /\ fate[w] \in {"committed", "rolledBack"} => fate'[w] = fate[w]
  /\ fate'[w] = "committed" => fate[w] = "committed" \/ action = "Confirm"
  /\ answer = "Committed" => fate'[w] = "committed"
  /\ answer = "RolledBack" => fate'[w] = "rolledBack"
  /\ answer = "Ticket" => action = "Start"
  /\ session'.owner = session.owner \/ (action = "Start" /\ session'.owner = w)

\* A request that is refused changes nothing.
LEMMA RefusedHandles ==
  ASSUME TypeOK, IInv, UNCHANGED helperVars, NEW w \in Windows, NEW action
  PROVE  /\ Handles(w, action, "Error") /\ Handles(w, action, "Rejected")
         /\ fate[w] = "committed" => Handles(w, action, "Committed")
  BY DEF helperVars, TypeOK, IInv, Handles, SessionType, SessionInv, PendingHasSession

\* WifiRpc::handle for a start.
LEMMA StartHandles ==
  ASSUME TypeOK, IInv, NEW w \in Windows, NEW answer, HandleStart(w, answer)
  PROVE  Handles(w, "Start", answer)
  <1>1. CASE session # NoSession /\ ~finished
    BY <1>1, RefusedHandles DEF HandleStart
  <1>2. CASE session = NoSession \/ finished
    <2>1. PICK state \in {"Idle", "Connecting"} \cup RevertResults :
            /\ session' = [owner |-> w, state |-> state, ticket |-> state = "Connecting"]
            /\ fate'    = [fate EXCEPT ![w] = FateOf(state)]
            /\ answer   = IF state = "Connecting" THEN "Ticket" ELSE "RecoveryRequired"
      BY <1>2 DEF HandleStart
    <2>2. state \in ChangeStates /\ state # "Committed"
      BY DEF ChangeStates, RevertResults
    <2>3. session' \in SessionType /\ session'.owner = w /\ session'.state = state
      BY <2>1, <2>2 DEF SessionType
    <2>4. /\ fate' \in [Windows -> Fates] /\ fate'[w] = FateOf(state)
          /\ \A q \in Windows \ {w} : fate'[q] = fate[q]
      BY <2>1, <2>2, FateOfState DEF TypeOK
    <2>5. \A q \in Windows : fate[q] # "pending"
      BY <1>2 DEF IInv, PendingHasSession, finished, NoSession, pending
    <2>6. SessionInv' /\ PendingHasSession'
      BY <2>2, <2>3, <2>4, <2>5, FateOfState, WindowsAssumption DEF SessionInv, PendingHasSession
    <2> QED BY <2>1, <2>2, <2>3, <2>4, <2>6, FateOfState DEF Handles
  <1> QED BY <1>1, <1>2

\* A request with the session's ticket that moves the session to a state.
LEMMA AuthorizedHandles ==
  ASSUME TypeOK, IInv, NEW w \in Windows, authorized(w), NEW action, NEW answer,
         NEW state \in ChangeStates, Becomes(state),
         session.state \in Final => state = session.state,
         state = "Committed" => session.state = "Committed" \/ action = "Confirm",
         answer \in Final => answer = state, answer # "Ticket"
  PROVE  Handles(w, action, answer)
  <1>1. session.owner = w /\ fate[w] = FateOf(session.state) /\ session.state \in ChangeStates
    BY DEF authorized, IInv, SessionInv, TypeOK
  <1>2. session' \in SessionType /\ fate' \in [Windows -> Fates]
    BY <1>1, BecomesSession
  <1>3. /\ session'.owner = session.owner
        /\ fate'[w] = FateOf(state)
        /\ \A q \in Windows \ {w} : fate'[q] = fate[q]
        /\ SessionInv' /\ PendingHasSession'
    BY <1>1, BecomesSession
  <1> QED BY <1>1, <1>2, <1>3, FateOfState DEF Handles, Final

\* WifiRpc::handle for a status request.
LEMMA StatusHandles ==
  ASSUME TypeOK, IInv, NEW w \in Windows, NEW answer, HandleStatus(w, answer)
  PROVE  Handles(w, "Status", answer)
  <1>1. CASE ~authorized(w)
    BY <1>1, RefusedHandles DEF HandleStatus
  <1>2. CASE authorized(w)
    <2>1. PICK state \in TickResults(session.state) : Becomes(state) /\ answer = state
      BY <1>2 DEF HandleStatus
    <2>2. session.state \in ChangeStates
      BY DEF TypeOK
    <2>3. /\ state \in ChangeStates
          /\ session.state \in Final => state = session.state
          /\ state = "Committed" => session.state = "Committed"
      BY <2>2 DEF TickResults, pending, ChangeStates, Final
    <2> QED BY <1>2, <2>1, <2>3, AuthorizedHandles DEF ChangeStates
  <1> QED BY <1>1, <1>2

\* WifiRpc::handle for a confirmation.
LEMMA ConfirmHandles ==
  ASSUME TypeOK, IInv, NEW w \in Windows, NEW answer, HandleConfirm(w, answer)
  PROVE  Handles(w, "Confirm", answer)
  <1>1. CASE ~authorized(w)
    BY <1>1, RefusedHandles DEF HandleConfirm
  <1>2. CASE authorized(w) /\ session.state = "Committed"
    <2>1. fate[w] = "committed"
      BY <1>2 DEF authorized, IInv, SessionInv, FateOf, pending
    <2> QED BY <1>2, <2>1, RefusedHandles DEF HandleConfirm
  <1>3. CASE authorized(w) /\ session.state # "Committed"
    <2>1. PICK ticked \in TickResults(session.state) :
            \E state \in IF ticked = "AwaitingConfirmation"
                           THEN {"Committed"} \cup RevertResults ELSE {ticked} :
              /\ Becomes(state)
              /\ answer = IF state = "Committed" THEN "Committed" ELSE "Error"
      BY <1>3 DEF HandleConfirm
    <2>2. PICK state \in IF ticked = "AwaitingConfirmation"
                           THEN {"Committed"} \cup RevertResults ELSE {ticked} :
              /\ Becomes(state)
              /\ answer = IF state = "Committed" THEN "Committed" ELSE "Error"
      BY <2>1
    <2>3. session.state \in ChangeStates
      BY DEF TypeOK
    <2>4. /\ state \in ChangeStates
          /\ session.state \in Final => state = session.state
      BY <1>3, <2>3 DEF TickResults, RevertResults, pending, ChangeStates, Final
    <2> QED BY <1>3, <2>2, <2>4, AuthorizedHandles DEF Final
  <1> QED BY <1>1, <1>2, <1>3

\* WifiRpc::handle for a cancellation.
LEMMA CancelHandles ==
  ASSUME TypeOK, IInv, NEW w \in Windows, NEW answer, HandleCancel(w, answer)
  PROVE  Handles(w, "Cancel", answer)
  <1>1. CASE ~authorized(w)
    BY <1>1, RefusedHandles DEF HandleCancel
  <1>2. CASE authorized(w)
    <2>1. PICK state \in IF pending(session.state) THEN RevertResults ELSE {session.state} :
            Becomes(state) /\ answer = state
      BY <1>2 DEF HandleCancel
    <2>2. session.state \in ChangeStates
      BY DEF TypeOK
    <2>3. /\ state \in ChangeStates
          /\ session.state \in Final => state = session.state
          /\ state = "Committed" => session.state = "Committed"
      BY <2>2 DEF RevertResults, pending, ChangeStates, Final
    <2> QED BY <1>2, <2>1, <2>3, AuthorizedHandles DEF ChangeStates
  <1> QED BY <1>1, <1>2

\* WifiRpc::handle for any request.
LEMMA HandleHandles ==
  ASSUME TypeOK, IInv, NEW r \in Requests, NEW answer, handle(r, answer)
  PROVE  Handles(r.window, r.action, answer)
  BY StartHandles, StatusHandles, ConfirmHandles, CancelHandles DEF handle, Requests

-----------------------------------------------------------------------------
(* The accept queue *)

\* The helper takes the first request: its window has no start ahead any more,
\* and nobody else's start has come nearer than it was.
LEMMA Popped ==
  ASSUME TypeOK, IInv, queue # <<>>, queue' = Tail(queue), UNCHANGED enabled,
         NEW w \in Windows, w = Head(queue).window,
         \A q \in Windows : SendingStart(q)' => SendingStart(q)
  PROVE  /\ Head(queue) \in Requests /\ Head(queue) = queue[1]
         /\ queue' \in Seq(Requests) /\ Len(queue') <= Backlog
         /\ ~StartAhead(w)'
         /\ \A q \in Windows : StartAhead(q)' => StartAhead(q)
         /\ \A q \in Windows, i \in 1..Len(queue') : QueuedStart(q, i)' => QueuedStart(q, i + 1)
         /\ \A i \in 1..Len(queue') : i + 1 \in 1..Len(queue) /\ queue'[i] = queue[i + 1]
  <1>1. /\ Len(queue) \in Nat /\ Len(queue) > 0
        /\ Head(queue) = queue[1] /\ queue[1] \in Requests
        /\ queue' \in Seq(Requests) /\ Len(queue') = Len(queue) - 1
        /\ \A i \in 1..Len(queue') : queue'[i] = queue[i + 1]
    BY DEF TypeOK
  <1>2. Len(queue') <= Backlog
    BY <1>1, BacklogAssumption DEF TypeOK
  <1>3. \A i \in 1..Len(queue') : i + 1 \in 1..Len(queue)
    BY <1>1
  <1>4. \A q \in Windows, i \in 1..Len(queue') : QueuedStart(q, i)' => QueuedStart(q, i + 1)
    BY <1>1, <1>3 DEF QueuedStart
  <1>5. \A q \in Windows : StartAhead(q)' => StartAhead(q)
    BY <1>3, <1>4 DEF StartAhead
  <1>6. ~StartAhead(w)'
    <2>1. CASE queue[1].action = "Start"
      <3>1. QueuedStart(w, 1) /\ 1 \in 1..Len(queue)
        BY <1>1, <2>1 DEF QueuedStart
      <3>2. "Start" \notin enabled[w] /\ ~SendingStart(w)
        BY <3>1 DEF IInv, StartInv
      <3>3. \A i \in 1..Len(queue) : QueuedStart(w, i) => i = 1
        BY <3>1 DEF IInv, StartInv
      <3>4. \A i \in 1..Len(queue') : i + 1 # 1
        BY <1>1
      <3>5. \A i \in 1..Len(queue') : ~QueuedStart(w, i)'
        BY <1>3, <1>4, <3>3, <3>4
      <3> QED BY <3>2, <3>5 DEF StartAhead
    <2>2. CASE queue[1].action # "Start"
      <3>1. ticket[w]
        BY <1>1, <2>2 DEF IInv, TicketInv
      <3> QED BY <1>5, <3>1 DEF IInv, StartInv
    <2> QED BY <2>1, <2>2
  <1> QED BY <1>1, <1>2, <1>3, <1>4, <1>5, <1>6

\* The invariant after the first request has been taken, from what its handler
\* promises about the session, the fates and the reply.
LEMMA PoppedInv ==
  ASSUME TypeOK, IInv, queue # <<>>, queue' = Tail(queue), UNCHANGED uiVars,
         NEW w \in Windows, w = Head(queue).window,
         SessionInv', PendingHasSession',
         session'.owner \in {session.owner, NoWindow, w},
         \A q \in Windows \ {w} :
           /\ fate'[q] = fate[q] \/ (fate[q] = "pending" /\ fate'[q] = "rolledBack")
           /\ call'[q] = call[q] /\ reply'[q] = reply[q] /\ ticket'[q] = ticket[q],
         call'[w].action = call[w].action, call'[w].stage \in {call[w].stage, "done"},
         ticket[w] => ticket'[w],
         fate'[w] = "committed" => fate[w] = "committed" \/ Head(queue).action = "Confirm",
         Head(queue).action # "Start" =>
           (fate[w] \in {"committed", "rolledBack"} => fate'[w] = fate[w]),
         reply'[w] \in Final =>
           \/ reply'[w] = reply[w]
           \/ reply'[w] = "Committed" /\ fate'[w] = "committed"
           \/ reply'[w] = "RolledBack" /\ fate'[w] = "rolledBack"
  PROVE  IInv' /\ queue' \in Seq(Requests) /\ Len(queue') <= Backlog
  <1>1. \A q \in Windows : SendingStart(q)' => SendingStart(q)
    BY DEF SendingStart
  <1>2. /\ Head(queue) \in Requests /\ Head(queue) = queue[1]
        /\ queue' \in Seq(Requests) /\ Len(queue') <= Backlog
        /\ ~StartAhead(w)'
        /\ \A q \in Windows : StartAhead(q)' => StartAhead(q)
        /\ \A q \in Windows, i \in 1..Len(queue') : QueuedStart(q, i)' => QueuedStart(q, i + 1)
        /\ \A i \in 1..Len(queue') : i + 1 \in 1..Len(queue) /\ queue'[i] = queue[i + 1]
    BY <1>1, Popped DEF uiVars
  <1>3. Head(queue).action = "Start" => StartAhead(w)
    <2>1. Len(queue) \in Nat /\ Len(queue) > 0
      BY DEF TypeOK
    <2> QED BY <1>2, <2>1 DEF StartAhead, QueuedStart
  <1>4. StartInv'
    <2> SUFFICES ASSUME NEW q \in Windows
        PROVE  /\ StartAhead(q)' =>
                    /\ fate'[q] = "none" /\ ~ticket'[q] /\ session'.owner # q
                    /\ reply'[q] \notin Final /\ shown'[q] \notin Final
               /\ "Start" \in enabled'[q] =>
                    /\ call'[q] = NoCall /\ enabled'[q] = {"Start"} /\ ~refresh'[q]
                    /\ \A i \in 1..Len(queue') : ~QueuedStart(q, i)'
               /\ SendingStart(q)' => \A i \in 1..Len(queue') : ~QueuedStart(q, i)'
               /\ \A i, j \in 1..Len(queue') : QueuedStart(q, i)' /\ QueuedStart(q, j)' => i = j
      BY DEF StartInv
    <2>1. StartAhead(q)' => q # w /\ StartAhead(q)
      BY <1>2
    <2>2. StartAhead(q)' =>
            /\ fate'[q] = "none" /\ ~ticket'[q] /\ session'.owner # q
            /\ reply'[q] \notin Final /\ shown'[q] \notin Final
      BY <2>1, WindowsAssumption DEF IInv, StartInv, uiVars
    <2>3. \A i, j \in 1..Len(queue') : QueuedStart(q, i)' /\ QueuedStart(q, j)' => i = j
      <3> SUFFICES ASSUME NEW i \in 1..Len(queue'), NEW j \in 1..Len(queue'),
                          QueuedStart(q, i)', QueuedStart(q, j)'
                   PROVE  i = j
        OBVIOUS
      <3>1. i + 1 = j + 1
        BY <1>2 DEF IInv, StartInv
      <3> QED BY <3>1
    <2>4. "Start" \in enabled'[q] =>
            /\ call'[q] = NoCall /\ enabled'[q] = {"Start"} /\ ~refresh'[q]
            /\ \A i \in 1..Len(queue') : ~QueuedStart(q, i)'
      <3> SUFFICES ASSUME "Start" \in enabled'[q]
                   PROVE  /\ call'[q] = NoCall /\ enabled'[q] = {"Start"} /\ ~refresh'[q]
                          /\ \A i \in 1..Len(queue') : ~QueuedStart(q, i)'
        OBVIOUS
      <3>1. q # w /\ "Start" \in enabled[q]
        BY <2>1 DEF StartAhead, uiVars
      <3> QED BY <1>2, <3>1 DEF IInv, StartInv, uiVars
    <2>5. SendingStart(q)' => \A i \in 1..Len(queue') : ~QueuedStart(q, i)'
      BY <1>1, <1>2 DEF IInv, StartInv
    <2> QED BY <2>2, <2>3, <2>4, <2>5
  <1>5. TicketInv'
    <2> SUFFICES ASSUME NEW i \in 1..Len(queue'), queue'[i].action # "Start"
                 PROVE  ticket'[queue'[i].window]
      BY DEF TicketInv
    <2>1. /\ i + 1 \in 1..Len(queue) /\ queue'[i] = queue[i + 1]
          /\ ticket[queue[i + 1].window]
      BY <1>2 DEF IInv, TicketInv
    <2>2. queue[i + 1] \in Requests
      BY <2>1 DEF TypeOK
    <2> QED BY <2>1, <2>2 DEF Requests
  <1>6. CommitNeedsTicket'
    <2>1. Head(queue).action = "Confirm" => ticket[w]
      <3>1. 1 \in 1..Len(queue)
        BY DEF TypeOK
      <3> QED BY <1>2, <3>1 DEF IInv, TicketInv
    <2> QED BY <2>1 DEF IInv, CommitNeedsTicket
  <1>7. StartAhead(w) => reply[w] \notin Final /\ shown[w] \notin Final
    BY DEF IInv, StartInv
  <1>8. ReplyIsTrue'
    BY <1>3, <1>7 DEF IInv, ReplyIsTrue, Final
  <1>9. ShownIsTrue'
    BY <1>3, <1>7 DEF IInv, ShownIsTrue, Final, uiVars
  <1>10. SendInv'
    BY DEF IInv, SendInv
  <1> QED BY <1>2, <1>4, <1>5, <1>6, <1>8, <1>9, <1>10 DEF IInv

\* serve_wifi_change_packet.
LEMMA ServeInv ==
  ASSUME TypeOK, IInv, Serve
  PROVE  TypeOK' /\ IInv'
  <1>1. PICK answer \in Replies :
          /\ handle(Head(queue), answer)
          /\ IF Head(queue).awaited THEN Answer(Head(queue).window, answer)
                                    ELSE UNCHANGED <<call, reply, ticket>>
    BY DEF Serve
  <1>2. Head(queue) \in Requests /\ queue # <<>> /\ queue' = Tail(queue)
    BY DEF Serve, TypeOK
  <1>3. PICK w \in Windows : w = Head(queue).window
    BY <1>2 DEF Requests
  <1>4. Handles(w, Head(queue).action, answer)
    BY <1>1, <1>2, <1>3, HandleHandles
  <1> DEFINE shows == CASE answer = "Ticket" -> "Connecting"
                        [] answer = "Error"  -> "Lost"
                        [] OTHER             -> answer
  <1>5. /\ shows \in ChangeStates \cup {"Rejected", "Lost"}
        /\ shows \in Final => shows = answer
    BY DEF Replies, ChangeStates, Final
  <1>6. \/ UNCHANGED <<call, reply, ticket>>
        \/ /\ call'   = [call EXCEPT ![w].stage = "done"]
           /\ reply'  = [reply EXCEPT ![w] = shows]
           /\ ticket' = [ticket EXCEPT ![w] = @ \/ answer = "Ticket"]
    BY <1>1, <1>3 DEF Answer, Finish
  <1> HIDE DEF shows
  <1>7. /\ call' \in [Windows -> Calls] /\ ticket' \in [Windows -> BOOLEAN]
        /\ reply' \in [Windows -> ChangeStates \cup {"Rejected", "Lost"}]
    <2>1. call' \in [Windows -> Calls]
      <3>1. call' = call \/ call' = [call EXCEPT ![w].stage = "done"]
        BY ONLY <1>6
      <3>2. call \in [Windows -> Calls]
        BY DEF TypeOK
      <3>3. [call EXCEPT ![w].stage = "done"] \in [Windows -> Calls]
        BY StageTyped
      <3> QED BY ONLY <3>1, <3>2, <3>3
    <2>2. reply' \in [Windows -> ChangeStates \cup {"Rejected", "Lost"}]
      BY <1>5, <1>6 DEF TypeOK
    <2>3. ticket' \in [Windows -> BOOLEAN]
      BY <1>6 DEF TypeOK
    <2> QED BY <2>1, <2>2, <2>3
  <1>8. /\ \A q \in Windows \ {w} :
             call'[q] = call[q] /\ reply'[q] = reply[q] /\ ticket'[q] = ticket[q]
        /\ call'[w].action = call[w].action /\ call'[w].stage \in {call[w].stage, "done"}
        /\ ticket[w] => ticket'[w]
        /\ reply'[w] = reply[w] \/ reply'[w] = shows
    BY <1>6 DEF TypeOK, Calls
  <1>9. IInv' /\ queue' \in Seq(Requests) /\ Len(queue') <= Backlog
    BY <1>2, <1>3, <1>4, <1>5, <1>8, PoppedInv DEF Handles, Final, Serve
  <1> QED BY <1>4, <1>7, <1>9 DEF TypeOK, Handles, SessionType, Serve, uiVars

\* A step of the helper that touches no window and no request: fates only move on
\* from pending.
LEMMA HelperFrame ==
  ASSUME TypeOK, IInv, session' \in SessionType, fate' \in [Windows -> Fates],
         SessionInv', PendingHasSession',
         session'.owner \in {session.owner, NoWindow},
         \A q \in Windows :
           fate'[q] = fate[q] \/ (fate[q] = "pending" /\ fate'[q] # "committed"),
         UNCHANGED <<queue, open, call, reply, ticket, uiVars>>
  PROVE  TypeOK' /\ IInv'
  <1>1. TypeOK'
    BY DEF TypeOK, SessionType, uiVars
  <1>2. \A q, i : QueuedStart(q, i)' <=> QueuedStart(q, i)
    BY DEF QueuedStart
  <1>3. \A q : (StartAhead(q)' <=> StartAhead(q)) /\ (SendingStart(q)' <=> SendingStart(q))
    BY <1>2 DEF StartAhead, SendingStart, uiVars
  <1>4. StartInv'
    BY <1>2, <1>3, WindowsAssumption DEF IInv, StartInv, uiVars
  <1>5. SendInv' /\ TicketInv' /\ CommitNeedsTicket'
    BY DEF IInv, SendInv, TicketInv, CommitNeedsTicket
  <1>6. ReplyIsTrue' /\ ShownIsTrue'
    BY DEF IInv, ReplyIsTrue, ShownIsTrue, uiVars
  <1> QED BY <1>1, <1>4, <1>5, <1>6 DEF IInv

\* The helper's own tick, before or after the deadline.
LEMMA TickInv ==
  ASSUME TypeOK, IInv, Tick
  PROVE  TypeOK' /\ IInv'
  <1>1. pending(session.state)
    BY DEF Tick, HelperTick, HelperTimeout
  <1>2. PICK state \in ChangeStates : Becomes(state) /\ state # "Committed"
    BY <1>1 DEF Tick, HelperTick, HelperTimeout, TickResults, RevertResults, ChangeStates
  <1>3. session.owner \in Windows
    BY <1>1 DEF IInv, SessionInv, NoSession, pending, TypeOK
  <1>4. fate[session.owner] = "pending"
    BY <1>1, <1>3, FateOfState DEF IInv, SessionInv, TypeOK
  <1>5. /\ session' \in SessionType /\ fate' \in [Windows -> Fates]
        /\ SessionInv' /\ PendingHasSession' /\ session'.owner = session.owner
        /\ fate'[session.owner] # "committed"
        /\ \A q \in Windows \ {session.owner} : fate'[q] = fate[q]
    BY <1>2, <1>3, BecomesSession, FateOfState
  <1> QED BY <1>3, <1>4, <1>5, HelperFrame DEF Tick

\* What is left when the helper has died.
LEMMA AfterDeath ==
  ASSUME TypeOK, session' = NoSession, fate' = Abandoned
  PROVE  /\ session' \in SessionType /\ fate' \in [Windows -> Fates]
         /\ SessionInv' /\ PendingHasSession' /\ session'.owner = NoWindow
         /\ \A q \in Windows :
              fate'[q] = fate[q] \/ (fate[q] = "pending" /\ fate'[q] = "rolledBack")
  <1>1. session' \in SessionType /\ session'.owner = NoWindow
    BY DEF SessionType, NoSession, ChangeStates
  <1>2. /\ fate' \in [Windows -> Fates]
        /\ \A q \in Windows : fate'[q] # "pending"
        /\ \A q \in Windows :
              fate'[q] = fate[q] \/ (fate[q] = "pending" /\ fate'[q] = "rolledBack")
    BY DEF Abandoned, TypeOK, Fates
  <1> QED BY <1>1, <1>2, WindowsAssumption DEF SessionInv, PendingHasSession

\* The helper dies between two requests.
LEMMA DiesInv ==
  ASSUME TypeOK, IInv, Dies
  PROVE  TypeOK' /\ IInv'
  BY AfterDeath, HelperFrame DEF Dies, HelperDies

\* The helper dies inside a request.
LEMMA DiesInsideInv ==
  ASSUME TypeOK, IInv, DiesInside
  PROVE  TypeOK' /\ IInv'
  <1>1. Head(queue) \in Requests /\ queue # <<>> /\ queue' = Tail(queue)
    BY DEF DiesInside, TypeOK
  <1>2. PICK w \in Windows : w = Head(queue).window
    BY <1>1 DEF Requests
  <1>3. session' = NoSession
    BY DEF DiesInside, HelperDiesInside
  <1>4. /\ fate' \in [Windows -> Fates]
        /\ \A q \in Windows : fate'[q] # "pending"
        /\ \A q \in Windows \ {w} :
             fate'[q] = fate[q] \/ (fate[q] = "pending" /\ fate'[q] = "rolledBack")
        /\ fate'[w] = "committed" => fate[w] = "committed" \/ Head(queue).action = "Confirm"
        /\ Head(queue).action # "Start" =>
             (fate[w] \in {"committed", "rolledBack"} => fate'[w] = fate[w])
    <2>1. CASE fate' = Abandoned
      BY <2>1 DEF Abandoned, TypeOK, Fates
    <2>2. CASE /\ Head(queue).action = "Confirm"
               /\ authorized(w) /\ pending(session.state)
               /\ fate' = [fate EXCEPT ![w] = "committed"]
      <3>1. fate[w] = "pending"
        BY <2>2, FateOfState DEF IInv, SessionInv, authorized, TypeOK
      <3>2. \A q \in Windows : fate[q] = "pending" => q = w
        BY <2>2 DEF IInv, PendingHasSession, authorized
      <3> QED BY <2>2, <3>1, <3>2 DEF TypeOK, Fates
    <2>3. CASE /\ Head(queue).action = "Start"
               /\ session = NoSession \/ finished
               /\ fate' = [fate EXCEPT ![w] = "rolledBack"]
      <3>1. \A q \in Windows : fate[q] # "pending"
        BY <2>3 DEF IInv, PendingHasSession, finished, NoSession, pending
      <3> QED BY <2>3, <3>1 DEF TypeOK, Fates
    <2> QED BY <1>2, <2>1, <2>2, <2>3 DEF DiesInside, HelperDiesInside
  <1>5. session' \in SessionType /\ session'.owner = NoWindow
    BY <1>3 DEF SessionType, NoSession, ChangeStates
  <1>6. SessionInv' /\ PendingHasSession'
    BY <1>3, <1>4, <1>5, WindowsAssumption DEF SessionInv, PendingHasSession
  <1>7. \/ UNCHANGED <<call, reply>>
        \/ /\ call'  = [call EXCEPT ![w].stage = "done"]
           /\ reply' = [reply EXCEPT ![w] = "Lost"]
    BY <1>2 DEF DiesInside, Finish
  <1>8. /\ call' \in [Windows -> Calls]
        /\ reply' \in [Windows -> ChangeStates \cup {"Rejected", "Lost"}]
    <2>1. call' \in [Windows -> Calls]
      <3>1. CASE call' = call
        BY <3>1 DEF TypeOK
      <3>2. CASE call' = [call EXCEPT ![w].stage = "done"]
        BY <3>2, StageTyped
      <3> QED BY <1>7, <3>1, <3>2
    <2>2. reply' \in [Windows -> ChangeStates \cup {"Rejected", "Lost"}]
      BY <1>7 DEF TypeOK
    <2> QED BY <2>1, <2>2
  <1>9. /\ \A q \in Windows \ {w} : call'[q] = call[q] /\ reply'[q] = reply[q]
        /\ call'[w].action = call[w].action /\ call'[w].stage \in {call[w].stage, "done"}
        /\ reply'[w] = reply[w] \/ reply'[w] = "Lost"
    BY <1>7 DEF TypeOK, Calls
  <1>10. IInv' /\ queue' \in Seq(Requests) /\ Len(queue') <= Backlog
    BY <1>1, <1>2, <1>4, <1>5, <1>6, <1>9, PoppedInv DEF Final, DiesInside
  <1> QED BY <1>4, <1>5, <1>8, <1>10 DEF TypeOK, SessionType, DiesInside, uiVars

-----------------------------------------------------------------------------
(* Theorems *)

\* The windows open, the queue is empty and there is no session.
LEMMA InitInv ==
  ASSUME Init
  PROVE  TypeOK /\ IInv
  <1>1. queue \in Seq(Requests) /\ Len(queue) = 0
    BY DEF Init
  <1>2. TypeOK
    BY <1>1, BacklogAssumption DEF Init, TypeOK, NoSession, ChangeStates, Fates, NoCall, Calls,
       Actions, Shown
  <1>3. \A w, i : ~QueuedStart(w, i)
    BY <1>1 DEF QueuedStart
  <1>4. StartInv
    BY <1>1, <1>3, WindowsAssumption DEF Init, StartInv, SendingStart, NoCall, NoSession, Final
  <1>5. SessionInv /\ SendInv /\ TicketInv /\ ReplyIsTrue
    BY <1>1, WindowsAssumption DEF Init, SessionInv, SendInv, TicketInv, ReplyIsTrue, NoCall, NoSession
  <1>6. PendingHasSession /\ CommitNeedsTicket /\ ShownIsTrue
    BY DEF Init, PendingHasSession, CommitNeedsTicket, ShownIsTrue
  <1> QED BY <1>2, <1>4, <1>5, <1>6 DEF IInv

\* Every step keeps the invariant.
LEMMA NextInv ==
  ASSUME TypeOK, IInv, [Next]_vars
  PROVE  TypeOK' /\ IInv'
  <1>1. CASE UNCHANGED vars
    <2>1. TypeOK'
      BY <1>1 DEF vars, helperVars, uiVars, TypeOK
    <2>2. IInv'
      BY <1>1, WindowFrame DEF vars, helperVars, uiVars, SendingStart
    <2> QED BY <2>1, <2>2
  <1>2. CASE Next
    BY <1>2, ClickStartInv, ClickInv, RefreshTimerInv, PollTimerInv, CloseInv, CallLostInv,
       ServerRejectsInv, RequestInv, GivesUpInv, ServeInv, TickInv, DiesInv, DiesInsideInv
       DEF Next
  <1> QED BY <1>1, <1>2

\* The types and the inductive invariant, for any number of windows.
THEOREM InvariantCorrect == Spec => [](TypeOK /\ IInv)
  <1>1. Init => TypeOK /\ IInv
    BY InitInv
  <1>2. TypeOK /\ IInv /\ [Next]_vars => (TypeOK /\ IInv)'
    BY NextInv
  <1> QED BY <1>1, <1>2, PTL DEF Spec

\* Every variable keeps its type; in particular the accept queue never holds more
\* than its backlog.
THEOREM TypeCorrect == Spec => []TypeOK
  BY InvariantCorrect, PTL

\* The helper never loses track of a change that is pending: it is the change of
\* the session that will revert it.
THEOREM PendingTracked == Spec => []PendingHasSession
  <1>1. IInv => PendingHasSession
    BY DEF IInv
  <1> QED BY <1>1, InvariantCorrect, PTL

\* No change is committed whose window never learnt the ticket.
THEOREM CommitTicketed == Spec => []CommitNeedsTicket
  <1>1. IInv => CommitNeedsTicket
    BY DEF IInv
  <1> QED BY <1>1, InvariantCorrect, PTL

\* A window that displays a final outcome displays the truth, whatever answers
\* were lost and however late requests were executed.
THEOREM DisplayTrue == Spec => []ShownIsTrue
  <1>1. IInv => ShownIsTrue
    BY DEF IInv
  <1> QED BY <1>1, InvariantCorrect, PTL

\* A confirmation that reaches the helper was sent by a window with a ticket.
LEMMA ConfirmTicketed ==
  ASSUME TypeOK, IInv, queue # <<>>, Head(queue).action = "Confirm"
  PROVE  ticket[Head(queue).window]
  <1>1. 1 \in 1..Len(queue) /\ Head(queue) = queue[1]
    BY DEF TypeOK
  <1>2. TicketInv
    BY DEF IInv
  <1>3. queue[1].action # "Start" => ticket[queue[1].window]
    BY <1>1, <1>2 DEF TicketInv
  <1> QED BY <1>1, <1>3

\* A change is committed only while its own window's confirmation is executed, and
\* that window has learnt the ticket.
THEOREM OwnConfirmation == Spec => CommittedByOwnConfirm
  <1>1. TypeOK /\ IInv /\ [Next]_vars =>
          [\A w \in Windows : fate[w] # "committed" /\ fate'[w] = "committed" =>
             /\ queue # <<>>
             /\ Head(queue).window = w
             /\ Head(queue).action = "Confirm"
             /\ ticket[w]]_fate
    <2> SUFFICES ASSUME TypeOK, IInv, Next, NEW w \in Windows,
                        fate[w] # "committed", fate'[w] = "committed"
                 PROVE  /\ queue # <<>>
                        /\ Head(queue).window = w
                        /\ Head(queue).action = "Confirm"
      BY ConfirmTicketed DEF vars, helperVars
    <2>1. CASE Serve
      <3>1. PICK answer \in Replies : handle(Head(queue), answer)
        BY <2>1 DEF Serve
      <3>2. Head(queue) \in Requests /\ queue # <<>>
        BY <2>1 DEF Serve, TypeOK
      <3>3. Handles(Head(queue).window, Head(queue).action, answer)
        BY <3>1, <3>2, HandleHandles
      <3> QED BY <3>2, <3>3 DEF Handles
    <2>2. CASE Tick
      <3>1. session.owner \in Windows
        BY <2>2 DEF Tick, HelperTick, HelperTimeout, IInv, SessionInv, NoSession, pending, TypeOK
      <3>2. PICK state \in ChangeStates : Becomes(state) /\ state # "Committed"
        BY <2>2 DEF Tick, HelperTick, HelperTimeout, TickResults, RevertResults, ChangeStates
      <3> QED BY <3>1, <3>2, BecomesSession, FateOfState
    <2>3. CASE Dies
      BY <2>3 DEF Dies, HelperDies, Abandoned, TypeOK
    <2>4. CASE DiesInside
      BY <2>4 DEF DiesInside, HelperDiesInside, Abandoned, TypeOK
    <2>5. CASE UNCHANGED fate
      BY <2>5
    <2> QED BY <2>1, <2>2, <2>3, <2>4, <2>5 DEF Next, ClickStart, Click, RefreshTimer, send,
         PollTimer, Close, CallLost, ServerRejects, request_wifi_change, GivesUp, helperVars
  <1> QED BY <1>1, InvariantCorrect, PTL DEF Spec, CommittedByOwnConfirm

-----------------------------------------------------------------------------
(* The changes the administrators are promised *)

\* A step of the changes, or none that they see.
ChangesStep == Changes!Next \/ UNCHANGED fate

\* The oldest request in the queue is the request of a window.
LEMMA HeadRequest ==
  ASSUME TypeOK, queue # <<>>
  PROVE  Head(queue).window \in Windows
  <1>1. Head(queue) \in Requests
    BY DEF TypeOK
  <1> QED BY <1>1 DEF Requests

\* The session moves on: its change stays as it is or ends.
LEMMA BecomesEnds ==
  ASSUME TypeOK, IInv, session.owner \in Windows, NEW state \in ChangeStates, Becomes(state),
         pending(session.state) => state # "Idle",
         ~pending(session.state) => state = session.state
  PROVE  ChangesStep
  <1> DEFINE o == session.owner
  <1>1. /\ fate \in [Windows -> Fates] /\ o \in Windows /\ fate[o] = FateOf(session.state)
        /\ fate' = [fate EXCEPT ![o] = FateOf(state)] /\ session.state \in ChangeStates
    BY DEF TypeOK, IInv, SessionInv, Becomes
  <1> HIDE DEF o
  <1>2. CASE FateOf(state) = fate[o]
    BY <1>1, <1>2 DEF ChangesStep
  <1>3. CASE FateOf(state) # fate[o]
    <2>1. pending(session.state) /\ state # "Idle"
      BY <1>1, <1>3
    <2>2. fate[o] = "pending"
      BY <1>1, <2>1, FateOfState
    <2>3. FateOf(state) \in {"committed", "rolledBack", "unknown"}
      BY <1>3, <2>1, <2>2 DEF FateOf, ChangeStates, pending
    <2>4. Changes!End(o, FateOf(state))
      BY <1>1, <2>2 DEF Changes!End
    <2> QED BY <1>1, <2>3, <2>4 DEF ChangesStep, Changes!Next
  <1> QED BY <1>2, <1>3

\* A start that is executed finds nothing pending, and is the first of its window.
LEMMA StartBegins ==
  ASSUME TypeOK, IInv, queue # <<>>, Head(queue).action = "Start",
         session = NoSession \/ finished,
         NEW end \in {"none", "pending", "rolledBack", "unknown"},
         fate' = [fate EXCEPT ![Head(queue).window] = end]
  PROVE  ChangesStep
  <1>1. PICK w \in Windows : w = Head(queue).window
    BY HeadRequest
  <1>2. fate[w] = "none" /\ fate \in [Windows -> Fates]
    <2>1. 1 \in 1..Len(queue) /\ queue[1] = Head(queue)
      BY DEF TypeOK
    <2>2. QueuedStart(w, 1)
      BY <1>1, <2>1 DEF QueuedStart
    <2>3. StartAhead(w)
      BY <2>1, <2>2 DEF StartAhead
    <2> QED BY <2>3 DEF IInv, StartInv, TypeOK
  <1>3. \A v \in Windows : fate[v] # "pending"
    BY DEF IInv, PendingHasSession, finished, NoSession, pending
  <1>4. CASE end = "none"
    BY <1>1, <1>2, <1>4 DEF ChangesStep
  <1>5. CASE end # "none"
    <2>1. Changes!Begin(w, end)
      BY <1>1, <1>2, <1>3 DEF Changes!Begin
    <2> QED BY <1>1, <1>5, <2>1 DEF ChangesStep, Changes!Next
  <1> QED BY <1>4, <1>5

\* The death of the helper ends the one change that was pending.
LEMMA AbandonedEnds ==
  ASSUME TypeOK, IInv, fate' = Abandoned
  PROVE  ChangesStep
  <1>1. fate \in [Windows -> Fates]
    BY DEF TypeOK
  <1>2. CASE \A v \in Windows : fate[v] # "pending"
    BY <1>1, <1>2 DEF ChangesStep, Abandoned
  <1>3. ASSUME NEW v \in Windows, fate[v] = "pending"
        PROVE  ChangesStep
    <2>1. \A w \in Windows : fate[w] = "pending" => w = v
      BY <1>3 DEF IInv, PendingHasSession
    <2>2. fate' = [fate EXCEPT ![v] = "rolledBack"]
      BY <1>1, <1>3, <2>1 DEF Abandoned
    <2>3. Changes!End(v, "rolledBack")
      BY <1>3, <2>2 DEF Changes!End
    <2> QED BY <2>3 DEF ChangesStep, Changes!Next
  <1> QED BY <1>2, <1>3

\* A request with the session's ticket, or without it.
LEMMA RequestEnds ==
  ASSUME TypeOK, IInv, NEW w \in Windows, NEW answer,
         HandleStatus(w, answer) \/ HandleConfirm(w, answer) \/ HandleCancel(w, answer)
  PROVE  ChangesStep
  <1>1. CASE UNCHANGED helperVars
    BY <1>1 DEF ChangesStep, helperVars
  <1>2. CASE ~UNCHANGED helperVars
    <2>1. authorized(w) /\ session.owner \in Windows /\ session.state \in ChangeStates
      BY <1>2 DEF HandleStatus, HandleConfirm, HandleCancel, authorized, TypeOK
    <2>2. PICK state : Becomes(state) /\ state \in ChangeStates
            /\ (pending(session.state) => state # "Idle")
            /\ (~pending(session.state) => state = session.state)
      <3>1. CASE HandleStatus(w, answer)
        BY <1>2, <2>1, <3>1 DEF HandleStatus, TickResults, ChangeStates
      <3>2. CASE HandleConfirm(w, answer)
        <4>1. PICK ticked \in TickResults(session.state) :
                \E state \in IF ticked = "AwaitingConfirmation" THEN {"Committed"} \cup RevertResults
                                                                 ELSE {ticked} : Becomes(state)
          BY <1>2, <2>1, <3>2 DEF HandleConfirm
        <4>2. CASE ticked = "AwaitingConfirmation"
          <5>1. pending(session.state)
            BY <4>2 DEF TickResults, pending
          <5> QED BY <4>1, <4>2, <5>1 DEF RevertResults, ChangeStates
        <4>3. CASE ticked # "AwaitingConfirmation"
          BY <2>1, <4>1, <4>3 DEF TickResults, ChangeStates
        <4> QED BY <4>2, <4>3
      <3>3. CASE HandleCancel(w, answer)
        BY <1>2, <2>1, <3>3 DEF HandleCancel, RevertResults, ChangeStates
      <3> QED BY <3>1, <3>2, <3>3
    <2> QED BY <2>1, <2>2, BecomesEnds
  <1> QED BY <1>1, <1>2

\* Every step of the path is a step of the changes or invisible to them.
LEMMA NextChanges ==
  ASSUME TypeOK, IInv, [Next]_vars
  PROVE  [Changes!Next]_fate
  <1> SUFFICES ChangesStep
    BY DEF ChangesStep
  <1>1. CASE Serve
    <2>1. PICK answer \in Replies : handle(Head(queue), answer)
      BY <1>1 DEF Serve
    <2>2. Head(queue).window \in Windows /\ queue # <<>>
      BY <1>1, HeadRequest DEF Serve
    <2>3. CASE Head(queue).action = "Start" /\ HandleStart(Head(queue).window, answer)
      <3>1. CASE UNCHANGED helperVars
        BY <3>1 DEF ChangesStep, helperVars
      <3>2. CASE ~UNCHANGED helperVars
        <4>1. PICK state \in {"Idle", "Connecting"} \cup RevertResults :
                /\ session = NoSession \/ finished
                /\ fate' = [fate EXCEPT ![Head(queue).window] = FateOf(state)]
          BY <2>3, <3>2 DEF HandleStart
        <4>2. FateOf(state) \in {"none", "pending", "rolledBack", "unknown"}
          BY DEF FateOf, RevertResults, pending
        <4> QED BY <2>2, <2>3, <4>1, <4>2, StartBegins
      <3> QED BY <3>1, <3>2
    <2>4. CASE HandleStatus(Head(queue).window, answer) \/ HandleConfirm(Head(queue).window, answer)
                 \/ HandleCancel(Head(queue).window, answer)
      BY <2>2, <2>4, RequestEnds
    <2> QED BY <2>1, <2>3, <2>4 DEF handle
  <1>2. CASE Tick
    <2>1. session.owner \in Windows /\ pending(session.state)
      BY <1>2 DEF Tick, HelperTick, HelperTimeout, IInv, SessionInv, NoSession, pending, TypeOK
    <2>2. PICK state \in ChangeStates : Becomes(state) /\ state # "Idle"
      BY <1>2 DEF Tick, HelperTick, HelperTimeout, TickResults, RevertResults, ChangeStates, pending
    <2> QED BY <2>1, <2>2, BecomesEnds
  <1>3. CASE Dies
    BY <1>3, AbandonedEnds DEF Dies, HelperDies
  <1>4. CASE DiesInside
    <2>1. queue # <<>> /\ Head(queue).window \in Windows /\ HelperDiesInside(Head(queue))
      BY <1>4, HeadRequest DEF DiesInside
    <2>2. CASE fate' = Abandoned
      BY <2>2, AbandonedEnds
    <2>3. CASE /\ authorized(Head(queue).window) /\ pending(session.state)
               /\ fate' = [fate EXCEPT ![Head(queue).window] = "committed"]
      <3>1. PICK w \in Windows : w = Head(queue).window
        BY <2>1
      <3>2. fate[w] = "pending"
        <4>1. session.owner = w /\ session.state \in ChangeStates /\ fate[w] = FateOf(session.state)
          BY <2>3, <3>1 DEF authorized, IInv, SessionInv, TypeOK
        <4> QED BY <2>3, <4>1, FateOfState
      <3>3. Changes!End(w, "committed")
        BY <2>3, <3>1, <3>2 DEF Changes!End
      <3> QED BY <3>3 DEF ChangesStep, Changes!Next
    <2>4. CASE /\ Head(queue).action = "Start" /\ (session = NoSession \/ finished)
               /\ fate' = [fate EXCEPT ![Head(queue).window] = "rolledBack"]
      BY <2>1, <2>4, StartBegins
    <2> QED BY <2>1, <2>2, <2>3, <2>4 DEF HelperDiesInside
  <1>5. CASE UNCHANGED fate
    BY <1>5 DEF ChangesStep
  <1> QED BY <1>1, <1>2, <1>3, <1>4, <1>5 DEF Next, ClickStart, Click, RefreshTimer, send,
       PollTimer, Close, CallLost, ServerRejects, request_wifi_change, GivesUp, helperVars, vars

\* The whole path from the dialog to the helper, with its lost answers, late
\* requests and dying helpers, implements the changes: each begins once at most,
\* beside no other one, and its end is final.
THEOREM ChangesRefined == Spec => ImplementsChanges
  <1>1. Init => Changes!Init
    BY DEF Init, Changes!Init
  <1> QED BY <1>1, NextChanges, InvariantCorrect, PTL DEF Spec, ImplementsChanges, Changes!Spec
=============================================================================
