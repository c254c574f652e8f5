------------------------------- MODULE WifiScan -------------------------------
(***************************************************************************)
(* The search for networks from the administrator's dialog                 *)
(* (admin/src/network_dialog.cpp) through the server (scan_ipc.cpp) to the *)
(* socket-activated helpers: the slot of the cool-down (scan_limit.cpp)    *)
(* and the exchange with wpa_supplicant (scan_session.cpp).                *)
(*                                                                         *)
(* A helper is one process for one request.  A panel that gave up, or was  *)
(* closed, leaves its helper running.  Deadlines are not counted: a wait   *)
(* may end at any time.  A list of networks is the number of completed     *)
(* radio scans when wpa_supplicant produced it.                            *)
(***************************************************************************)
EXTENDS Naturals, Sequences

CONSTANTS
  Panels,       \* open network dialogs
  Helpers,      \* helper processes systemd runs at once (4 in the unit)
  Nobody,
  Cooldown,     \* ticks between two slots (30 s in the code)
  MaxTime,      \* bound: wall clock
  MaxScans,     \* bound: radio scans that complete
  MaxQueue      \* bound: datagrams waiting when an event is sent

ScanAssumption ==
  /\ Cooldown \in Nat /\ MaxTime \in Nat \ {0} /\ MaxScans \in Nat /\ MaxQueue \in Nat
  /\ Nobody \notin Panels \cup Helpers

VARIABLES
  wall,      \* the wall clock; it may be set back
  stamp,     \* scan-limit: the number in the file, 0 when it is empty
  slot,      \* history: wall clock of the last slot granted
  flock,     \* the helper that holds the lock on scan-limit
  radio,     \* a radio scan is under way
  scans,     \* radio scans completed
  attached,  \* helpers that receive wpa_supplicant's events
  cmd,       \* the command each helper has sent and not had answered
  queue,     \* datagrams waiting for each helper
  pc,        \* what each helper is doing
  seen,      \* completed and failed of wifi_scan_and_wait
  client,    \* the panel a helper works for, Nobody when it went away
  answer,    \* what the helper has written to its requester
  asked,     \* history: scans completed when the panel's button was pressed
  panel      \* the helper a panel waits for, and the list it shows

slotVars == <<wall, stamp, slot, flock>>
supplicantVars == <<radio, scans, attached, cmd, queue>>
helperVars == <<pc, seen, client, answer>>
panelVars == <<asked, panel>>
vars == <<slotVars, supplicantVars, helperVars, panelVars>>

Unseen == [completed |-> FALSE, failed |-> FALSE]
NoAnswer == [ok |-> FALSE, table |-> 0]
Events == {"results", "failed"}
Messages == [kind : Events \cup {"ok", "fail", "table"}, table : 0..MaxScans]
Msg(k) == [kind |-> k, table |-> 0]

TypeOK ==
  /\ wall \in 1..MaxTime /\ stamp \in 0..MaxTime /\ slot \in 0..MaxTime
  /\ flock \in Helpers \cup {Nobody}
  /\ \A h \in Helpers : flock = h <=> pc[h] = "locked"
  /\ radio \in BOOLEAN /\ scans \in 0..MaxScans /\ attached \subseteq Helpers
  /\ cmd \in [Helpers -> {"none", "ATTACH", "SCAN", "SCAN_RESULTS"}]
  /\ queue \in [Helpers -> Seq(Messages)]
  /\ pc \in [Helpers -> {"off", "reserve", "locked", "attach", "scan", "event", "table", "reply"}]
  /\ seen \in [Helpers -> [completed : BOOLEAN, failed : BOOLEAN]]
  /\ client \in [Helpers -> Panels \cup {Nobody}]
  /\ answer \in [Helpers -> [ok : BOOLEAN, table : 0..MaxScans]]
  /\ asked \in [Panels -> 0..MaxScans]
  /\ panel \in [Panels -> [helper : Helpers \cup {Nobody}, list : 0..MaxScans]]

Init ==
  /\ wall = 1 /\ stamp = 0 /\ slot = 0 /\ flock = Nobody
  /\ radio = FALSE /\ scans = 0 /\ attached = {}
  /\ cmd = [h \in Helpers |-> "none"] /\ queue = [h \in Helpers |-> <<>>]
  /\ pc = [h \in Helpers |-> "off"] /\ seen = [h \in Helpers |-> Unseen]
  /\ client = [h \in Helpers |-> Nobody] /\ answer = [h \in Helpers |-> NoAnswer]
  /\ asked = [p \in Panels |-> 0]
  /\ panel = [p \in Panels |-> [helper |-> Nobody, list |-> 0]]

-----------------------------------------------------------------------------
(* The dialog and the server's side of the helper socket. *)

\* The button: start refuses while a request is pending, and the server is
\* refused when no helper can be started.
StartScan(p, h) ==
  /\ panel[p].helper = Nobody
  /\ pc[h] = "off" /\ client[h] = Nobody
  /\ panel' = [panel EXCEPT ![p].helper = h]
  /\ asked' = [asked EXCEPT ![p] = scans]
  /\ client' = [client EXCEPT ![h] = p]
  /\ pc' = [pc EXCEPT ![h] = "reserve"]
  /\ UNCHANGED <<slotVars, supplicantVars, seen, answer>>

\* The answer arrives: a list replaces the one shown, an error keeps it.
Answered(p) ==
  LET h == panel[p].helper IN
  /\ h # Nobody /\ pc[h] = "reply" /\ client[h] = p
  /\ panel' = [panel EXCEPT ![p] =
       [helper |-> Nobody, list |-> IF answer[h].ok THEN answer[h].table ELSE @.list]]
  /\ pc' = [pc EXCEPT ![h] = "off"]
  /\ client' = [client EXCEPT ![h] = Nobody]
  /\ answer' = [answer EXCEPT ![h] = NoAnswer]
  /\ UNCHANGED <<slotVars, supplicantVars, seen, asked>>

\* 28 seconds in the server or 35 in the client have passed, or the
\* connection is lost: an error is shown and the list stays.
GiveUp(p) ==
  LET h == panel[p].helper IN
  /\ h # Nobody
  /\ panel' = [panel EXCEPT ![p].helper = Nobody]
  /\ client' = [client EXCEPT ![h] = Nobody]
  /\ UNCHANGED <<slotVars, supplicantVars, pc, seen, answer, asked>>

\* The dialog is closed; its request goes on and is answered to nobody.
CloseDialog(p) ==
  LET h == panel[p].helper IN
  /\ panel' = [panel EXCEPT ![p] = [helper |-> Nobody, list |-> 0]]
  /\ client' = IF h = Nobody THEN client ELSE [client EXCEPT ![h] = Nobody]
  /\ UNCHANGED <<slotVars, supplicantVars, pc, seen, answer, asked>>

\* transmit fails: nobody reads the answer.
Unread(h) ==
  /\ pc[h] = "reply" /\ client[h] = Nobody
  /\ pc' = [pc EXCEPT ![h] = "off"]
  /\ answer' = [answer EXCEPT ![h] = NoAnswer]
  /\ UNCHANGED <<slotVars, supplicantVars, seen, client, panelVars>>

-----------------------------------------------------------------------------
(* The helper. *)

\* The helper closes its socket (sending DETACH) and answers.
Finish(h, a) ==
  /\ pc' = [pc EXCEPT ![h] = "reply"]
  /\ answer' = [answer EXCEPT ![h] = a]
  /\ attached' = attached \ {h}
  /\ cmd' = [cmd EXCEPT ![h] = "none"]
  /\ queue' = [queue EXCEPT ![h] = <<>>]
  /\ seen' = [seen EXCEPT ![h] = Unseen]

\* reserve_scan_slot takes the lock or is told that it is busy.
Reserve(h) ==
  /\ pc[h] = "reserve"
  /\ \/ /\ flock = Nobody
        /\ flock' = h
        /\ pc' = [pc EXCEPT ![h] = "locked"]
        /\ UNCHANGED <<supplicantVars, seen, answer>>
     \/ /\ flock # Nobody
        /\ Finish(h, NoAnswer)
        /\ UNCHANGED <<flock, radio, scans>>
  /\ UNCHANGED <<wall, stamp, slot, client, panelVars>>

\* Wrong on purpose: a stamp in the future is taken for an old one.
CoolingDown_Bug == stamp # 0 /\ stamp <= wall /\ wall - stamp < Cooldown

CoolingDown == stamp # 0 /\ (stamp > wall \/ wall - stamp < Cooldown)

\* The slot is granted and the session begins with ATTACH ...
SlotGranted(h) ==
  /\ pc[h] = "locked" /\ ~CoolingDown
  /\ stamp' = wall /\ slot' = wall /\ flock' = Nobody
  /\ pc' = [pc EXCEPT ![h] = "attach"]
  /\ cmd' = [cmd EXCEPT ![h] = "ATTACH"]
  /\ UNCHANGED <<wall, radio, scans, attached, queue, seen, client, answer, panelVars>>

\* ... or is refused, or its stamp is not written whole.  A stamp whose first
\* digits only are new is not below the old one.
SlotRefused(h) ==
  /\ pc[h] = "locked"
  /\ \/ CoolingDown /\ UNCHANGED stamp
     \/ ~CoolingDown /\ stamp' \in {t \in 1..MaxTime : t >= stamp}
  /\ flock' = Nobody
  /\ Finish(h, NoAnswer)
  /\ UNCHANGED <<wall, slot, radio, scans, client, panelVars>>

Send(h, c, next) ==
  /\ cmd' = [cmd EXCEPT ![h] = c]
  /\ pc' = [pc EXCEPT ![h] = next]

\* The lambda event: what a datagram does to completed and failed.
Event(h, m) ==
  [completed |-> seen[h].completed \/ m = "results",
   failed |-> seen[h].failed \/ m = "failed"]

\* The answer to ATTACH; scan_sent is still false, events are skipped.
ReceiveAttach(h) ==
  /\ pc[h] = "attach" /\ queue[h] # <<>>
  /\ LET m == Head(queue[h]).kind IN
     \/ /\ m \in Events
        /\ queue' = [queue EXCEPT ![h] = Tail(@)]
        /\ UNCHANGED <<cmd, pc, seen, attached, answer>>
     \/ /\ m = "ok"
        /\ queue' = [queue EXCEPT ![h] = Tail(@)]
        /\ Send(h, "SCAN", "scan")
        /\ UNCHANGED <<seen, attached, answer>>
     \/ m = "fail" /\ Finish(h, NoAnswer)
  /\ UNCHANGED <<slotVars, radio, scans, client, panelVars>>

\* Wrong on purpose: OK to SCAN counts as success.
ReceiveScan_Bug(h) ==
  /\ pc[h] = "scan" /\ queue[h] # <<>>
  /\ LET m == Head(queue[h]).kind IN
     \/ /\ m \in Events
        /\ queue' = [queue EXCEPT ![h] = Tail(@)]
        /\ seen' = [seen EXCEPT ![h] = Event(h, m)]
        /\ UNCHANGED <<cmd, pc, attached, answer>>
     \/ /\ m = "ok"
        /\ queue' = [queue EXCEPT ![h] = Tail(@)]
        /\ Send(h, "SCAN_RESULTS", "table")
        /\ UNCHANGED <<seen, attached, answer>>
     \/ m = "fail" /\ Finish(h, NoAnswer)
  /\ UNCHANGED <<slotVars, radio, scans, client, panelVars>>

\* The answer to SCAN; events that come first count already.
ReceiveScan(h) ==
  /\ pc[h] = "scan" /\ queue[h] # <<>>
  /\ LET m == Head(queue[h]).kind IN
     \/ /\ m \in Events
        /\ queue' = [queue EXCEPT ![h] = Tail(@)]
        /\ seen' = [seen EXCEPT ![h] = Event(h, m)]
        /\ UNCHANGED <<cmd, pc, attached, answer>>
     \/ /\ m = "ok"
        /\ queue' = [queue EXCEPT ![h] = Tail(@)]
        /\ pc' = [pc EXCEPT ![h] = "event"]
        /\ UNCHANGED <<cmd, seen, attached, answer>>
     \/ m = "fail" /\ Finish(h, NoAnswer)
  /\ UNCHANGED <<slotVars, radio, scans, client, panelVars>>

\* The loop that waits for completion: failed wins over completed.
AwaitEvent(h) ==
  /\ pc[h] = "event"
  /\ \/ /\ seen[h] = Unseen /\ queue[h] # <<>> /\ Head(queue[h]).kind \in Events
        /\ seen' = [seen EXCEPT ![h] = Event(h, Head(queue[h]).kind)]
        /\ queue' = [queue EXCEPT ![h] = Tail(@)]
        /\ UNCHANGED <<cmd, pc, attached, answer>>
     \/ /\ seen[h].completed /\ ~seen[h].failed
        /\ Send(h, "SCAN_RESULTS", "table")
        /\ UNCHANGED <<queue, seen, attached, answer>>
     \/ seen[h].failed /\ Finish(h, NoAnswer)
  /\ UNCHANGED <<slotVars, radio, scans, client, panelVars>>

\* The answer to SCAN_RESULTS; events no longer matter.
ReceiveTable(h) ==
  /\ pc[h] = "table" /\ queue[h] # <<>>
  /\ LET m == Head(queue[h]).kind IN
     \/ /\ m \in Events
        /\ queue' = [queue EXCEPT ![h] = Tail(@)]
        /\ UNCHANGED <<cmd, pc, seen, attached, answer>>
     \/ m = "table" /\ Finish(h, [ok |-> TRUE, table |-> Head(queue[h]).table])
  /\ UNCHANGED <<slotVars, radio, scans, client, panelVars>>

\* 20 seconds have passed, or wpa_supplicant's socket is gone.
SessionFails(h) ==
  /\ pc[h] \in {"attach", "scan", "event", "table"}
  /\ Finish(h, NoAnswer)
  /\ UNCHANGED <<slotVars, radio, scans, client, panelVars>>

\* Wrong on purpose: the requester is not told that the helper died.
Killed_Bug(h) ==
  /\ pc[h] \notin {"off", "reply"}
  /\ pc' = [pc EXCEPT ![h] = "off"]
  /\ flock' = IF flock = h THEN Nobody ELSE flock
  /\ attached' = attached \ {h}
  /\ cmd' = [cmd EXCEPT ![h] = "none"]
  /\ queue' = [queue EXCEPT ![h] = <<>>]
  /\ seen' = [seen EXCEPT ![h] = Unseen]
  /\ UNCHANGED <<wall, stamp, slot, radio, scans, client, answer, panelVars>>

\* systemd ends the helper (25 s): the lock is released and its requester
\* reads an answer that is neither OK nor ERROR.
Killed(h) ==
  /\ pc[h] \notin {"off", "reply"}
  /\ flock' = IF flock = h THEN Nobody ELSE flock
  /\ Finish(h, NoAnswer)
  /\ UNCHANGED <<wall, stamp, slot, radio, scans, client, panelVars>>

-----------------------------------------------------------------------------
(* wpa_supplicant and the clock. *)

\* A command is carried out; SCAN is refused while a scan is under way.
SupplicantAnswers(h) ==
  /\ cmd[h] # "none"
  /\ cmd' = [cmd EXCEPT ![h] = "none"]
  /\ \/ /\ cmd[h] = "ATTACH"
        /\ \/ attached' = attached \cup {h} /\ queue' = [queue EXCEPT ![h] = Append(@, Msg("ok"))]
           \/ attached' = attached /\ queue' = [queue EXCEPT ![h] = Append(@, Msg("fail"))]
        /\ UNCHANGED radio
     \/ /\ cmd[h] = "SCAN"
        /\ radio' = TRUE
        /\ queue' = [queue EXCEPT ![h] = Append(@, Msg(IF radio THEN "fail" ELSE "ok"))]
        /\ UNCHANGED attached
     \/ /\ cmd[h] = "SCAN_RESULTS"
        /\ queue' = [queue EXCEPT ![h] = Append(@, [kind |-> "table", table |-> scans])]
        /\ UNCHANGED <<radio, attached>>
  /\ UNCHANGED <<slotVars, scans, helperVars, panelVars>>

\* wpa_supplicant scans by itself, for another program, or for a helper that
\* is gone.
OtherScan ==
  /\ ~radio /\ scans < MaxScans
  /\ radio' = TRUE
  /\ UNCHANGED <<slotVars, scans, attached, cmd, queue, helperVars, panelVars>>

\* A radio scan ends: every attached helper is told.
ScanEnds ==
  /\ radio /\ radio' = FALSE
  /\ \A h \in attached : Len(queue[h]) < MaxQueue
  /\ \E m \in Events :
       /\ m = "results" => scans < MaxScans
       /\ scans' = IF m = "results" THEN scans + 1 ELSE scans
       /\ queue' = [h \in Helpers |-> IF h \in attached THEN Append(queue[h], Msg(m)) ELSE queue[h]]
  /\ UNCHANGED <<slotVars, attached, cmd, helperVars, panelVars>>

ClockStep ==
  /\ wall' \in (1..MaxTime) \ {wall}
  /\ wall' <= wall + 1
  /\ UNCHANGED <<stamp, slot, flock, supplicantVars, helperVars, panelVars>>

-----------------------------------------------------------------------------
HelperStep(h) ==
  \/ Unread(h) \/ Reserve(h) \/ SlotGranted(h) \/ SlotRefused(h)
  \/ ReceiveAttach(h) \/ ReceiveScan(h) \/ AwaitEvent(h) \/ ReceiveTable(h)
  \/ SessionFails(h) \/ Killed(h)

PanelStep(p) ==
  \/ \E h \in Helpers : StartScan(p, h)
  \/ Answered(p) \/ GiveUp(p) \/ CloseDialog(p)

Next ==
  \/ \E h \in Helpers : HelperStep(h) \/ SupplicantAnswers(h)
  \/ \E p \in Panels : PanelStep(p)
  \/ OtherScan \/ ScanEnds \/ ClockStep

Spec == Init /\ [][Next]_vars

\* Every wait of a helper has an absolute deadline, the slot is decided
\* without waiting, and an answer or the end of its stream is read.  That a
\* panel's own deadline ends a wait is not assumed.
Fairness ==
  /\ \A h \in Helpers :
       /\ WF_vars(Reserve(h))
       /\ WF_vars(SlotGranted(h) \/ SlotRefused(h))
       /\ WF_vars(SessionFails(h))
  /\ \A p \in Panels : WF_vars(Answered(p))

LiveSpec == Spec /\ Fairness

-----------------------------------------------------------------------------
(* Properties. *)

\* A list handed to a waiting panel is from a radio scan that ended after
\* its button was pressed: neither OK to SCAN nor the helper of an earlier
\* request stands for the completion of this one.
AnswerIsNewer ==
  \A h \in Helpers :
    pc[h] = "reply" /\ answer[h].ok /\ client[h] # Nobody => answer[h].table > asked[client[h]]

\* Slots are at least Cooldown apart by the wall clock, however helpers
\* interleave, are killed, fail to write the stamp, or the clock is set back.
SlotsApart ==
  [][slot' # slot => slot = 0 \/ slot' >= slot + Cooldown]_vars

\* A pending search always ends: the dialog's buttons come back.
SearchEnds ==
  \A p \in Panels : panel[p].helper # Nobody ~> panel[p].helper = Nobody
===============================================================================
