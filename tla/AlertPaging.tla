----------------------------- MODULE AlertPaging ------------------------------
(***************************************************************************)
(* Alerts from the server's audit file (server/src/audit.cpp) to the lists *)
(* of the administrators' windows (admin/src/admin_window.cpp), which poll *)
(* for what is newer than the last identifier they were given.             *)
(*                                                                         *)
(* A line is [id, n]: the identifier in the file, and the number of the    *)
(* alert itself, which only the properties use.                            *)
(***************************************************************************)
EXTENDS Naturals, Sequences, FiniteSets

CONSTANTS
  Consoles,     \* running administrator programs
  Limit,        \* alerts asked for at once (200 in the code)
  MaxAlerts,    \* bound: alerts raised
  AppendFails   \* the alert file may refuse a line

PagingAssumption ==
  Limit \in Nat /\ MaxAlerts \in Nat /\ AppendFails \in BOOLEAN

VARIABLES
  file,      \* alert_path_
  nextId,    \* AuditService::next_alert_id_
  raised,    \* history: alerts raised so far
  last,      \* last_alert_ids_ of each console, 0 when absent
  list,      \* alert_list_: the alerts shown, by n
  skipped    \* history: alerts the limit kept from a console

serverVars == <<file, nextId, raised>>
consoleVars == <<last, list, skipped>>
vars == <<serverVars, consoleVars>>

Lines == [id : 1..MaxAlerts, n : 1..MaxAlerts]

TypeOK ==
  /\ file \in Seq(Lines)
  /\ nextId \in 1..(MaxAlerts + 1) /\ raised \in 0..MaxAlerts
  /\ last \in [Consoles -> 0..MaxAlerts]
  /\ list \in [Consoles -> Seq(1..MaxAlerts)]
  /\ skipped \in [Consoles -> SUBSET (1..MaxAlerts)]

Init ==
  /\ file = <<>> /\ nextId = 1 /\ raised = 0
  /\ last = [c \in Consoles |-> 0]
  /\ list = [c \in Consoles |-> <<>>]
  /\ skipped = [c \in Consoles |-> {}]

-----------------------------------------------------------------------------
(* The server. *)

\* log_alert: the identifier is consumed even when the line is not written.
LogAlert ==
  /\ raised < MaxAlerts
  /\ raised' = raised + 1
  /\ nextId' = nextId + 1
  /\ \/ file' = Append(file, [id |-> nextId, n |-> raised + 1])
     \/ AppendFails /\ file' = file
  /\ UNCHANGED consoleVars

\* Wrong on purpose: alerts are numbered by counting the lines of the file.
LoadLastAlertId_Bug == Len(file)

\* load_last_alert_id: the largest identifier of the file.
LoadLastAlertId ==
  CHOOSE m \in {0} \cup {file[k].id : k \in DOMAIN file} :
    \A k \in DOMAIN file : file[k].id <= m

\* The server process is started again.
ServerRestart ==
  /\ nextId' = LoadLastAlertId + 1
  /\ UNCHANGED <<file, raised, consoleVars>>

-----------------------------------------------------------------------------
(* The consoles. *)

\* The lines at the positions in P, in the order of the file.
LinesAt(P) ==
  [i \in 1..Cardinality(P) |-> file[CHOOSE k \in P : Cardinality({j \in P : j <= k}) = i]]

\* Wrong on purpose: the alert of the given identifier is sent again.
Fresh_Bug(since) == LinesAt({k \in DOMAIN file : file[k].id >= since})

\* Wrong on purpose: nothing is answered until an answer is full.
Fresh_Late(since) ==
  LET s == LinesAt({k \in DOMAIN file : file[k].id > since}) IN
    IF Len(s) < Limit THEN <<>> ELSE s

\* get_alerts_since before the limit.
Fresh(since) == LinesAt({k \in DOMAIN file : file[k].id > since})

\* Wrong on purpose: the newest lines over the limit are dropped.
GetAlertsSince_Bug(since) ==
  LET s == Fresh(since) IN IF Limit > 0 /\ Len(s) > Limit THEN SubSeq(s, 1, Limit) ELSE s

\* get_alerts_since with the limit: the oldest lines over it are dropped.
GetAlertsSince(since) ==
  LET s == Fresh(since) IN
    IF Limit > 0 /\ Len(s) > Limit THEN SubSeq(s, Len(s) - Limit + 1, Len(s)) ELSE s

\* admin_get_alerts: the last_id of the answer.
LastId(since, s) ==
  CHOOSE m \in {since} \cup {s[k].id : k \in DOMAIN s} :
    m >= since /\ \A k \in DOMAIN s : s[k].id <= m

\* onRefreshAlerts with an answer; without one nothing changes.
OnRefreshAlerts(c) ==
  /\ LET s == GetAlertsSince(last[c])
         f == Fresh(last[c]) IN
       /\ list' = [list EXCEPT ![c] = @ \o [k \in DOMAIN s |-> s[k].n]]
       /\ last' = [last EXCEPT ![c] = LastId(@, s)]
       /\ skipped' = [skipped EXCEPT ![c] =
            @ \cup ({f[k].n : k \in DOMAIN f} \ {s[k].n : k \in DOMAIN s})]
  /\ UNCHANGED serverVars

\* The program is closed and opened again: nothing of this is stored.
ConsoleRestart(c) ==
  /\ last' = [last EXCEPT ![c] = 0]
  /\ list' = [list EXCEPT ![c] = <<>>]
  /\ skipped' = [skipped EXCEPT ![c] = {}]
  /\ UNCHANGED serverVars

-----------------------------------------------------------------------------
Next ==
  \/ LogAlert
  \/ ServerRestart
  \/ \E c \in Consoles : OnRefreshAlerts(c) \/ ConsoleRestart(c)

Spec == Init /\ [][Next]_vars

\* The 30-second timer keeps calling onAutoRefresh; any request may fail, but
\* answers keep coming.
Fairness == \A c \in Consoles : SF_vars(OnRefreshAlerts(c))

LiveSpec == Spec /\ Fairness

-----------------------------------------------------------------------------
(* Properties. *)

Shown(c, n) == \E j \in DOMAIN list[c] : list[c][j] = n

\* A console never shows an alert twice, and shows alerts in the order in
\* which they were raised: identifiers are never given twice, not even after
\* lines were lost and the server was restarted.
AlertsOnce ==
  \A c \in Consoles : \A i, j \in DOMAIN list[c] : i < j => list[c][i] < list[c][j]

\* An alert in the file whose identifier a console has passed was shown to
\* it, or fell to the limit of one answer; nothing else is passed over.
OnlyOverflowSkips ==
  \A c \in Consoles, k \in DOMAIN file :
    file[k].id <= last[c] => Shown(c, file[k].n) \/ file[k].n \in skipped[c]

\* The limit passes over an alert only when at least Limit newer ones are
\* shown in its place.
OverflowIsOldest ==
  \A c \in Consoles : \A n \in skipped[c] :
    Cardinality({j \in DOMAIN list[c] : list[c][j] > n}) >= Limit

\* Every alert in the file reaches every console, or falls to its limit.
AlertReaches ==
  \A c \in Consoles, n \in 1..MaxAlerts :
    (\E k \in DOMAIN file : file[k].n = n) ~> (Shown(c, n) \/ n \in skipped[c])
===============================================================================
