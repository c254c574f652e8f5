----------------------------- MODULE BindingPanel -----------------------------
(***************************************************************************)
(* The panels of the administrator's window (admin/src/admin_window.cpp)   *)
(* that cache what the server said: the client binding policy with its     *)
(* switch, and the analysis of locked accounts.                            *)
(*                                                                         *)
(* A console is one thread that blocks in each request, so a handler that  *)
(* sends several requests meets other consoles and the server's clients    *)
(* between two of them.  A request may never reach the server, or be       *)
(* carried out and its answer lost.                                        *)
(***************************************************************************)
EXTENDS Naturals

CONSTANTS
  Consoles,     \* running administrator programs
  Clients,      \* client_id values of the binding policy
  Users         \* accounts the monitor may lock

VARIABLES
  enabled,   \* ServerContext::binding_enabled
  allowed,   \* ServerContext::client_bindings
  locked,    \* accounts whose lock_until_ts is in the future
  pc,        \* what the console's thread is doing
  target,    \* onToggleBinding: the value to set
  reading,   \* the client list of a get_binding answer in preparation
  view,      \* cached_binding_enabled_, cached_clients_ and the text shown
  report     \* accounts the analysis shows as locked

policyVars == <<enabled, allowed>>
panelVars == <<pc, target, reading, view>>
vars == <<policyVars, locked, panelVars, report>>

Policies == [Clients -> {"unknown", "allowed", "blocked"}]
NoClients == [k \in Clients |-> "unknown"]
NoView == [known |-> FALSE, on |-> FALSE, clients |-> NoClients]

TypeOK ==
  /\ enabled \in BOOLEAN /\ allowed \in Policies /\ locked \subseteq Users
  /\ pc \in [Consoles -> {"idle", "fetch", "set", "list", "flag"}]
  /\ target \in [Consoles -> BOOLEAN]
  /\ reading \in [Consoles -> Policies]
  /\ view \in [Consoles -> [known : BOOLEAN, on : BOOLEAN, clients : Policies]]
  /\ \A c \in Consoles : view[c].known \/ view[c] = NoView
  /\ report \in [Consoles -> SUBSET Users]

Init ==
  /\ enabled = FALSE /\ allowed = NoClients /\ locked = {}
  /\ pc = [c \in Consoles |-> "idle"]
  /\ target = [c \in Consoles |-> FALSE]
  /\ reading = [c \in Consoles |-> NoClients]
  /\ view = [c \in Consoles |-> NoView]
  /\ report = [c \in Consoles |-> {}]

-----------------------------------------------------------------------------
(* The server. *)

\* register_client: an unknown client is recorded when it first connects.
RegisterClient(k) ==
  /\ allowed[k] = "unknown"
  /\ allowed' = [allowed EXCEPT ![k] = IF enabled THEN "blocked" ELSE "allowed"]
  /\ UNCHANGED <<enabled, locked, panelVars, report>>

\* The monitor locks an account, or a lock ends.
LockChange(u) ==
  /\ locked' = IF u \in locked THEN locked \ {u} ELSE locked \cup {u}
  /\ UNCHANGED <<policyVars, panelVars, report>>

-----------------------------------------------------------------------------
(* The binding policy. *)

At(c, from, to) == pc[c] = from /\ pc' = [pc EXCEPT ![c] = to]

\* onRefreshBinding, by hand, by the timer or after a change.
OnRefreshBinding(c) ==
  /\ At(c, "idle", "list")
  /\ UNCHANGED <<policyVars, locked, target, reading, view, report>>

\* admin_get_binding reads the clients under binding_mutex ...
GetBindingList(c) ==
  /\ At(c, "list", "flag")
  /\ reading' = [reading EXCEPT ![c] = allowed]
  /\ UNCHANGED <<policyVars, locked, target, view, report>>

\* Wrong on purpose: the cache is filled once and then kept.
GetBindingFlag_Bug(c) ==
  /\ At(c, "flag", "idle")
  /\ view' = [view EXCEPT ![c] =
       [known |-> TRUE, on |-> IF @.known THEN @.on ELSE enabled, clients |-> reading[c]]]
  /\ reading' = [reading EXCEPT ![c] = NoClients]
  /\ UNCHANGED <<policyVars, locked, target, report>>

\* ... and binding_enabled after it; the answer fills the cache.
GetBindingFlag(c) ==
  /\ At(c, "flag", "idle")
  /\ view' = [view EXCEPT ![c] = [known |-> TRUE, on |-> enabled, clients |-> reading[c]]]
  /\ reading' = [reading EXCEPT ![c] = NoClients]
  /\ UNCHANGED <<policyVars, locked, target, report>>

\* A request fails before the server has acted, or its answer is lost where
\* the server changes nothing: the handler returns.
RequestFails(c) ==
  /\ pc[c] # "idle"
  /\ pc' = [pc EXCEPT ![c] = "idle"]
  /\ reading' = [reading EXCEPT ![c] = NoClients]
  /\ target' = [target EXCEPT ![c] = FALSE]
  /\ UNCHANGED <<policyVars, locked, view, report>>

\* onToggleBinding with a cached value ...
OnToggleBinding(c) ==
  /\ IF view[c].known THEN At(c, "idle", "set") ELSE At(c, "idle", "fetch")
  /\ target' = [target EXCEPT ![c] = view[c].known /\ ~view[c].on]
  /\ UNCHANGED <<policyVars, locked, reading, view, report>>

\* ... or with one fetched for the purpose, which is not cached.
ToggleFetched(c) ==
  /\ At(c, "fetch", "set")
  /\ target' = [target EXCEPT ![c] = ~enabled]
  /\ UNCHANGED <<policyVars, locked, reading, view, report>>

\* Wrong on purpose: the server flips its own flag.
SetBinding_Bug(c) ==
  /\ pc[c] = "set"
  /\ enabled' = ~enabled
  /\ pc' = [pc EXCEPT ![c] = "list"]
  /\ target' = [target EXCEPT ![c] = FALSE]
  /\ UNCHANGED <<allowed, locked, reading, view, report>>

\* admin_set_binding; the handler goes on to refresh if it is answered.
SetBinding(c) ==
  /\ pc[c] = "set"
  /\ enabled' = target[c]
  /\ \E next \in {"list", "idle"} : pc' = [pc EXCEPT ![c] = next]
  /\ target' = [target EXCEPT ![c] = FALSE]
  /\ UNCHANGED <<allowed, locked, reading, view, report>>

\* onAllowClient, onBlockClient with admin_set_client_allowed.
SetClientAllowed(c, k, v) ==
  /\ \E next \in {"list", "idle"} : At(c, "idle", next)
  /\ allowed' = [allowed EXCEPT ![k] = v]
  /\ UNCHANGED <<enabled, locked, target, reading, view, report>>

-----------------------------------------------------------------------------
(* Locked accounts. *)

\* Wrong on purpose: the answer about locks is dropped.
OnRefreshStats_Bug(c) ==
  /\ pc[c] = "idle"
  /\ report' = [report EXCEPT ![c] = {}]
  /\ UNCHANGED <<policyVars, locked, panelVars>>

\* onRefreshStats with renderPatternAnalysis: when only the request for the
\* locks fails, none is shown.
OnRefreshStats(c) ==
  /\ pc[c] = "idle"
  /\ \E r \in {locked, {}} : report' = [report EXCEPT ![c] = r]
  /\ UNCHANGED <<policyVars, locked, panelVars>>

\* onUnlockUser: the user is chosen from the locks of a moment ago, so the
\* lock may have ended meanwhile; the statistics are refreshed at the end
\* unless the answer is lost.
OnUnlockUser(c, u) ==
  /\ pc[c] = "idle"
  /\ locked' = locked \ {u}
  /\ \E r \in {locked', {}, report[c]} : report' = [report EXCEPT ![c] = r]
  /\ UNCHANGED <<policyVars, panelVars>>

\* The program is closed and opened again: nothing of this is stored.
ConsoleRestart(c) ==
  /\ pc' = [pc EXCEPT ![c] = "idle"]
  /\ target' = [target EXCEPT ![c] = FALSE]
  /\ reading' = [reading EXCEPT ![c] = NoClients]
  /\ view' = [view EXCEPT ![c] = NoView]
  /\ report' = [report EXCEPT ![c] = {}]
  /\ UNCHANGED <<policyVars, locked>>

-----------------------------------------------------------------------------
Next ==
  \/ \E k \in Clients : RegisterClient(k)
  \/ \E u \in Users : LockChange(u)
  \/ \E c \in Consoles :
       \/ ConsoleRestart(c)
       \/ OnRefreshBinding(c)
       \/ GetBindingList(c)
       \/ GetBindingFlag(c)
       \/ RequestFails(c)
       \/ OnToggleBinding(c)
       \/ ToggleFetched(c)
       \/ SetBinding(c)
       \/ \E k \in Clients, v \in {"allowed", "blocked"} : SetClientAllowed(c, k, v)
       \/ OnRefreshStats(c)
       \/ \E u \in Users : OnUnlockUser(c, u)

Spec == Init /\ [][Next]_vars

\* The 30-second timer keeps calling onAutoRefresh, every request ends (its
\* I/O has a time-out), and answers keep coming though any may be lost.
Fairness ==
  \A c \in Consoles :
    /\ WF_vars(RequestFails(c))
    /\ SF_vars(OnRefreshBinding(c))
    /\ SF_vars(GetBindingList(c))
    /\ SF_vars(GetBindingFlag(c))
    /\ SF_vars(OnRefreshStats(c) /\ report'[c] = locked)

LiveSpec == Spec /\ Fairness

-----------------------------------------------------------------------------
(* Properties. *)

\* A repeated or concurrent toggle sets the opposite of what that operator
\* was shown: the server's switch never moves to the value that the console
\* moving it was displaying.
ToggleFollowsView ==
  [][\A c \in Consoles :
       (pc[c] = "set" /\ pc'[c] # "set" /\ enabled' # enabled /\ view[c].known)
         => enabled' # view[c].on]_vars

\* Once the policy no longer changes, every console comes to show it, though
\* refreshes fail and the flag is read outside the mutex.
ViewsConverge ==
  <>[][FALSE]_policyVars =>
    \A c \in Consoles : []<>(view[c].known /\ view[c].on = enabled /\ view[c].clients = allowed)

\* A lock that lasts is reported again and again, although a failed request
\* for the locks shows none.
LockReported ==
  \A c \in Consoles, u \in Users : []<>(u \notin locked \/ u \in report[c])
===============================================================================
