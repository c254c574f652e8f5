--------------------------- MODULE ServerSession ---------------------------
(***************************************************************************)
(* handle_session() and the handlers of server/src/main.cpp: a detached    *)
(* thread per connection, each serving one request.  The handlers are cut  *)
(* at every release of users_mutex, binding_mutex and the monitor's mutex, *)
(* so anything may happen between two checks of one request.               *)
(*                                                                         *)
(* The monitor (module SecurityMonitor) appears as locked[u]: each of its  *)
(* record_* calls may lock the account, and the clock may unlock it.       *)
(* A session here is a thread slot: it serves request after request.       *)
(***************************************************************************)
EXTENDS UserStore

CONSTANTS
  Sessions,
  Clients,         \* client_id values
  ConfigBinding    \* client_binding_enabled in server.conf

ASSUME BindingAssumption == ConfigBinding \in BOOLEAN

VARIABLES
  locked,          \* monitor: lock_until_ts > now
  binding,         \* binding_enabled and client_bindings[].allowed
  pc,              \* next check of each session
  req,             \* its request
  seen             \* history: the permits in force at some moment since arrival

vars == <<users, usersDb, locked, binding, pc, req, seen>>

FileOps == Rights
Steps   == {"idle", "register", "allowed", "locked", "verify", "success",
            "locked2", "serve", "record", "permissions", "admin", "answered"}
NoReq   == [op |-> "none"]

Bindings == [enabled : BOOLEAN, allowed : [Clients -> {"unknown", "yes", "no"}]]

ClientRequests ==
  [op : FileOps \cup {"auth_check"}, user : Users, password : Passwords,
   client : Clients, port : {"main"}]
    \cup
  [op : {"change_password"}, user : Users, password : Passwords, client : Clients,
   new : Passwords \cup {Unusable}, port : {"main", "admin"}]

AdminRequests ==
  [op : {"create", "reset"}, user : Users, new : Passwords, token : {TRUE}]
    \cup [op : {"block"}, user : Users, blocked : BOOLEAN, token : BOOLEAN]
    \cup [op : {"permissions"}, user : Users, rights : SUBSET Rights, token : {TRUE}]
    \cup [op : {"unlock"}, user : Users, token : {TRUE}]
    \cup [op : {"set_binding"}, enabled : BOOLEAN, token : {TRUE}]
    \cup [op : {"set_client"}, client : Clients, allowed : {"yes", "no"}, token : {TRUE}]

IsAdmin(r) == "token" \in DOMAIN r

-----------------------------------------------------------------------------
(* History: what permits request r in the current state *)

Permits(r) ==
  IF IsAdmin(r) \/ r = NoReq THEN {}
  ELSE {x \in {"account", "unlocked", "client"} :
          CASE x = "account"  -> /\ users[r.user] # NoAccount
                                 /\ ~users[r.user].blocked
                                 /\ users[r.user].password = r.password
                                 /\ r.op \in Rights =>
                                      r.op \in users[r.user].permissions
            [] x = "unlocked" -> ~locked[r.user]
            [] x = "client"   -> binding.enabled => binding.allowed[r.client] = "yes"}

\* Conjoined with every step.
Observe ==
  seen' = [s \in Sessions |->
             IF pc'[s] = "idle" THEN {} ELSE seen[s] \cup Permits(req[s])']

-----------------------------------------------------------------------------

Goto(s, step) == pc' = [pc EXCEPT ![s] = step] /\ UNCHANGED req

\* The thread ends.
End(s) ==
  /\ pc'  = [pc EXCEPT ![s] = "idle"]
  /\ req' = [req EXCEPT ![s] = NoReq]

\* send_error() and the early return.
Refuse(s) == End(s)

\* status=ok has been sent.
Answer(s) == Goto(s, "answered")

Init ==
  /\ users \in [Users -> [password : Passwords, blocked : {FALSE},
                          permissions : {Rights}] \cup {NoAccount}]
  /\ usersDb   = users
  /\ locked    = [u \in Users |-> FALSE]
  /\ binding   = [enabled |-> ConfigBinding, allowed |-> [c \in Clients |-> "unknown"]]
  /\ pc        = [s \in Sessions |-> "idle"]
  /\ req       = [s \in Sessions |-> NoReq]
  /\ seen      = [s \in Sessions |-> {}]

\* A connection is accepted, its header read and its operation dispatched.  An
\* admin_ operation needs the token and the administrative port takes nothing
\* else; any other request is refused at once, with no effect.
Arrive(s, r) ==
  /\ pc[s] = "idle"
  /\ IF IsAdmin(r) THEN r.token ELSE r.port = "main"
  /\ pc'  = [pc EXCEPT ![s] = IF IsAdmin(r) THEN "admin" ELSE "register"]
  /\ req' = [req EXCEPT ![s] = r]
  /\ UNCHANGED <<users, usersDb, locked, binding>>

\* Any other early return: a bad field, a lost connection, a failed operation,
\* or a lock that has just expired but was read with an older clock.
Fails(s) ==
  /\ pc[s] \notin {"idle", "record", "answered"}
  /\ Refuse(s)
  /\ UNCHANGED <<users, usersDb, locked, binding>>

\* The connection is closed after the answer.
Close(s) ==
  /\ pc[s] = "answered"
  /\ End(s)
  /\ UNCHANGED <<users, usersDb, locked, binding>>

-----------------------------------------------------------------------------
(* enforce_client_binding *)

\* A client not seen before is trusted exactly when the policy is off.
register_client(s) ==
  /\ pc[s] = "register"
  /\ binding' = [binding EXCEPT !.allowed[req[s].client] =
                   IF @ # "unknown" THEN @ ELSE IF binding.enabled THEN "no" ELSE "yes"]
  /\ Goto(s, "allowed")
  /\ UNCHANGED <<users, usersDb, locked>>

is_client_allowed(s) ==
  /\ pc[s] = "allowed"
  /\ IF binding.enabled => binding.allowed[req[s].client] = "yes"
       THEN Goto(s, "locked") ELSE Refuse(s)
  /\ UNCHANGED <<users, usersDb, locked, binding>>

-----------------------------------------------------------------------------
(* The handlers *)

\* is_locked(), before the password and again after a successful login.
is_locked(s) ==
  /\ pc[s] \in {"locked", "locked2"}
  /\ IF locked[req[s].user] THEN Refuse(s)
     ELSE Goto(s, IF pc[s] = "locked" THEN "verify" ELSE "serve")
  /\ UNCHANGED <<users, usersDb, locked, binding>>

\* A record_* call of the monitor: the account may be locked by it.
MayLock(u) == locked' \in {locked, [locked EXCEPT ![u] = TRUE]}

\* One users_mutex section of encrypt, decrypt and auth_check: the password,
\* then the right to the operation.  A failure is recorded inside it.
Verify(s) ==
  /\ pc[s] = "verify"
  /\ req[s].op # "change_password"
  /\ \/ /\ ~verify(req[s].user, req[s].password)
        /\ Refuse(s)
        /\ MayLock(req[s].user)
     \/ /\ verify(req[s].user, req[s].password)
        /\ IF req[s].op \in Rights /\ req[s].op \notin permissions(req[s].user)
             THEN Refuse(s) ELSE Goto(s, "success")
        /\ UNCHANGED locked
  /\ UNCHANGED <<users, usersDb, binding>>

\* record_login_success(), which can lock the account for its unusual hour.
LoginSuccess(s) ==
  /\ pc[s] = "success"
  /\ MayLock(req[s].user)
  /\ Goto(s, IF req[s].op \in FileOps THEN "locked2" ELSE "permissions")
  /\ UNCHANGED <<users, usersDb, binding>>

\* The cryptographic work and the answer.
Serve(s) ==
  /\ pc[s] = "serve"
  /\ Goto(s, "record")
  /\ UNCHANGED <<users, usersDb, locked, binding>>

\* record_file_op(), after the answer.
RecordFileOp(s) ==
  /\ pc[s] = "record"
  /\ MayLock(req[s].user)
  /\ Answer(s)
  /\ UNCHANGED <<users, usersDb, binding>>

\* auth_check reads the permissions in a second users_mutex section.
AuthReply(s) ==
  /\ pc[s] = "permissions"
  /\ Answer(s)
  /\ UNCHANGED <<users, usersDb, locked, binding>>

\* Wrong on purpose: the password is verified in an earlier section.
ChangePassword_Unverified(s, ok) ==
  /\ pc[s] = "verify"
  /\ req[s].op = "change_password"
  /\ MayLock(req[s].user)
  /\ "account" \in seen[s] /\ exists(req[s].user) /\ req[s].new # Unusable
  /\ Save(upsert(req[s].user, req[s].new), ok)
  /\ (IF ok THEN Answer(s) ELSE Refuse(s))
  /\ UNCHANGED binding

\* Wrong on purpose: the result of upsert() is not looked at.
ChangePassword_AnyPassword(s, ok) ==
  /\ pc[s] = "verify"
  /\ req[s].op = "change_password"
  /\ MayLock(req[s].user)
  /\ verify(req[s].user, req[s].password)
  /\ Save(upsert(req[s].user, req[s].new), ok)
  /\ (IF ok THEN Answer(s) ELSE Refuse(s))
  /\ UNCHANGED binding

\* handle_change_password holds users_mutex from verify() to save(); there is
\* no second is_locked() check.
ChangePassword(s, ok) ==
  /\ pc[s] = "verify"
  /\ req[s].op = "change_password"
  /\ MayLock(req[s].user)
  /\ IF verify(req[s].user, req[s].password) /\ req[s].new # Unusable
       THEN /\ Save(upsert(req[s].user, req[s].new), ok)
            /\ (IF ok THEN Answer(s) ELSE Refuse(s))
       ELSE /\ Refuse(s)
            /\ UNCHANGED <<users, usersDb>>
  /\ UNCHANGED binding

-----------------------------------------------------------------------------
(* Administrative operations that change state *)

\* create_user wants a new name, the other three an existing one.
AdminUser(s, ok) ==
  LET r == req[s] IN
  /\ pc[s] = "admin"
  /\ r.op \in {"create", "reset", "block", "permissions"}
  /\ IF exists(r.user) = (r.op = "create")
       THEN Refuse(s) /\ UNCHANGED <<users, usersDb>>
       ELSE /\ Save(CASE r.op = "block"       -> set_blocked(r.user, r.blocked)
                      [] r.op = "permissions" -> set_permissions(r.user, r.rights)
                      [] OTHER                -> upsert(r.user, r.new), ok)
            /\ (IF ok THEN Answer(s) ELSE Refuse(s))
  /\ UNCHANGED <<locked, binding>>

\* unlock_user() of the monitor.
AdminUnlock(s) ==
  /\ pc[s] = "admin"
  /\ req[s].op = "unlock"
  /\ locked' = [locked EXCEPT ![req[s].user] = FALSE]
  /\ Answer(s)
  /\ UNCHANGED <<users, usersDb, binding>>

AdminBinding(s) ==
  /\ pc[s] = "admin"
  /\ \/ /\ req[s].op = "set_binding"
        /\ binding' = [binding EXCEPT !.enabled = req[s].enabled]
     \/ /\ req[s].op = "set_client"
        /\ binding' = [binding EXCEPT !.allowed[req[s].client] = req[s].allowed]
  /\ Answer(s)
  /\ UNCHANGED <<users, usersDb, locked>>

-----------------------------------------------------------------------------
(* The environment *)

\* The clock reaches lock_until_ts.
LockExpires(u) ==
  /\ locked[u]
  /\ locked' = [locked EXCEPT ![u] = FALSE]
  /\ UNCHANGED <<users, usersDb, binding, pc, req>>

\* The server dies with all its threads and starts again with users.db.  The
\* databases of the monitor and of the binding policy are rewritten in place and
\* their errors ignored, so an older or a damaged one may be found; only the
\* binding flag of server.conf is certain.
Restart ==
  /\ Load
  /\ locked' \in [Users -> BOOLEAN]
  /\ binding' \in {b \in Bindings : ConfigBinding => b.enabled}
  /\ pc'  = [s \in Sessions |-> "idle"]
  /\ req' = [s \in Sessions |-> NoReq]

ClientStep(s) ==
  \/ register_client(s)
  \/ is_client_allowed(s)
  \/ is_locked(s)
  \/ Verify(s)
  \/ LoginSuccess(s)
  \/ Serve(s)
  \/ RecordFileOp(s)
  \/ AuthReply(s)
  \/ \E ok \in BOOLEAN : ChangePassword(s, ok)

AdminStep(s) ==
  \/ \E ok \in BOOLEAN : AdminUser(s, ok)
  \/ AdminUnlock(s)
  \/ AdminBinding(s)

Next ==
  /\ \/ \E s \in Sessions : \/ \E r \in ClientRequests \cup AdminRequests : Arrive(s, r)
                            \/ Fails(s)
                            \/ Close(s)
                            \/ ClientStep(s)
                            \/ AdminStep(s)
     \/ \E u \in Users : LockExpires(u)
     \/ Restart
  /\ Observe

Spec == Init /\ [][Next]_vars

-----------------------------------------------------------------------------

\* Every variable keeps its type.
TypeOK ==
  /\ {users, usersDb} \subseteq [Users -> Accounts \cup {NoAccount}]
  /\ locked \in [Users -> BOOLEAN]
  /\ binding \in Bindings
  /\ pc \in [Sessions -> Steps]
  /\ req \in [Sessions -> ClientRequests \cup AdminRequests \cup {NoReq}]

\* docs/USERS.md: a block, a right, a lock and the binding policy hold for every
\* request that comes after them.  A request that was answered has met each of
\* its permits at some moment of its own life, however the checks of its handler
\* interleave with administrators and other requests.
ServedWasAllowed ==
  \A s \in Sessions :
    pc[s] \in {"record", "answered"} /\ ~IsAdmin(req[s]) =>
      {"account", "unlocked", "client"} \subseteq seen[s]

\* An update answered with an error is in force nowhere, and one answered with
\* ok survives a restart: memory and users.db never disagree.
StoreIsDurable == users = usersDb

\* docs/USERS.md: neither a password change nor a reset lifts a block or alters
\* the rights of an account; only the administrator's own operations do.
RightsOnlyByAdmin ==
  [][\A u \in Users :
       /\ users[u] # NoAccount
       /\ users'[u] = NoAccount \/ users'[u].blocked # users[u].blocked
                               \/ users'[u].permissions # users[u].permissions
       => \E s \in Sessions :
            pc[s] = "admin" /\ req[s].op \in {"block", "permissions"} /\ req[s].user = u]_users

\* A user's own change of the password is accepted only from the password in
\* force at that moment: of two requests that both hold the old password, the
\* second is refused.
PasswordChangedByHolder ==
  [][\A s \in Sessions :
       pc[s] = "verify" /\ req[s].op = "change_password" /\ pc'[s] = "answered" =>
         /\ users[req[s].user].password = req[s].password
         /\ ~users[req[s].user].blocked]_pc
=============================================================================
