------------------------ MODULE ServerSessionProofs ------------------------
(***************************************************************************)
(* Proofs about ServerSession for any number of threads, accounts,         *)
(* passwords and client identities.                                        *)
(***************************************************************************)
EXTENDS ServerSession, TLAPS

\* Steps a request of a client goes through before it is answered.
ClientSteps == Steps \ {"idle", "admin", "answered"}

\* The request a thread holds fits the step it is at.
RequestInv(s) ==
  /\ pc[s] = "idle" => req[s] = NoReq
  /\ pc[s] = "admin" => req[s] \in AdminRequests
  /\ pc[s] = "answered" => req[s] \in ClientRequests \cup AdminRequests
  /\ pc[s] \in ClientSteps => req[s] \in ClientRequests
  /\ pc[s] \in {"locked2", "serve", "record"} => req[s].op \in FileOps

\* A permit that holds now has been seen, and each check that a request is past
\* has seen the permit it looks for.
PermitInv(s) ==
  /\ pc[s] # "idle" => Permits(req[s]) \subseteq seen[s]
  /\ req[s] \in ClientRequests =>
       /\ pc[s] \notin {"register", "allowed"} => "client" \in seen[s]
       /\ pc[s] \notin {"register", "allowed", "locked"} => "unlocked" \in seen[s]
       /\ pc[s] \notin {"register", "allowed", "locked", "verify"} => "account" \in seen[s]

\* The inductive invariant.
IInv ==
  /\ TypeOK
  /\ StoreIsDurable
  /\ \A s \in Sessions : RequestInv(s) /\ PermitInv(s)

-----------------------------------------------------------------------------
(* Requests *)

\* Fields of a client's request.
LEMMA ClientFields ==
  ASSUME NEW r \in ClientRequests
  PROVE  /\ ~IsAdmin(r) /\ r # NoReq
         /\ r.user \in Users /\ r.client \in Clients /\ r.password \in Passwords
         /\ r.op \in FileOps \cup {"auth_check", "change_password"}
         /\ r.op = "change_password" => r.new \in Passwords \cup {Unusable}
  BY DEF ClientRequests, IsAdmin, NoReq, FileOps, Rights

\* Fields of an administrator's request.
LEMMA AdminFields ==
  ASSUME NEW r \in AdminRequests
  PROVE  /\ IsAdmin(r) /\ r # NoReq
         /\ r.op \in {"create", "reset", "block", "permissions", "unlock"} => r.user \in Users
         /\ r.op \in {"create", "reset"} => r.new \in Passwords
         /\ r.op = "block" => r.blocked \in BOOLEAN
         /\ r.op = "permissions" => r.rights \in SUBSET Rights
         /\ r.op = "set_binding" => r.enabled \in BOOLEAN
         /\ r.op = "set_client" => r.client \in Clients /\ r.allowed \in {"yes", "no"}
  <1>1. IsAdmin(r)
    BY DEF AdminRequests, IsAdmin
  <1>2. r # NoReq
    BY <1>1 DEF IsAdmin, NoReq
  <1>3. r.op \in {"create", "reset", "block", "permissions", "unlock"} => r.user \in Users
    BY DEF AdminRequests
  <1>4. r.op \in {"create", "reset"} => r.new \in Passwords
    BY DEF AdminRequests
  <1>5. r.op = "block" => r.blocked \in BOOLEAN
    BY DEF AdminRequests
  <1>6. r.op = "permissions" => r.rights \in SUBSET Rights
    BY DEF AdminRequests
  <1>7. r.op = "set_binding" => r.enabled \in BOOLEAN
    BY DEF AdminRequests
  <1>8. r.op = "set_client" => r.client \in Clients /\ r.allowed \in {"yes", "no"}
    BY DEF AdminRequests
  <1> QED BY <1>1, <1>2, <1>3, <1>4, <1>5, <1>6, <1>7, <1>8

\* A client's request is no administrator's one.
LEMMA RequestsDisjoint == ClientRequests \cap AdminRequests = {}
  BY ClientFields, AdminFields

-----------------------------------------------------------------------------
(* The store *)

\* Each operation of the store keeps the type of the accounts.
LEMMA StoreType ==
  ASSUME users \in [Users -> Accounts \cup {NoAccount}], NEW u \in Users
  PROVE  /\ \A p \in Passwords : upsert(u, p) \in [Users -> Accounts \cup {NoAccount}]
         /\ exists(u) => \A b \in BOOLEAN :
              set_blocked(u, b) \in [Users -> Accounts \cup {NoAccount}]
         /\ exists(u) => \A r \in SUBSET Rights :
              set_permissions(u, r) \in [Users -> Accounts \cup {NoAccount}]
  BY StoreAssumption DEF Accounts, upsert, set_blocked, set_permissions, exists

-----------------------------------------------------------------------------
(* Threads *)

\* What Observe adds: nothing seen is forgotten before the thread ends.
LEMMA Seen ==
  ASSUME Observe, NEW s \in Sessions, pc'[s] # "idle"
  PROVE  seen[s] \cup Permits(req[s])' \subseteq seen'[s]
  BY DEF Observe

\* A thread that does not move keeps its invariant whatever the others do.
LEMMA OtherThread ==
  ASSUME Observe, NEW s \in Sessions, RequestInv(s), PermitInv(s),
         pc'[s] = pc[s], req'[s] = req[s]
  PROVE  RequestInv(s)' /\ PermitInv(s)'
  <1>1. RequestInv(s)'
    BY DEF RequestInv
  <1>2. pc'[s] # "idle" => Permits(req[s])' \subseteq seen'[s] /\ seen[s] \subseteq seen'[s]
    BY Seen
  <1>3. ASSUME req[s] \in ClientRequests
        PROVE  pc'[s] # "idle"
    BY <1>3, ClientFields DEF RequestInv
  <1> QED BY <1>1, <1>2, <1>3 DEF PermitInv

\* A thread that ends is clean.
LEMMA EndedThread ==
  ASSUME Observe, NEW s \in Sessions, pc'[s] = "idle", req'[s] = NoReq
  PROVE  RequestInv(s)' /\ PermitInv(s)'
  <1>1. NoReq \notin ClientRequests
    BY ClientFields
  <1> QED BY <1>1 DEF RequestInv, PermitInv, ClientSteps

\* A thread that moves on keeps its request and what it has seen.
LEMMA MovedThread ==
  ASSUME Observe, NEW s \in Sessions, RequestInv(s), PermitInv(s),
         pc[s] # "idle", pc'[s] # "idle", req'[s] = req[s],
         RequestInv(s)',
         req[s] \in ClientRequests =>
           /\ pc[s] \in {"register", "allowed"} =>
                pc'[s] \in {"register", "allowed"} \/ "client" \in Permits(req[s])'
           /\ pc[s] \in {"register", "allowed", "locked"} =>
                \/ pc'[s] \in {"register", "allowed", "locked"}
                \/ "unlocked" \in Permits(req[s])'
           /\ pc[s] \in {"register", "allowed", "locked", "verify"} =>
                \/ pc'[s] \in {"register", "allowed", "locked", "verify"}
                \/ "account" \in Permits(req[s])' \cup Permits(req[s])
  PROVE  PermitInv(s)'
  BY Seen DEF PermitInv
\* One thread moves and the others keep their invariant.
LEMMA OneMoves ==
  ASSUME IInv, Observe, NEW s \in Sessions,
         \A q \in Sessions \ {s} : pc'[q] = pc[q] /\ req'[q] = req[q],
         RequestInv(s)' /\ PermitInv(s)'
  PROVE  \A q \in Sessions : RequestInv(q)' /\ PermitInv(q)'
  BY OtherThread DEF IInv

-----------------------------------------------------------------------------
(* One lemma per action: it keeps the invariant *)

\* A request arrives.
LEMMA ArriveInv ==
  ASSUME IInv, Observe, NEW s \in Sessions, NEW r \in ClientRequests \cup AdminRequests,
         Arrive(s, r)
  PROVE  IInv'
  <1>1. TypeOK'
    BY DEF IInv, TypeOK, Arrive, Steps
  <1>2. StoreIsDurable'
    BY DEF IInv, StoreIsDurable, Arrive
  <1>3. RequestInv(s)' /\ PermitInv(s)'
    <2>1. /\ pc'[s] = IF IsAdmin(r) THEN "admin" ELSE "register"
          /\ req'[s] = r
      BY DEF IInv, TypeOK, Arrive
    <2>2. /\ IsAdmin(r) => r \in AdminRequests /\ r \notin ClientRequests
          /\ ~IsAdmin(r) => r \in ClientRequests
      BY ClientFields, AdminFields
    <2>3. RequestInv(s)'
      BY <2>1, <2>2 DEF RequestInv, ClientSteps
    <2> QED BY <2>1, <2>2, <2>3, Seen DEF PermitInv
  <1>4. \A q \in Sessions \ {s} : pc'[q] = pc[q] /\ req'[q] = req[q]
    BY DEF IInv, TypeOK, Arrive
  <1> QED BY <1>1, <1>2, <1>3, <1>4, OneMoves DEF IInv

\* A request fails.
LEMMA FailsInv ==
  ASSUME IInv, Observe, NEW s \in Sessions, Fails(s)
  PROVE  IInv'
  <1>1. TypeOK'
    BY DEF IInv, TypeOK, Fails, Refuse, End, Steps
  <1>2. StoreIsDurable'
    BY DEF IInv, StoreIsDurable, Fails, Refuse, End, Steps
  <1>3. RequestInv(s)' /\ PermitInv(s)'
    BY EndedThread DEF IInv, TypeOK, Fails, Refuse, End, Steps
  <1>4. \A q \in Sessions \ {s} : pc'[q] = pc[q] /\ req'[q] = req[q]
    BY DEF IInv, TypeOK, Fails, Refuse, End, Steps
  <1> QED BY <1>1, <1>2, <1>3, <1>4, OneMoves DEF IInv

\* A connection is closed.
LEMMA CloseInv ==
  ASSUME IInv, Observe, NEW s \in Sessions, Close(s)
  PROVE  IInv'
  <1>1. TypeOK'
    BY DEF IInv, TypeOK, Close, End, Steps
  <1>2. StoreIsDurable'
    BY DEF IInv, StoreIsDurable, Close, End, Steps
  <1>3. RequestInv(s)' /\ PermitInv(s)'
    BY EndedThread DEF IInv, TypeOK, Close, End, Steps
  <1>4. \A q \in Sessions \ {s} : pc'[q] = pc[q] /\ req'[q] = req[q]
    BY DEF IInv, TypeOK, Close, End, Steps
  <1> QED BY <1>1, <1>2, <1>3, <1>4, OneMoves DEF IInv

\* register_client()
LEMMA RegisterInv ==
  ASSUME IInv, Observe, NEW s \in Sessions, register_client(s)
  PROVE  IInv'
  <1>0. req[s] \in ClientRequests
    BY DEF IInv, RequestInv, ClientSteps, Steps, register_client
  <1>1. TypeOK'
    BY <1>0, ClientFields DEF IInv, TypeOK, Steps, register_client, Goto, Bindings
  <1>2. StoreIsDurable'
    BY DEF IInv, StoreIsDurable, register_client, Goto
  <1>3. RequestInv(s)' /\ PermitInv(s)'
    <2>1. CASE pc'[s] = "idle" /\ req'[s] = NoReq
      BY <2>1, EndedThread
    <2>2. CASE pc'[s] # "idle" /\ req'[s] = req[s]
      <3>1. RequestInv(s)'
        BY <1>0, <2>2, ClientFields DEF IInv, TypeOK, RequestInv, ClientSteps, Steps, register_client, Goto
      <3>2. PermitInv(s)'
        BY <2>2, <3>1, MovedThread DEF IInv, TypeOK, register_client, Goto
      <3> QED BY <3>1, <3>2
    <2> QED BY <2>1, <2>2 DEF IInv, TypeOK, register_client, Goto
  <1>4. \A q \in Sessions \ {s} : pc'[q] = pc[q] /\ req'[q] = req[q]
    BY DEF IInv, TypeOK, register_client, Goto
  <1> QED BY <1>1, <1>2, <1>3, <1>4, OneMoves DEF IInv

\* is_client_allowed()
LEMMA AllowedInv ==
  ASSUME IInv, Observe, NEW s \in Sessions, is_client_allowed(s)
  PROVE  IInv'
  <1>0. req[s] \in ClientRequests
    BY DEF IInv, RequestInv, ClientSteps, Steps, is_client_allowed
  <1>1. TypeOK'
    BY <1>0, ClientFields DEF IInv, TypeOK, Steps, is_client_allowed, Goto, Refuse, End
  <1>2. StoreIsDurable'
    BY DEF IInv, StoreIsDurable, is_client_allowed, Goto, Refuse, End
  <1>3. RequestInv(s)' /\ PermitInv(s)'
    <2>1. CASE pc'[s] = "idle" /\ req'[s] = NoReq
      BY <2>1, EndedThread
    <2>2. CASE pc'[s] # "idle" /\ req'[s] = req[s]
      <3>1. RequestInv(s)'
        BY <1>0, <2>2, ClientFields DEF IInv, TypeOK, RequestInv, ClientSteps, Steps, is_client_allowed, Goto, Refuse, End
      <3>2. PermitInv(s)'
        <4>1. pc[s] = "allowed" /\ pc'[s] = "locked"
          BY <2>2 DEF IInv, TypeOK, is_client_allowed, Goto, Refuse, End
        <4>2. "client" \in Permits(req[s])'
          BY <1>0, <2>2, <4>1, ClientFields DEF IInv, TypeOK, Permits, is_client_allowed, Goto, Refuse, End
        <4> QED BY <2>2, <3>1, <4>1, <4>2, MovedThread DEF IInv
      <3> QED BY <3>1, <3>2
    <2> QED BY <2>1, <2>2 DEF IInv, TypeOK, is_client_allowed, Goto, Refuse, End
  <1>4. \A q \in Sessions \ {s} : pc'[q] = pc[q] /\ req'[q] = req[q]
    BY DEF IInv, TypeOK, is_client_allowed, Goto, Refuse, End
  <1> QED BY <1>1, <1>2, <1>3, <1>4, OneMoves DEF IInv

\* is_locked()
LEMMA LockedInv ==
  ASSUME IInv, Observe, NEW s \in Sessions, is_locked(s)
  PROVE  IInv'
  <1>0. req[s] \in ClientRequests
    BY DEF IInv, RequestInv, ClientSteps, Steps, is_locked
  <1>1. TypeOK'
    BY <1>0, ClientFields DEF IInv, TypeOK, Steps, is_locked, Goto, Refuse, End
  <1>2. StoreIsDurable'
    BY DEF IInv, StoreIsDurable, is_locked, Goto, Refuse, End
  <1>3. RequestInv(s)' /\ PermitInv(s)'
    <2>1. CASE pc'[s] = "idle" /\ req'[s] = NoReq
      BY <2>1, EndedThread
    <2>2. CASE pc'[s] # "idle" /\ req'[s] = req[s]
      <3>1. RequestInv(s)'
        BY <1>0, <2>2, ClientFields DEF IInv, TypeOK, RequestInv, ClientSteps, Steps, is_locked, Goto, Refuse, End
      <3>2. PermitInv(s)'
        <4>1. \/ pc[s] = "locked" /\ pc'[s] = "verify"
              \/ pc[s] = "locked2" /\ pc'[s] = "serve"
          BY <2>2 DEF IInv, TypeOK, is_locked, Goto, Refuse, End
        <4>2. "unlocked" \in Permits(req[s])'
          BY <1>0, <2>2, <4>1, ClientFields DEF IInv, TypeOK, Permits, is_locked, Goto, Refuse, End
        <4> QED BY <2>2, <3>1, <4>1, <4>2, MovedThread DEF IInv
      <3> QED BY <3>1, <3>2
    <2> QED BY <2>1, <2>2 DEF IInv, TypeOK, is_locked, Goto, Refuse, End
  <1>4. \A q \in Sessions \ {s} : pc'[q] = pc[q] /\ req'[q] = req[q]
    BY DEF IInv, TypeOK, is_locked, Goto, Refuse, End
  <1> QED BY <1>1, <1>2, <1>3, <1>4, OneMoves DEF IInv

\* The password section of encrypt, decrypt and auth_check.
LEMMA VerifyInv ==
  ASSUME IInv, Observe, NEW s \in Sessions, Verify(s)
  PROVE  IInv'
  <1>0. req[s] \in ClientRequests
    BY DEF IInv, RequestInv, ClientSteps, Steps, Verify
  <1>1. TypeOK'
    BY <1>0, ClientFields DEF IInv, TypeOK, Steps, Verify, Goto, Refuse, End, MayLock
  <1>2. StoreIsDurable'
    BY DEF IInv, StoreIsDurable, Verify, Goto, Refuse, End, MayLock
  <1>3. RequestInv(s)' /\ PermitInv(s)'
    <2>1. CASE pc'[s] = "idle" /\ req'[s] = NoReq
      BY <2>1, EndedThread
    <2>2. CASE pc'[s] # "idle" /\ req'[s] = req[s]
      <3>1. RequestInv(s)'
        BY <1>0, <2>2, ClientFields DEF IInv, TypeOK, RequestInv, ClientSteps, Steps, Verify, Goto, Refuse, End, MayLock
      <3>2. PermitInv(s)'
        <4>1. pc[s] = "verify" /\ pc'[s] = "success"
          BY <2>2 DEF IInv, TypeOK, Verify, Goto, Refuse, End, verify, permissions, exists
        <4>2. "account" \in Permits(req[s])'
          BY <1>0, <2>2, <4>1, ClientFields DEF IInv, TypeOK, Permits, Verify, Goto, Refuse, End, verify, permissions, exists
        <4> QED BY <2>2, <3>1, <4>1, <4>2, MovedThread DEF IInv
      <3> QED BY <3>1, <3>2
    <2> QED BY <2>1, <2>2 DEF IInv, TypeOK, Verify, Goto, Refuse, End, MayLock
  <1>4. \A q \in Sessions \ {s} : pc'[q] = pc[q] /\ req'[q] = req[q]
    BY DEF IInv, TypeOK, Verify, Goto, Refuse, End, MayLock
  <1> QED BY <1>1, <1>2, <1>3, <1>4, OneMoves DEF IInv

\* record_login_success()
LEMMA LoginSuccessInv ==
  ASSUME IInv, Observe, NEW s \in Sessions, LoginSuccess(s)
  PROVE  IInv'
  <1>0. req[s] \in ClientRequests
    BY DEF IInv, RequestInv, ClientSteps, Steps, LoginSuccess
  <1>1. TypeOK'
    BY <1>0, ClientFields DEF IInv, TypeOK, Steps, LoginSuccess, Goto, MayLock
  <1>2. StoreIsDurable'
    BY DEF IInv, StoreIsDurable, LoginSuccess, Goto, MayLock
  <1>3. RequestInv(s)' /\ PermitInv(s)'
    <2>1. CASE pc'[s] = "idle" /\ req'[s] = NoReq
      BY <2>1, EndedThread
    <2>2. CASE pc'[s] # "idle" /\ req'[s] = req[s]
      <3>1. RequestInv(s)'
        BY <1>0, <2>2, ClientFields DEF IInv, TypeOK, RequestInv, ClientSteps, Steps, LoginSuccess, Goto, MayLock
      <3>2. PermitInv(s)'
        BY <2>2, <3>1, MovedThread DEF IInv, TypeOK, LoginSuccess, Goto
      <3> QED BY <3>1, <3>2
    <2> QED BY <2>1, <2>2 DEF IInv, TypeOK, LoginSuccess, Goto, MayLock
  <1>4. \A q \in Sessions \ {s} : pc'[q] = pc[q] /\ req'[q] = req[q]
    BY DEF IInv, TypeOK, LoginSuccess, Goto, MayLock
  <1> QED BY <1>1, <1>2, <1>3, <1>4, OneMoves DEF IInv

\* The cryptographic work.
LEMMA ServeInv ==
  ASSUME IInv, Observe, NEW s \in Sessions, Serve(s)
  PROVE  IInv'
  <1>0. req[s] \in ClientRequests
    BY DEF IInv, RequestInv, ClientSteps, Steps, Serve
  <1>1. TypeOK'
    BY <1>0, ClientFields DEF IInv, TypeOK, Steps, Serve, Goto
  <1>2. StoreIsDurable'
    BY DEF IInv, StoreIsDurable, Serve, Goto
  <1>3. RequestInv(s)' /\ PermitInv(s)'
    <2>1. CASE pc'[s] = "idle" /\ req'[s] = NoReq
      BY <2>1, EndedThread
    <2>2. CASE pc'[s] # "idle" /\ req'[s] = req[s]
      <3>1. RequestInv(s)'
        BY <1>0, <2>2, ClientFields DEF IInv, TypeOK, RequestInv, ClientSteps, Steps, Serve, Goto
      <3>2. PermitInv(s)'
        BY <2>2, <3>1, MovedThread DEF IInv, TypeOK, Serve, Goto
      <3> QED BY <3>1, <3>2
    <2> QED BY <2>1, <2>2 DEF IInv, TypeOK, Serve, Goto
  <1>4. \A q \in Sessions \ {s} : pc'[q] = pc[q] /\ req'[q] = req[q]
    BY DEF IInv, TypeOK, Serve, Goto
  <1> QED BY <1>1, <1>2, <1>3, <1>4, OneMoves DEF IInv

\* record_file_op()
LEMMA RecordFileOpInv ==
  ASSUME IInv, Observe, NEW s \in Sessions, RecordFileOp(s)
  PROVE  IInv'
  <1>0. req[s] \in ClientRequests
    BY DEF IInv, RequestInv, ClientSteps, Steps, RecordFileOp
  <1>1. TypeOK'
    BY <1>0, ClientFields DEF IInv, TypeOK, Steps, RecordFileOp, Answer, Goto, MayLock
  <1>2. StoreIsDurable'
    BY DEF IInv, StoreIsDurable, RecordFileOp, Answer, Goto, MayLock
  <1>3. RequestInv(s)' /\ PermitInv(s)'
    <2>1. CASE pc'[s] = "idle" /\ req'[s] = NoReq
      BY <2>1, EndedThread
    <2>2. CASE pc'[s] # "idle" /\ req'[s] = req[s]
      <3>1. RequestInv(s)'
        BY <1>0, <2>2, ClientFields DEF IInv, TypeOK, RequestInv, ClientSteps, Steps, RecordFileOp, Answer, Goto, MayLock
      <3>2. PermitInv(s)'
        BY <2>2, <3>1, MovedThread DEF IInv, TypeOK, RecordFileOp, Answer, Goto
      <3> QED BY <3>1, <3>2
    <2> QED BY <2>1, <2>2 DEF IInv, TypeOK, RecordFileOp, Answer, Goto, MayLock
  <1>4. \A q \in Sessions \ {s} : pc'[q] = pc[q] /\ req'[q] = req[q]
    BY DEF IInv, TypeOK, RecordFileOp, Answer, Goto, MayLock
  <1> QED BY <1>1, <1>2, <1>3, <1>4, OneMoves DEF IInv

\* The answer of auth_check.
LEMMA AuthReplyInv ==
  ASSUME IInv, Observe, NEW s \in Sessions, AuthReply(s)
  PROVE  IInv'
  <1>0. req[s] \in ClientRequests
    BY DEF IInv, RequestInv, ClientSteps, Steps, AuthReply
  <1>1. TypeOK'
    BY <1>0, ClientFields DEF IInv, TypeOK, Steps, AuthReply, Answer, Goto
  <1>2. StoreIsDurable'
    BY DEF IInv, StoreIsDurable, AuthReply, Answer, Goto
  <1>3. RequestInv(s)' /\ PermitInv(s)'
    <2>1. CASE pc'[s] = "idle" /\ req'[s] = NoReq
      BY <2>1, EndedThread
    <2>2. CASE pc'[s] # "idle" /\ req'[s] = req[s]
      <3>1. RequestInv(s)'
        BY <1>0, <2>2, ClientFields DEF IInv, TypeOK, RequestInv, ClientSteps, Steps, AuthReply, Answer, Goto
      <3>2. PermitInv(s)'
        BY <2>2, <3>1, MovedThread DEF IInv, TypeOK, AuthReply, Answer, Goto
      <3> QED BY <3>1, <3>2
    <2> QED BY <2>1, <2>2 DEF IInv, TypeOK, AuthReply, Answer, Goto
  <1>4. \A q \in Sessions \ {s} : pc'[q] = pc[q] /\ req'[q] = req[q]
    BY DEF IInv, TypeOK, AuthReply, Answer, Goto
  <1> QED BY <1>1, <1>2, <1>3, <1>4, OneMoves DEF IInv

\* handle_change_password().
LEMMA ChangePasswordInv ==
  ASSUME IInv, Observe, NEW s \in Sessions, NEW ok \in BOOLEAN, ChangePassword(s, ok)
  PROVE  IInv'
  <1>0. req[s] \in ClientRequests
    BY DEF IInv, RequestInv, ClientSteps, Steps, ChangePassword
  <1>1. TypeOK'
    <2>1. {users, usersDb}' \subseteq [Users -> Accounts \cup {NoAccount}]
      <3>1. req[s].user \in Users /\ (req[s].new # Unusable => req[s].new \in Passwords)
        BY <1>0, ClientFields DEF ChangePassword
      <3>2. req[s].new # Unusable =>
              upsert(req[s].user, req[s].new) \in [Users -> Accounts \cup {NoAccount}]
        BY <3>1, StoreType DEF IInv, TypeOK
      <3>3. \/ UNCHANGED <<users, usersDb>>
            \/ /\ req[s].new # Unusable
               /\ users' \in {users, upsert(req[s].user, req[s].new)}
               /\ usersDb' \in {usersDb, upsert(req[s].user, req[s].new)}
        BY DEF ChangePassword, Save
      <3> QED BY <3>2, <3>3 DEF IInv, TypeOK
    <2>2. locked' \in [Users -> BOOLEAN]
      BY <1>0, ClientFields DEF IInv, TypeOK, ChangePassword, MayLock
    <2>3. pc' \in [Sessions -> Steps]
      BY DEF IInv, TypeOK, Steps, ChangePassword, Answer, Goto, Refuse, End
    <2>4. req' \in [Sessions -> ClientRequests \cup AdminRequests \cup {NoReq}]
      BY DEF IInv, TypeOK, ChangePassword, Answer, Goto, Refuse, End
    <2> QED BY <2>1, <2>2, <2>3, <2>4 DEF IInv, TypeOK, ChangePassword
  <1>2. StoreIsDurable'
    BY DEF IInv, StoreIsDurable, ChangePassword, Answer, Goto, Refuse, End, MayLock, Save
  <1>3. RequestInv(s)' /\ PermitInv(s)'
    <2>1. CASE pc'[s] = "idle" /\ req'[s] = NoReq
      BY <2>1, EndedThread
    <2>2. CASE pc'[s] # "idle" /\ req'[s] = req[s]
      <3>1. RequestInv(s)'
        BY <1>0, <2>2, ClientFields DEF IInv, TypeOK, RequestInv, ClientSteps, Steps, ChangePassword, Answer, Goto, Refuse, End, MayLock, Save
      <3>2. PermitInv(s)'
        <4>1. pc[s] = "verify" /\ pc'[s] = "answered"
          BY <2>2 DEF IInv, TypeOK, ChangePassword, Answer, Goto, Refuse, End, verify, exists
        <4>2. "account" \in Permits(req[s])
          BY <1>0, <2>2, <4>1, ClientFields DEF IInv, TypeOK, Permits, ChangePassword, Answer, Goto, Refuse, End, verify, exists, FileOps, Rights
        <4> QED BY <2>2, <3>1, <4>1, <4>2, MovedThread DEF IInv
      <3> QED BY <3>1, <3>2
    <2> QED BY <2>1, <2>2 DEF IInv, TypeOK, ChangePassword, Answer, Goto, Refuse, End, MayLock, Save
  <1>4. \A q \in Sessions \ {s} : pc'[q] = pc[q] /\ req'[q] = req[q]
    BY DEF IInv, TypeOK, ChangePassword, Answer, Goto, Refuse, End, MayLock, Save
  <1> QED BY <1>1, <1>2, <1>3, <1>4, OneMoves DEF IInv

\* A thread that has answered an administrator.
LEMMA AnsweredAdmin ==
  ASSUME Observe, NEW s \in Sessions, pc'[s] = "answered", req'[s] = req[s],
         req[s] \in AdminRequests
  PROVE  RequestInv(s)' /\ PermitInv(s)'
  <1>1. req[s] \notin ClientRequests
    BY RequestsDisjoint
  <1> QED BY <1>1, Seen DEF RequestInv, PermitInv, ClientSteps

\* The four administrative changes of an account.
LEMMA AdminUserInv ==
  ASSUME IInv, Observe, NEW s \in Sessions, NEW ok \in BOOLEAN, AdminUser(s, ok)
  PROVE  IInv'
  <1> DEFINE r == req[s]
             new == CASE r.op = "block"       -> set_blocked(r.user, r.blocked)
                      [] r.op = "permissions" -> set_permissions(r.user, r.rights)
                      [] OTHER                -> upsert(r.user, r.new)
  <1>0. r \in AdminRequests /\ r.op \in {"create", "reset", "block", "permissions"}
    BY DEF IInv, RequestInv, AdminUser
  <1>5. \/ UNCHANGED <<users, usersDb>>
        \/ exists(r.user) # (r.op = "create") /\ users' = new /\ usersDb' = new
    BY DEF AdminUser, Save
  <1> HIDE DEF new
  <1>1. TypeOK'
    <2>1. exists(r.user) # (r.op = "create") => new \in [Users -> Accounts \cup {NoAccount}]
      BY <1>0, AdminFields, StoreType DEF IInv, TypeOK, exists, new
    <2>3. {users, usersDb}' \subseteq [Users -> Accounts \cup {NoAccount}]
      BY <2>1, <1>5 DEF IInv, TypeOK
    <2>4. pc' \in [Sessions -> Steps]
      BY DEF IInv, TypeOK, Steps, AdminUser, Answer, Goto, Refuse, End
    <2>5. req' \in [Sessions -> ClientRequests \cup AdminRequests \cup {NoReq}]
      BY DEF IInv, TypeOK, AdminUser, Answer, Goto, Refuse, End
    <2> QED BY <2>3, <2>4, <2>5 DEF IInv, TypeOK, AdminUser
  <1>2. StoreIsDurable'
    BY <1>5 DEF IInv, StoreIsDurable
  <1>3. RequestInv(s)' /\ PermitInv(s)'
    <2>1. CASE pc'[s] = "idle" /\ req'[s] = NoReq
      BY <2>1, EndedThread
    <2>2. CASE pc'[s] = "answered" /\ req'[s] = req[s]
      BY <1>0, <2>2, AnsweredAdmin
    <2> QED BY <2>1, <2>2 DEF IInv, TypeOK, AdminUser, Answer, Goto, Refuse, End
  <1>4. \A q \in Sessions \ {s} : pc'[q] = pc[q] /\ req'[q] = req[q]
    BY DEF IInv, TypeOK, AdminUser, Answer, Goto, Refuse, End
  <1> QED BY <1>1, <1>2, <1>3, <1>4, OneMoves DEF IInv

\* An administrator lifts a lock.
LEMMA AdminUnlockInv ==
  ASSUME IInv, Observe, NEW s \in Sessions, AdminUnlock(s)
  PROVE  IInv'
  <1>0. req[s] \in AdminRequests
    BY DEF IInv, RequestInv, AdminUnlock
  <1>1. TypeOK'
    BY <1>0, AdminFields DEF IInv, TypeOK, Steps, AdminUnlock, Answer, Goto
  <1>2. StoreIsDurable'
    BY DEF IInv, StoreIsDurable, AdminUnlock
  <1>3. RequestInv(s)' /\ PermitInv(s)'
    BY <1>0, AnsweredAdmin DEF IInv, TypeOK, AdminUnlock, Answer, Goto
  <1>4. \A q \in Sessions \ {s} : pc'[q] = pc[q] /\ req'[q] = req[q]
    BY DEF IInv, TypeOK, AdminUnlock, Answer, Goto
  <1> QED BY <1>1, <1>2, <1>3, <1>4, OneMoves DEF IInv

\* An administrator changes the binding policy.
LEMMA AdminBindingInv ==
  ASSUME IInv, Observe, NEW s \in Sessions, AdminBinding(s)
  PROVE  IInv'
  <1>0. req[s] \in AdminRequests
    BY DEF IInv, RequestInv, AdminBinding
  <1>1. TypeOK'
    <2>1. binding' \in Bindings
      BY <1>0, AdminFields DEF IInv, TypeOK, AdminBinding, Bindings
    <2> QED BY <2>1 DEF IInv, TypeOK, Steps, AdminBinding, Answer, Goto
  <1>2. StoreIsDurable'
    BY DEF IInv, StoreIsDurable, AdminBinding
  <1>3. RequestInv(s)' /\ PermitInv(s)'
    BY <1>0, AnsweredAdmin DEF IInv, TypeOK, AdminBinding, Answer, Goto
  <1>4. \A q \in Sessions \ {s} : pc'[q] = pc[q] /\ req'[q] = req[q]
    BY DEF IInv, TypeOK, AdminBinding, Answer, Goto
  <1> QED BY <1>1, <1>2, <1>3, <1>4, OneMoves DEF IInv

\* A lock runs out.
LEMMA LockExpiresInv ==
  ASSUME IInv, Observe, NEW u \in Users, LockExpires(u)
  PROVE  IInv'
  <1>1. TypeOK'
    BY DEF IInv, TypeOK, LockExpires
  <1>2. StoreIsDurable'
    BY DEF IInv, StoreIsDurable, LockExpires
  <1>3. \A q \in Sessions : RequestInv(q)' /\ PermitInv(q)'
    BY OtherThread DEF IInv, LockExpires
  <1> QED BY <1>1, <1>2, <1>3 DEF IInv

\* The server dies and starts again.
LEMMA RestartInv ==
  ASSUME IInv, Observe, Restart
  PROVE  IInv'
  <1>1. TypeOK'
    BY DEF IInv, TypeOK, Restart, Load, Steps
  <1>2. StoreIsDurable'
    BY DEF IInv, StoreIsDurable, Restart, Load
  <1>3. \A q \in Sessions : RequestInv(q)' /\ PermitInv(q)'
    BY EndedThread DEF Restart
  <1> QED BY <1>1, <1>2, <1>3 DEF IInv

\* The server starts with an invariant that holds.
LEMMA InitInv ==
  ASSUME Init
  PROVE  IInv
  <1>1. TypeOK
    BY BindingAssumption DEF Init, TypeOK, Steps, Bindings, Accounts
  <1>2. NoReq \notin ClientRequests
    BY ClientFields
  <1>3. \A q \in Sessions : RequestInv(q) /\ PermitInv(q)
    BY <1>2 DEF Init, RequestInv, PermitInv, ClientSteps
  <1> QED BY <1>1, <1>3 DEF Init, IInv, StoreIsDurable

\* Every step keeps the invariant.
LEMMA NextInv ==
  ASSUME IInv, [Next]_vars
  PROVE  IInv'
  <1>1. CASE UNCHANGED vars
    BY <1>1 DEF vars, IInv, TypeOK, StoreIsDurable, RequestInv, PermitInv, Permits
  <1>2. CASE Next
    <2>0. Observe
      BY <1>2 DEF Next
    <2>1. ASSUME NEW s \in Sessions, NEW r \in ClientRequests \cup AdminRequests, Arrive(s, r)
          PROVE  IInv'
      BY <2>0, <2>1, ArriveInv
    <2>2. ASSUME NEW s \in Sessions, ClientStep(s)
          PROVE  IInv'
      BY <2>0, <2>2, RegisterInv, AllowedInv, LockedInv, VerifyInv, LoginSuccessInv,
         ServeInv, RecordFileOpInv, AuthReplyInv, ChangePasswordInv DEF ClientStep
    <2>3. ASSUME NEW s \in Sessions, AdminStep(s)
          PROVE  IInv'
      BY <2>0, <2>3, AdminUserInv, AdminUnlockInv, AdminBindingInv DEF AdminStep
    <2> QED BY <1>2, <2>0, <2>1, <2>2, <2>3, FailsInv, CloseInv, LockExpiresInv, RestartInv
         DEF Next
  <1> QED BY <1>1, <1>2

-----------------------------------------------------------------------------
(* Theorems *)

\* The inductive invariant: the request and what it has seen fit the step of the
\* handler each thread is at, and memory and users.db agree.
THEOREM InvariantCorrect == Spec => []IInv
  <1>1. Init => IInv
    BY InitInv
  <1>2. IInv /\ [Next]_vars => IInv'
    BY NextInv
  <1> QED BY <1>1, <1>2, PTL DEF Spec

\* Every variable keeps its type, after any sequence of requests and restarts.
THEOREM TypeCorrect == Spec => []TypeOK
  <1>1. IInv => TypeOK
    BY DEF IInv
  <1> QED BY <1>1, InvariantCorrect, PTL

\* A request is answered only after its account, the absence of a lock and the
\* binding policy have each permitted it at some moment since it arrived, for
\* any number of threads and whatever administrators do in between.
THEOREM AccessChecked == Spec => []ServedWasAllowed
  <1>1. IInv => ServedWasAllowed
    <2> SUFFICES ASSUME IInv, NEW s \in Sessions,
                        pc[s] \in {"record", "answered"}, ~IsAdmin(req[s])
                 PROVE  {"account", "unlocked", "client"} \subseteq seen[s]
      BY DEF ServedWasAllowed
    <2>1. req[s] \in ClientRequests
      BY AdminFields DEF IInv, RequestInv, ClientSteps, Steps
    <2> QED BY <2>1 DEF IInv, PermitInv
  <1> QED BY <1>1, InvariantCorrect, PTL

\* The accounts in memory are the ones in users.db, whichever saves fail.
THEOREM StoreDurable == Spec => []StoreIsDurable
  <1>1. IInv => StoreIsDurable
    BY DEF IInv
  <1> QED BY <1>1, InvariantCorrect, PTL

\* What a step may do to the accounts: nothing, or one administrative operation
\* or password change of a thread on the account it names.
LEMMA StoreSteps ==
  ASSUME IInv, Next
  PROVE  \/ users' = users
         \/ \E s \in Sessions :
              /\ req[s].user \in Users
              /\ \/ /\ pc[s] = "admin"
                    /\ req[s].op = "block" \/ req[s].op = "permissions"
                    /\ \A u \in Users \ {req[s].user} : users'[u] = users[u]
                 \/ req[s].new \in Passwords /\ users' = upsert(req[s].user, req[s].new)
  <1>1. ASSUME NEW s \in Sessions, NEW ok \in BOOLEAN, AdminUser(s, ok), users' # users
        PROVE  /\ req[s].user \in Users
               /\ \/ /\ pc[s] = "admin"
                     /\ req[s].op = "block" \/ req[s].op = "permissions"
                     /\ \A u \in Users \ {req[s].user} : users'[u] = users[u]
                  \/ req[s].new \in Passwords /\ users' = upsert(req[s].user, req[s].new)
    <2>1. req[s] \in AdminRequests /\ req[s].op \in {"create", "reset", "block", "permissions"}
      BY <1>1 DEF IInv, RequestInv, AdminUser
    <2>2. CASE req[s].op = "block"
      BY <1>1, <2>1, <2>2, AdminFields DEF IInv, TypeOK, AdminUser, Save, set_blocked
    <2>3. CASE req[s].op = "permissions"
      BY <1>1, <2>1, <2>3, AdminFields DEF IInv, TypeOK, AdminUser, Save, set_permissions
    <2>4. CASE req[s].op \in {"create", "reset"}
      BY <1>1, <2>1, <2>4, AdminFields DEF IInv, TypeOK, AdminUser, Save
    <2> QED BY <2>1, <2>2, <2>3, <2>4
  <1>2. ASSUME NEW s \in Sessions, NEW ok \in BOOLEAN, ChangePassword(s, ok), users' # users
        PROVE  req[s].user \in Users /\ req[s].new \in Passwords /\ users' = upsert(req[s].user, req[s].new)
    <2>1. req[s] \in ClientRequests
      BY <1>2 DEF IInv, RequestInv, ClientSteps, Steps, ChangePassword
    <2> QED BY <1>2, <2>1, ClientFields DEF ChangePassword, Save
  <1>3. CASE Restart
    BY <1>3 DEF Restart, Load, IInv, StoreIsDurable
  <1>4. CASE \E s \in Sessions : ClientStep(s)
    BY <1>2, <1>4 DEF ClientStep, register_client, is_client_allowed, is_locked, Verify,
       LoginSuccess, Serve, RecordFileOp, AuthReply
  <1>5. CASE \E s \in Sessions : AdminStep(s)
    BY <1>1, <1>5 DEF AdminStep, AdminUnlock, AdminBinding
  <1> QED BY <1>3, <1>4, <1>5 DEF Next, Arrive, Fails, Close, LockExpires

\* No password change and no reset, and no restart, alters the block or the
\* rights of an account: only block_user and set_permissions do.
THEOREM RightsKept == Spec => RightsOnlyByAdmin
  <1> DEFINE A == \A u \in Users :
                    /\ users[u] # NoAccount
                    /\ users'[u] = NoAccount \/ users'[u].blocked # users[u].blocked
                                            \/ users'[u].permissions # users[u].permissions
                    => \E s \in Sessions :
                         pc[s] = "admin" /\ req[s].op \in {"block", "permissions"} /\ req[s].user = u
  <1>1. IInv /\ [Next]_vars => [A]_users
    <2> SUFFICES ASSUME IInv, Next, users' # users, NEW u \in Users,
                        users[u] # NoAccount,
                        \/ users'[u] = NoAccount
                        \/ users'[u].blocked # users[u].blocked
                        \/ users'[u].permissions # users[u].permissions
                 PROVE  \E s \in Sessions :
                          /\ pc[s] = "admin"
                          /\ req[s].op \in {"block", "permissions"}
                          /\ req[s].user = u
      BY DEF vars
    <2>1. PICK s \in Sessions :
            /\ req[s].user \in Users
            /\ \/ /\ pc[s] = "admin"
                  /\ req[s].op = "block" \/ req[s].op = "permissions"
                  /\ \A q \in Users \ {req[s].user} : users'[q] = users[q]
               \/ req[s].new \in Passwords /\ users' = upsert(req[s].user, req[s].new)
      BY StoreSteps
    <2>2. CASE req[s].new \in Passwords /\ users' = upsert(req[s].user, req[s].new)
      <3>1. users'[u] = IF u = req[s].user THEN [users[u] EXCEPT !.password = req[s].new]
                                          ELSE users[u]
        BY <2>1, <2>2 DEF IInv, TypeOK, upsert, exists
      <3>2. users[u] \in Accounts
        BY DEF IInv, TypeOK
      <3>3. [users[u] EXCEPT !.password = req[s].new].blocked = users[u].blocked
        BY <3>2 DEF Accounts
      <3>4. [users[u] EXCEPT !.password = req[s].new].permissions = users[u].permissions
        BY <3>2 DEF Accounts
      <3>5. [users[u] EXCEPT !.password = req[s].new] # NoAccount
        BY <2>2, <3>2, StoreAssumption DEF Accounts
      <3> QED BY <3>1, <3>3, <3>4, <3>5
    <2> QED BY <2>1, <2>2
  <1> QED BY <1>1, InvariantCorrect, PTL DEF Spec, RightsOnlyByAdmin

\* handle_change_password answers ok only from the password in force at that
\* moment and for an account that is not blocked.
THEOREM PasswordHeld == Spec => PasswordChangedByHolder
  <1>1. IInv /\ [Next]_vars =>
          [\A s \in Sessions :
             pc[s] = "verify" /\ req[s].op = "change_password" /\ pc'[s] = "answered" =>
               /\ users[req[s].user].password = req[s].password
               /\ ~users[req[s].user].blocked]_pc
    <2> SUFFICES ASSUME IInv, Next, NEW s \in Sessions,
                        pc[s] = "verify", req[s].op = "change_password", pc'[s] = "answered"
                 PROVE  /\ users[req[s].user].password = req[s].password
                        /\ ~users[req[s].user].blocked
      BY DEF vars
    <2>1. PICK ok \in BOOLEAN : ChangePassword(s, ok)
      <3>1. ASSUME NEW q \in Sessions, NEW r, Arrive(q, r)
            PROVE  FALSE
        BY <3>1 DEF IInv, TypeOK, Arrive
      <3>2. ASSUME NEW q \in Sessions, Fails(q) \/ Close(q)
            PROVE  FALSE
        BY <3>2 DEF IInv, TypeOK, Fails, Close, Refuse, End
      <3>3. ASSUME NEW q \in Sessions, AdminStep(q)
            PROVE  FALSE
        BY <3>3 DEF IInv, TypeOK, AdminStep, AdminUser, AdminUnlock, AdminBinding,
           Answer, Goto, Refuse, End
      <3>4. ASSUME NEW q \in Sessions, ClientStep(q), ~ \E ok \in BOOLEAN : ChangePassword(q, ok)
            PROVE  FALSE
        BY <3>4 DEF IInv, TypeOK, ClientStep, register_client, is_client_allowed, is_locked,
           Verify, LoginSuccess, Serve, RecordFileOp, AuthReply, Answer, Goto, Refuse, End
      <3>5. ASSUME NEW q \in Sessions, NEW ok \in BOOLEAN, ChangePassword(q, ok)
            PROVE  q = s
        BY <3>5 DEF IInv, TypeOK, ChangePassword, Answer, Goto, Refuse, End
      <3> QED BY <3>1, <3>2, <3>3, <3>4, <3>5 DEF Next, LockExpires, Restart, ClientStep
    <2> QED BY <2>1 DEF IInv, TypeOK, ChangePassword, Refuse, End, verify
  <1> QED BY <1>1, InvariantCorrect, PTL DEF Spec, PasswordChangedByHolder
=============================================================================
