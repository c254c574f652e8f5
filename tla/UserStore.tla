----------------------------- MODULE UserStore -----------------------------
(***************************************************************************)
(* The accounts of common/src/auth.cpp: users_ in memory and users.db.     *)
(* Salts and hashes are abstracted to the password they verify.            *)
(***************************************************************************)
EXTENDS FiniteSets

CONSTANTS
  Users,
  Passwords,   \* passwords a store accepts
  Unusable,    \* one upsert() refuses: empty or longer than 1024 bytes
  NoAccount    \* the user does not exist

VARIABLES
  users,       \* users_, under users_mutex
  usersDb      \* users.db

Rights   == {"encrypt", "decrypt"}
Accounts == [password : Passwords, blocked : BOOLEAN, permissions : SUBSET Rights]

ASSUME StoreAssumption == Unusable \notin Passwords /\ NoAccount \notin Accounts

exists(u) == users[u] # NoAccount

\* Wrong on purpose: the permanent block is not looked at.
verify_Blocked(u, p) == exists(u) /\ users[u].password = p

verify(u, p) == exists(u) /\ ~users[u].blocked /\ users[u].password = p

permissions(u) == IF exists(u) THEN users[u].permissions ELSE {}

\* Wrong on purpose: a new password makes a new account.
upsert_Fresh(u, p) ==
  [users EXCEPT ![u] = [password |-> p, blocked |-> FALSE, permissions |-> Rights]]

\* The store after upsert(): an existing account keeps its block and rights.
upsert(u, p) ==
  [users EXCEPT ![u] =
     IF exists(u) THEN [@ EXCEPT !.password = p]
     ELSE [password |-> p, blocked |-> FALSE, permissions |-> Rights]]

set_blocked(u, b)     == [users EXCEPT ![u].blocked = b]
set_permissions(u, r) == [users EXCEPT ![u].permissions = r]

\* Wrong on purpose: a failed save keeps the change in memory.
Save_NoRollback(new, ok) ==
  /\ users' = new
  /\ usersDb' = IF ok THEN new ELSE usersDb

\* The callers' update: change the store, save() it by renaming a complete
\* temporary file, and put the previous store back if that failed.
Save(new, ok) ==
  /\ users'   = IF ok THEN new ELSE users
  /\ usersDb' = IF ok THEN new ELSE usersDb

\* load() at start-up.
Load == users' = usersDb /\ UNCHANGED usersDb
=============================================================================
