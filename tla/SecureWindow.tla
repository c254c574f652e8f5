---------------------------- MODULE SecureWindow -----------------------------
(***************************************************************************)
(* The client's main window (client/src/main_window.cpp) with the guards   *)
(* of secure mode (secure_guards.cpp) and the login loop (main.cpp): files *)
(* decrypted to memory, optional temporary files, re-encryption on         *)
(* request, on a clipboard violation and on close, and the password change *)
(* that closing asks for.                                                  *)
(*                                                                         *)
(* The window is one thread.  Clipboard signals are handled only where its *)
(* event loop runs: when it is idle, and inside the modal dialogs that     *)
(* interrupt onDecrypt or closeEvent.  Requests to the server block it.    *)
(* What encrypt_data does to a file is the subject of EncryptedFile; here  *)
(* it succeeds, is refused, or fails while it writes the file.             *)
(***************************************************************************)
EXTENDS Naturals, Sequences, SequencesExt

CONSTANTS
  Paths,              \* files the user works with
  MaxItems,           \* bound: decrypted files in the list
  MaxTemps,           \* bound: temporary files created
  ClipboardMaxBytes,  \* clipboard_max_bytes; 0 forbids any content
  SkipLimit,          \* closings without a password change (5 in the code)
  AccountRights,      \* the rights an administrator gives the account
  TempFaults,         \* temp files may fail to be written whole or removed
  LoseReplies         \* the answer to change_password may be lost

WindowAssumption ==
  /\ MaxItems \in Nat /\ MaxTemps \in Nat
  /\ ClipboardMaxBytes \in Nat /\ SkipLimit \in Nat
  /\ AccountRights \subseteq SUBSET {"encrypt", "decrypt"}
  /\ TempFaults \in BOOLEAN /\ LoseReplies \in BOOLEAN

VARIABLES
  win,       \* "login", "open", "closed" or "killed"
  pc,        \* what the window's thread is doing
  todo,      \* onDecrypt: files still to decrypt
  re,        \* reencryptAll: who called it, where it returns, next item
  items,     \* decrypted_: path and temporary file (0: none) of each item
  temps,     \* temporary files of this process on disk
  lastTemp,  \* number of temporary files ever named
  secure,    \* SecureGuards::secure_mode_
  clip,      \* size of the clipboard's content, 0 when empty
  signal,    \* dataChanged is queued
  disk,      \* what is stored at each path: "enc", "torn"
  rights,    \* the account's rights at the server
  shown,     \* the rights learnt at login: which buttons are enabled
  pwOk,      \* password_ is the one the server has
  skipped,   \* the stored reminder counter
  unpaid     \* history: ordinary closings since the last password change

docVars == <<items, temps, lastTemp, disk>>
guardVars == <<secure, clip, signal>>
accountVars == <<rights, shown, pwOk, skipped, unpaid>>
vars == <<win, pc, todo, re, docVars, guardVars, accountVars>>

Callers == {"violation", "terminate", "close"}
Items == [path : Paths, temp : 0..MaxTemps]
NoCall == [by |-> "none", ret |-> "idle", next |-> 0]

TypeOK ==
  /\ win \in {"login", "open", "closed", "killed"}
  /\ pc \in {"idle", "decrypt", "box", "reencrypt", "prompt"}
  /\ todo \in SeqOf(Paths, MaxItems)
  /\ re \in {NoCall} \cup [by : Callers, ret : {"idle", "box"}, next : 1..(MaxItems + 1)]
  /\ items \in SeqOf(Items, MaxItems)
  /\ temps \subseteq 1..MaxTemps /\ lastTemp \in 0..MaxTemps
  /\ secure \in BOOLEAN /\ clip \in 0..2 /\ signal \in BOOLEAN
  /\ disk \in [Paths -> {"enc", "torn"}]
  /\ rights \in AccountRights /\ shown \in AccountRights
  /\ pwOk \in BOOLEAN
  /\ skipped \in 0..SkipLimit /\ unpaid \in 0..(SkipLimit + 1)

Init ==
  /\ win = "login" /\ pc = "idle" /\ todo = <<>> /\ re = NoCall
  /\ items = <<>> /\ temps = {} /\ lastTemp = 0
  /\ disk = [p \in Paths |-> "enc"]
  /\ secure = FALSE /\ clip = 0 /\ signal = FALSE
  /\ rights \in AccountRights /\ shown = rights
  /\ pwOk = TRUE /\ skipped = 0 /\ unpaid = 0

Idle == win = "open" /\ pc = "idle"
\* A Qt event loop runs: the window's own, or that of a modal dialog.
EventLoop == win = "open" /\ pc \in {"idle", "box", "prompt"}
\* The server accepts a request of this window that needs right r.
Accepts(r) == pwOk /\ r \in rights
Holds(p) == \E k \in DOMAIN items : items[k].path = p

-----------------------------------------------------------------------------
(* Login and account. *)

\* authenticate succeeded; a refused login shows the dialog again.
Login ==
  /\ win = "login"
  /\ win' = "open"
  /\ pwOk' = TRUE
  /\ shown' = rights
  /\ UNCHANGED <<pc, todo, re, docVars, guardVars, rights, skipped, unpaid>>

\* An administrator changes the account's rights while the window is open.
RightsChange ==
  /\ rights' \in AccountRights \ {rights}
  /\ UNCHANGED <<win, pc, todo, re, docVars, guardVars, shown, pwOk, skipped, unpaid>>

-----------------------------------------------------------------------------
(* Files. *)

\* onEncrypt, one file: encrypt_file succeeds (or is refused: no change), or
\* fails while it writes.
OnEncrypt(p) ==
  /\ Idle /\ "encrypt" \in shown /\ Accepts("encrypt")
  /\ \E r \in {"enc", "torn"} : disk' = [disk EXCEPT ![p] = r]
  /\ UNCHANGED <<win, pc, todo, re, items, temps, lastTemp, guardVars, accountVars>>

OnDecrypt(files) ==
  /\ Idle /\ "decrypt" \in shown
  /\ Len(items) + Len(files) <= MaxItems
  /\ todo' = files
  /\ pc' = "decrypt"
  /\ UNCHANGED <<win, re, docVars, guardVars, accountVars>>

\* Wrong on purpose: the first failure leaves onDecrypt.
DecryptFails_Bug ==
  /\ pc = "decrypt" /\ todo # <<>>
  /\ todo' = <<>>
  /\ pc' = "idle"
  /\ UNCHANGED <<win, re, docVars, guardVars, accountVars>>

\* decrypt_file failed: a warning box runs an event loop in mid-loop.
DecryptFails ==
  /\ pc = "decrypt" /\ todo # <<>>
  /\ todo' = Tail(todo)
  /\ pc' = "box"
  /\ UNCHANGED <<win, re, docVars, guardVars, accountVars>>

BoxClosed ==
  /\ pc = "box"
  /\ pc' = "decrypt"
  /\ UNCHANGED <<win, todo, re, docVars, guardVars, accountVars>>

\* make_temp_path and write_temp_file: the temp file's number in the item
\* and the files then on disk.  A failed write leaves what it wrote.
TempOutcomes ==
  {[temp |-> 0, files |-> temps, last |-> lastTemp]}
    \cup IF lastTemp = MaxTemps THEN {}
         ELSE LET n == lastTemp + 1 IN
              {[temp |-> n, files |-> temps \cup {n}, last |-> n]}
                \cup (IF TempFaults THEN {[temp |-> 0, files |-> temps \cup {n}, last |-> n]} ELSE {})

DecryptOne ==
  /\ pc = "decrypt" /\ todo # <<>>
  /\ Accepts("decrypt") /\ disk[Head(todo)] = "enc"
  /\ \E t \in TempOutcomes :
       /\ items' = Append(items, [path |-> Head(todo), temp |-> t.temp])
       /\ temps' = t.files
       /\ lastTemp' = t.last
  /\ todo' = Tail(todo)
  /\ UNCHANGED <<win, pc, re, disk, guardVars, accountVars>>

\* Wrong on purpose: secure mode starts with what the clipboard holds.
UpdateSecureState_Bug(list) ==
  /\ secure' = (list # <<>>)
  /\ clip' = clip

\* updateSecureState and SecureGuards::setSecureMode for a list of items.
\* Clearing the clipboard queues a signal, whose handler finds it empty.
UpdateSecureState(list) ==
  /\ secure' = (list # <<>>)
  /\ clip' = IF list # <<>> THEN 0 ELSE clip

DecryptDone ==
  /\ pc = "decrypt" /\ todo = <<>>
  /\ UpdateSecureState(items)
  /\ pc' = "idle"
  /\ UNCHANGED <<win, todo, re, docVars, signal, accountVars>>

-----------------------------------------------------------------------------
(* Re-encryption. *)

\* reencryptAll is entered.
Reencrypt(by, ret) ==
  /\ pc' = "reencrypt"
  /\ re' = [by |-> by, ret |-> ret, next |-> 1]

\* How reencryptAll returns: a failure is reported and the window goes on
\* (closeEvent ignores the event); after a success closeEvent asks for a new
\* password.
Return(ok) ==
  /\ pc' = IF re.by = "close" /\ ok THEN "prompt" ELSE re.ret
  /\ re' = NoCall

\* Wrong on purpose: the temp file is forgotten.
ReencryptItem_Bug ==
  /\ pc = "reencrypt" /\ re.next <= Len(items)
  /\ Accepts("encrypt")
  /\ disk' = [disk EXCEPT ![items[re.next].path] = "enc"]
  /\ re' = [re EXCEPT !.next = @ + 1]
  /\ UNCHANGED <<win, pc, todo, items, temps, lastTemp, guardVars, accountVars>>

\* encrypt_data succeeds; the temp file is removed, errors are ignored.
ReencryptItem ==
  /\ pc = "reencrypt" /\ re.next <= Len(items)
  /\ Accepts("encrypt")
  /\ LET item == items[re.next] IN
       /\ disk' = [disk EXCEPT ![item.path] = "enc"]
       /\ temps' \in {temps \ {item.temp}} \cup (IF TempFaults THEN {temps} ELSE {})
  /\ re' = [re EXCEPT !.next = @ + 1]
  /\ UNCHANGED <<win, pc, todo, items, lastTemp, guardVars, accountVars>>

\* encrypt_data is refused, or there is no connection.
ReencryptRefused ==
  /\ pc = "reencrypt" /\ re.next <= Len(items)
  /\ Return(FALSE)
  /\ UNCHANGED <<win, todo, docVars, guardVars, accountVars>>

\* Wrong on purpose: the items already done are dropped, and with them the
\* one whose file could not be written.
ReencryptTorn_Bug ==
  /\ pc = "reencrypt" /\ re.next <= Len(items)
  /\ Accepts("encrypt")
  /\ disk' = [disk EXCEPT ![items[re.next].path] = "torn"]
  /\ items' = SubSeq(items, re.next + 1, Len(items))
  /\ temps' = temps \cap {items[k].temp : k \in (re.next + 1)..Len(items)}
  /\ Return(FALSE)
  /\ UNCHANGED <<win, todo, lastTemp, guardVars, accountVars>>

\* encrypt_data fails while it writes: the file is torn, all items are kept.
ReencryptTorn ==
  /\ pc = "reencrypt" /\ re.next <= Len(items)
  /\ Accepts("encrypt")
  /\ disk' = [disk EXCEPT ![items[re.next].path] = "torn"]
  /\ Return(FALSE)
  /\ UNCHANGED <<win, todo, items, temps, lastTemp, guardVars, accountVars>>

\* The list is empty again and secure mode ends.
ReencryptDone ==
  /\ pc = "reencrypt" /\ re.next > Len(items)
  /\ items' = <<>>
  /\ UpdateSecureState(<<>>)
  /\ Return(TRUE)
  /\ UNCHANGED <<win, todo, temps, lastTemp, disk, signal, accountVars>>

OnTerminate ==
  /\ Idle /\ items # <<>>
  /\ Reencrypt("terminate", "idle")
  /\ UNCHANGED <<win, todo, docVars, guardVars, accountVars>>

-----------------------------------------------------------------------------
(* The clipboard. *)

\* Another program, or the user, puts n bytes into the clipboard.
ClipboardFilled(n) ==
  /\ win = "open"
  /\ clip' = n /\ signal' = TRUE
  /\ UNCHANGED <<win, pc, todo, re, docVars, secure, accountVars>>

\* onCopyTempPath: the window itself fills the clipboard with a short text.
OnCopyTempPath ==
  /\ Idle /\ \E k \in DOMAIN items : items[k].temp # 0
  /\ clip' = 1 /\ signal' = TRUE
  /\ UNCHANGED <<win, pc, todo, re, docVars, secure, accountVars>>

TooLarge == ClipboardMaxBytes = 0 \/ clip > ClipboardMaxBytes
Violation == secure /\ clip # 0 /\ TooLarge

\* SecureGuards::onClipboardChanged and the violationDetected handler.
OnClipboardChanged ==
  /\ EventLoop /\ signal
  /\ signal' = FALSE
  /\ IF Violation THEN clip' = 0 /\ Reencrypt("violation", pc)
                  ELSE UNCHANGED <<clip, pc, re>>
  /\ UNCHANGED <<win, todo, docVars, secure, accountVars>>

-----------------------------------------------------------------------------
(* Closing. *)

\* Wrong on purpose: the result of reencryptAll is not looked at.
CloseEvent_Bug ==
  /\ Idle
  /\ IF items = <<>> THEN pc' = "prompt" /\ UNCHANGED re
                      ELSE Reencrypt("close", "prompt")
  /\ UNCHANGED <<win, todo, docVars, guardVars, accountVars>>

\* closeEvent: the window is re-encrypted before a new password is asked for.
CloseEvent ==
  /\ Idle
  /\ IF items = <<>> THEN pc' = "prompt" /\ UNCHANGED re
                      ELSE Reencrypt("close", "idle")
  /\ UNCHANGED <<win, todo, docVars, guardVars, accountVars>>

\* promptPasswordChangeUnified returns FALSE: cancelled, a bad new password,
\* the change refused or lost on the way, the counter unreadable.
PromptFails ==
  /\ pc = "prompt"
  /\ pc' = "idle"
  /\ UNCHANGED <<win, todo, re, docVars, guardVars, accountVars>>

\* Wrong on purpose: one more skip than the text announces.
PromptSkip_Bug ==
  /\ pc = "prompt" /\ skipped <= SkipLimit
  /\ skipped' = IF skipped < SkipLimit THEN skipped + 1 ELSE skipped
  /\ unpaid' = unpaid + 1
  /\ win' = "closed" /\ pc' = "idle"
  /\ UNCHANGED <<todo, re, docVars, guardVars, rights, shown, pwOk>>

PromptSkip ==
  /\ pc = "prompt" /\ skipped < SkipLimit
  /\ skipped' = skipped + 1
  /\ unpaid' = unpaid + 1
  /\ win' = "closed" /\ pc' = "idle"
  /\ UNCHANGED <<todo, re, docVars, guardVars, rights, shown, pwOk>>

\* Wrong on purpose: password_ keeps the old value.
PromptChange_Bug ==
  /\ pc = "prompt" /\ pwOk
  /\ unpaid' = 0 /\ pc' = "idle" /\ pwOk' = FALSE
  /\ \/ skipped' = 0 /\ win' = "closed"
     \/ UNCHANGED <<skipped, win>>
  /\ UNCHANGED <<todo, re, docVars, guardVars, rights, shown>>

\* The server changed the password; then the counter is saved or not.
PromptChange ==
  /\ pc = "prompt" /\ pwOk
  /\ unpaid' = 0 /\ pc' = "idle"
  /\ \/ skipped' = 0 /\ win' = "closed"
     \/ UNCHANGED <<skipped, win>>
  /\ UNCHANGED <<todo, re, docVars, guardVars, rights, shown, pwOk>>

\* The server changed the password but the window never learnt it.
PromptReplyLost ==
  /\ LoseReplies
  /\ pc = "prompt" /\ pwOk
  /\ pwOk' = FALSE /\ unpaid' = 0 /\ pc' = "idle"
  /\ UNCHANGED <<win, todo, re, docVars, guardVars, rights, shown, skipped>>

\* The process is killed; what was in memory is gone.  Its temporary files
\* stay on disk, unknown to every later window: temps is about this one.
Kill ==
  /\ win = "open"
  /\ win' = "killed" /\ pc' = "idle" /\ todo' = <<>> /\ re' = NoCall
  /\ items' = <<>> /\ secure' = FALSE /\ signal' = FALSE
  /\ temps' = {} /\ lastTemp' = 0
  /\ UNCHANGED <<disk, clip, accountVars>>

\* The program is started again.  A damaged counter counts as SkipLimit.
Restart ==
  /\ win \in {"closed", "killed"}
  /\ win' = "login"
  /\ signal' = FALSE
  /\ temps' = {} /\ lastTemp' = 0
  /\ skipped' \in {skipped, SkipLimit}
  /\ UNCHANGED <<pc, todo, re, items, disk, secure, clip, rights, shown, pwOk, unpaid>>

-----------------------------------------------------------------------------
Next ==
  \/ Login \/ RightsChange
  \/ \E p \in Paths : OnEncrypt(p)
  \/ \E files \in SeqOf(Paths, MaxItems) \ {<<>>} : OnDecrypt(files)
  \/ DecryptOne \/ DecryptFails \/ BoxClosed \/ DecryptDone
  \/ ReencryptItem \/ ReencryptRefused \/ ReencryptTorn \/ ReencryptDone
  \/ OnTerminate
  \/ \E n \in 1..2 : ClipboardFilled(n)
  \/ OnCopyTempPath \/ OnClipboardChanged
  \/ CloseEvent \/ PromptFails \/ PromptSkip \/ PromptChange \/ PromptReplyLost
  \/ Kill \/ Restart

Spec == Init /\ [][Next]_vars

\* A user who wants to leave: the window's own steps are taken, the user
\* closes it again and again and skips the password change or makes it, and
\* a server that would accept a request does so in the end.
Leaving == /\ WF_vars(DecryptOne \/ DecryptFails) /\ SF_vars(BoxClosed)
           /\ WF_vars(DecryptDone) /\ WF_vars(ReencryptDone)
           /\ WF_vars(ReencryptItem \/ ReencryptRefused \/ ReencryptTorn)
           /\ WF_vars(OnClipboardChanged)
           /\ WF_vars(PromptFails \/ PromptSkip \/ PromptChange \/ PromptReplyLost)
           /\ SF_vars(CloseEvent)
           /\ \A k \in 1..MaxItems : SF_vars(ReencryptItem /\ re.next = k)
           /\ SF_vars(PromptSkip \/ (PromptChange /\ win' = "closed"))

LiveSpec == Spec /\ Leaving

-----------------------------------------------------------------------------
(* Properties. *)

\* While the window waits for the user with a decrypted file in memory,
\* secure mode is on, whatever mixture of failed decryptions, violations and
\* failed re-encryptions came before (main_window.cpp:536, 606, 639, 733).
GuardedWhenIdle == Idle /\ items # <<>> => secure

\* When a re-encryption failed half way and left a torn file, the data that
\* was decrypted from it stays in memory until the file is whole again, and
\* leaves it only with the process (main_window.cpp:618-636).
TornKeepsItem ==
  [][\A p \in Paths : disk[p] = "torn" /\ Holds(p) /\ win' # "killed"
                        => Holds(p)' \/ disk'[p] = "enc"]_vars

\* Every temporary file belongs to an item of the list, also after a
\* re-encryption that stopped half way, so that the next one removes it.
TempTracked ==
  \A t \in temps : \E k \in DOMAIN items : items[k].temp = t

\* No forbidden clipboard content stays unnoticed beside decrypted files:
\* what was there before is cleared, what comes later has a signal waiting
\* (secure_guards.cpp:26-32, 34-80).
ClipboardWatched == Idle /\ items # <<>> /\ clip # 0 /\ TooLarge => signal

\* No more than SkipLimit ordinary closings without a password change, also
\* across restarts and with a counter that could not be saved or was damaged.
SkipsBounded == unpaid <= SkipLimit

\* A user who opens no more files and keeps closing the window gets out.
CanLeave == <>[](pc # "decrypt") => (win = "open" ~> win # "open")

=============================================================================
