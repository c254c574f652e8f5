-------------------------- MODULE ProgramsSafeProofs --------------------------
(***************************************************************************)
(* The safety of the programs of MCProgramsSafe: the client's window, the  *)
(* search for networks, the saved list of networks, the panels of the      *)
(* administrators and the files of the old utility.                        *)
(***************************************************************************)
EXTENDS MCProgramsSafe, SequenceTheorems, TLAPS

-----------------------------------------------------------------------------
(* The saved list of networks *)

\* A collector has not run for longer than it may; the stamp it took is of
\* this run.
CollectorInv ==
  \A c \in Collectors :
    col[c].pc # "idle" =>
      /\ col[c].snap.at <= time /\ time - col[c].snap.at <= CollectMax
      /\ slow = 0 /\ col[c].pc \in {"write", "rename"} =>
           col[c].snap.stamp - col[c].snap.at <= CollectMax

\* What was published is whole and was stamped soon after it was read.
FileInv ==
  /\ file = Snapshot!Empty \/ file.whole
  /\ slow = 0 => file.stamp - file.at <= CollectMax

SnapshotInv ==
  /\ Snapshot!TypeOK /\ Snapshot!ServedWhole /\ Snapshot!ServedRecent
  /\ CollectorInv /\ FileInv

-----------------------------------------------------------------------------
(* The search for networks *)

Session == {"attach", "scan", "event", "table"}

\* A radio scan has ended since the panel that a helper works for asked.
Newer(h) == client[h] # Nobody => scans > asked[client[h]]

\* A panel waits for the helper that works for it, and no other.
WaitingInv ==
  /\ \A p \in Panels, h \in Helpers : panel[p].helper = h <=> client[h] = p
  /\ \A p \in Panels : asked[p] <= scans

\* Outside a session there is nothing to misunderstand.
QuietInv ==
  \A h \in Helpers :
    /\ scanPc[h] \notin Session =>
         h \notin attached /\ cmd[h] = "none" /\ queue[h] = <<>> /\ ~seen[h].completed
    /\ scanPc[h] # "reply" => ~scanAnswer[h].ok
    /\ cmd[h] = "SCAN_RESULTS" => scanPc[h] = "table"

\* A completion that a helper has heard of, and a table it was sent, are
\* newer than the question.
HeardInv ==
  \A h \in Helpers :
    /\ seen[h].completed \/ scanPc[h] = "table" => Newer(h)
    /\ \A k \in 1..Len(queue[h]) :
         /\ queue[h][k].kind = "results" => Newer(h)
         /\ queue[h][k].kind = "table" /\ client[h] # Nobody =>
              queue[h][k].table > asked[client[h]]

\* Scan!TypeOK, but for the slot.
ScanTypes ==
  /\ radio \in BOOLEAN /\ scans \in 0..MaxScans /\ attached \subseteq Helpers
  /\ cmd \in [Helpers -> {"none", "ATTACH", "SCAN", "SCAN_RESULTS"}]
  /\ queue \in [Helpers -> Seq(Scan!Messages)]
  /\ scanPc \in [Helpers -> {"off", "reserve", "locked", "reply"} \cup Session]
  /\ seen \in [Helpers -> [completed : BOOLEAN, failed : BOOLEAN]]
  /\ client \in [Helpers -> Panels \cup {Nobody}]
  /\ scanAnswer \in [Helpers -> [ok : BOOLEAN, table : 0..MaxScans]]
  /\ asked \in [Panels -> 0..MaxScans]
  /\ panel \in [Panels -> [helper : Helpers \cup {Nobody}, list : 0..MaxScans]]

\* The lock's holder decides, and the stamp is never older than the last slot.
SlotInv ==
  /\ wall \in 1..ScanTime /\ stamp \in 0..ScanTime /\ slot \in 0..ScanTime
  /\ flock \in Helpers \cup {Nobody}
  /\ \A h \in Helpers : flock = h <=> scanPc[h] = "locked"
  /\ slot <= stamp

SearchInv == ScanTypes /\ Scan!AnswerIsNewer /\ WaitingInv /\ QuietInv /\ HeardInv

ScanInv == SearchInv /\ SlotInv

-----------------------------------------------------------------------------
(* The panels *)

\* What a console is about to set is not what it shows.
PanelInv ==
  /\ Binding!TypeOK
  /\ \A c \in Consoles :
       /\ panelPc[c] = "fetch" => ~view[c].known
       /\ panelPc[c] = "set" /\ view[c].known => target[c] # view[c].on

-----------------------------------------------------------------------------
(* The client's window *)

\* Window!TypeOK, with lists as sequences.
WindowTypes ==
  /\ win \in {"login", "open", "closed", "killed"}
  /\ winPc \in {"idle", "decrypt", "box", "reencrypt", "prompt"}
  /\ todo \in Seq(Paths) /\ items \in Seq(Window!Items)
  /\ Len(items) + Len(todo) <= MaxItems
  /\ temps \subseteq 1..MaxTemps /\ lastTemp \in 0..MaxTemps
  /\ secure \in BOOLEAN /\ clip \in 0..2 /\ signal \in BOOLEAN
  /\ disk \in [Paths -> {"enc", "torn"}]
  /\ rights \in {{"encrypt", "decrypt"}, {"decrypt"}} /\ shown \in {{"encrypt", "decrypt"}, {"decrypt"}}
  /\ pwOk \in BOOLEAN
  /\ skipped \in 0..SkipLimit /\ unpaid \in 0..skipped

\* Where the thread is says what it holds: a call of reencryptAll is under way,
\* files are left to decrypt, or nothing at all.
ThreadInv ==
  /\ IF winPc = "reencrypt"
     THEN /\ re \in [by : Window!Callers, ret : {"idle", "box"}, next : 1..(Len(items) + 1)]
          /\ re.by = "close" => re.ret = "idle"
     ELSE re = Window!NoCall
  /\ todo # <<>> => winPc \in {"decrypt", "box"} \/ (winPc = "reencrypt" /\ re.ret = "box")
  /\ win # "open" => winPc = "idle" /\ items = <<>>
  /\ winPc = "prompt" => items = <<>>

\* Secure mode is on exactly while there are items, but for the files that
\* onDecrypt has just added; then no content goes unnoticed.
SecureInv ==
  /\ secure => items # <<>>
  /\ (winPc = "idle" \/ (winPc = "reencrypt" /\ re.ret = "idle")) /\ items # <<>> => secure
  /\ secure /\ clip # 0 /\ Window!TooLarge => signal

\* reencryptAll has written the files of the items before the next one, and
\* removed their temporary files.
ReencryptInv ==
  /\ \A t \in temps : \E k \in 1..Len(items) :
       items[k].temp = t /\ (winPc = "reencrypt" => k >= re.next)
  /\ winPc = "reencrypt" => \A k \in 1..(re.next - 1) : disk[items[k].path] = "enc"

WindowInv == WindowTypes /\ ThreadInv /\ SecureInv /\ ReencryptInv
-----------------------------------------------------------------------------
(* Files of the old utility *)

\* The i-th byte that the blocks give.
ByteAt(i) == Gost!Plain((i - 1) \div Block + 1)[((i - 1) % Block) + 1]

\* The blocks are those the writer makes of the text: each is linked to the one
\* before it, and holds its bytes of the text and then the padding.
Encrypted ==
  \A k \in 1..Len(cipher) :
    /\ cipher[k].prev = IF k = 1 THEN Gost!IV ELSE cipher[k - 1].plain
    /\ \A i \in 1..Block :
         cipher[k].plain[i] = IF (k - 1) * Block + i <= Len(text)
                              THEN text[(k - 1) * Block + i] ELSE k * Block - Len(text)

\* The writer has encrypted the first bytes of the text, in whole blocks until
\* the text ends.
WriterInv ==
  gostPc = "write" =>
    /\ Encrypted /\ digest = text /\ odd = FALSE /\ done <= Len(text)
    /\ \/ done = Len(cipher) * Block
       \/ done = Len(text) /\ done < Len(cipher) * Block /\ Len(cipher) * Block < done + Block

\* A stored file is no longer than its text needs, and what is intact is what
\* was written.
StoredInv ==
  gostPc # "write" =>
    /\ Len(cipher) * Block < Len(text) + Block
    /\ Gost!Intact => Encrypted
    /\ gostPc = "written" => Gost!Intact

\* The reader has written the blocks it has done.
ReaderInv ==
  gostPc = "read" =>
    /\ done <= Len(cipher) /\ Len(out) = done * Block
    /\ \A i \in 1..(done * Block) : out[i] = ByteAt(i)

\* The text, or one that ends like padding.
ReadExactly ==
  \/ out = text
  \/ Len(text) % Block = 0 /\ \E n \in 1..Block : Gost!EndsInPadding(text, n)

\* What the reader has left behind, and what the server makes of the file.
AnswerInv ==
  /\ gostPc \in {"recover", "compare", "end"} =>
       /\ odd => gostAnswer.read = Gost!Failed
       /\ ~odd => gostAnswer.read = [ok |-> TRUE, text |-> out]
       /\ ~odd /\ raw => out = Gost!Whole
       /\ Gost!Intact /\ ~raw => ReadExactly
  /\ gostPc \in {"compare", "end"} =>
       gostAnswer.server = IF Gost!SizeRefused THEN Gost!Failed ELSE Gost!Recover(Gost!Whole)
  /\ gostPc = "end" =>
       /\ gostAnswer.tool.ok => gostAnswer.tool.text = digest
       /\ raw => gostAnswer.tool = gostAnswer.server

GostInv ==
  /\ Gost!TypeOK /\ Len(text) <= MaxSize
  /\ WriterInv /\ StoredInv /\ ReaderInv /\ AnswerInv

-----------------------------------------------------------------------------
(* The proof for the window *)

\* What is assumed of its constants.
LEMMA WindowAssumed ==
  MaxItems \in Nat /\ MaxTemps \in Nat /\ ClipboardMaxBytes \in Nat /\ SkipLimit \in Nat
  BY SafeAssumption DEF SafeAssumption, Window!WindowAssumption

\* SeqOf(S, n) are the sequences of at most n elements.
LEMMA SeqOfFacts ==
  ASSUME NEW S, NEW n \in Nat, NEW q
  PROVE  q \in Window!SeqOf(S, n) <=> q \in Seq(S) /\ Len(q) <= n
  <1>1. ASSUME q \in Window!SeqOf(S, n) PROVE q \in Seq(S) /\ Len(q) <= n
    <2>1. PICK m \in 0..n : q \in [1..m -> S]
      BY <1>1, ZenonT(30) DEF Window!SeqOf
    <2> QED BY <2>1, IsASeq, LenProperties
  <1>2. ASSUME q \in Seq(S), Len(q) <= n PROVE q \in Window!SeqOf(S, n)
    <2>1. Len(q) \in 0..n /\ q \in [1..Len(q) -> S]
      BY <1>2
    <2> QED BY <2>1 DEF Window!SeqOf
  <1> QED BY <1>1, <1>2

\* The window opens.
LEMMA WindowLogin ==
  ASSUME WindowInv, Window!Login
  PROVE  WindowInv'
  <1> USE WindowAssumed DEF WindowInv, Window!Login, Window!accountVars,
          Window!docVars, Window!guardVars, Window!accountVars
  <1>1. WindowTypes'
    BY DEF WindowTypes, ThreadInv, SecureInv
  <1>2. ThreadInv'
    BY DEF WindowTypes, ThreadInv, SecureInv, Window!NoCall
  <1>3. SecureInv'
    BY DEF WindowTypes, ThreadInv, SecureInv, Window!TooLarge, Window!NoCall
  <1>4. ReencryptInv'
    BY DEF WindowTypes, ThreadInv, ReencryptInv
  <1> QED BY <1>1, <1>2, <1>3, <1>4

\* The account's rights change.
LEMMA WindowRightsChange ==
  ASSUME WindowInv, Window!RightsChange
  PROVE  WindowInv'
  <1> USE WindowAssumed DEF WindowInv, Window!RightsChange,
          Window!docVars, Window!guardVars, Window!accountVars
  <1>1. WindowTypes'
    BY DEF WindowTypes, ThreadInv, SecureInv
  <1>2. ThreadInv'
    BY DEF WindowTypes, ThreadInv, SecureInv, Window!NoCall
  <1>3. SecureInv'
    BY DEF WindowTypes, ThreadInv, SecureInv, Window!TooLarge, Window!NoCall
  <1>4. ReencryptInv'
    BY DEF WindowTypes, ThreadInv, ReencryptInv
  <1> QED BY <1>1, <1>2, <1>3, <1>4

\* A file is encrypted.
LEMMA WindowOnEncrypt ==
  ASSUME WindowInv, NEW p \in Paths, Window!OnEncrypt(p)
  PROVE  WindowInv'
  <1> USE WindowAssumed DEF WindowInv, Window!OnEncrypt, Window!Idle, Window!Accepts,
          Window!docVars, Window!guardVars, Window!accountVars
  <1>1. WindowTypes'
    BY DEF WindowTypes, ThreadInv, SecureInv
  <1>2. ThreadInv'
    BY DEF WindowTypes, ThreadInv, SecureInv, Window!NoCall
  <1>3. SecureInv'
    BY DEF WindowTypes, ThreadInv, SecureInv, Window!TooLarge, Window!NoCall
  <1>4. ReencryptInv'
    BY DEF WindowTypes, ThreadInv, ReencryptInv
  <1> QED BY <1>1, <1>2, <1>3, <1>4

\* Files are to be decrypted.
LEMMA WindowOnDecrypt ==
  ASSUME WindowInv, NEW files \in Window!SeqOf(Paths, MaxItems), Window!OnDecrypt(files)
  PROVE  WindowInv'
  <1> USE WindowAssumed DEF WindowInv, Window!OnDecrypt, Window!Idle,
          Window!docVars, Window!guardVars, Window!accountVars
  <1>1. WindowTypes'
    <2>1. files \in Seq(Paths)
      BY SeqOfFacts
    <2> QED BY <2>1 DEF WindowTypes
  <1>2. ThreadInv'
    BY DEF WindowTypes, ThreadInv, SecureInv, Window!NoCall
  <1>3. SecureInv'
    BY DEF WindowTypes, ThreadInv, SecureInv, Window!TooLarge, Window!NoCall
  <1>4. ReencryptInv'
    BY DEF WindowTypes, ThreadInv, ReencryptInv
  <1> QED BY <1>1, <1>2, <1>3, <1>4

\* One is decrypted to memory.
LEMMA WindowDecryptOne ==
  ASSUME WindowInv, Window!DecryptOne
  PROVE  WindowInv'
  <1> USE WindowAssumed DEF WindowInv, Window!DecryptOne, Window!TempOutcomes, Window!Accepts,
          Window!docVars, Window!guardVars, Window!accountVars
  <1>1. WindowTypes'
    <2>1. PICK t \in Window!TempOutcomes :
            /\ items' = Append(items, [path |-> Head(todo), temp |-> t.temp])
            /\ temps' = t.files /\ lastTemp' = t.last
      OBVIOUS
    <2>2. t.temp \in 0..MaxTemps /\ t.files \subseteq 1..MaxTemps /\ t.last \in 0..MaxTemps
      <3>1. CASE t = [temp |-> 0, files |-> temps, last |-> lastTemp]
        BY <3>1 DEF WindowTypes
      <3>2. CASE /\ lastTemp # MaxTemps
                 /\ t = [temp |-> lastTemp + 1, files |-> temps \cup {lastTemp + 1}, last |-> lastTemp + 1]
        <4>1. lastTemp + 1 \in 1..MaxTemps
          BY <3>2 DEF WindowTypes
        <4> QED BY <3>2, <4>1 DEF WindowTypes
      <3> QED BY <3>1, <3>2
    <2>3. Head(todo) \in Paths /\ Tail(todo) \in Seq(Paths) /\ Len(Tail(todo)) = Len(todo) - 1
      BY DEF WindowTypes
    <2>4. [path |-> Head(todo), temp |-> t.temp] \in Window!Items
      BY <2>2, <2>3 DEF Window!Items
    <2>5. items' \in Seq(Window!Items) /\ Len(items') = Len(items) + 1
      BY <2>1, <2>4 DEF WindowTypes
    <2> QED BY <2>1, <2>2, <2>3, <2>5 DEF WindowTypes
  <1>2. ThreadInv'
    BY DEF WindowTypes, ThreadInv, SecureInv, Window!NoCall
  <1>3. SecureInv'
    BY DEF WindowTypes, ThreadInv, SecureInv, Window!TooLarge, Window!NoCall
  <1>4. ReencryptInv'
    <2>1. /\ winPc' = "decrypt" /\ winPc = "decrypt"
          /\ items \in Seq(Window!Items)
      BY DEF WindowTypes
    <2>2. PICK t \in Window!TempOutcomes :
            /\ items' = Append(items, [path |-> Head(todo), temp |-> t.temp])
            /\ temps' = t.files
      OBVIOUS
    <2>3. t.files \subseteq temps \cup {t.temp}
      <3>1. CASE t = [temp |-> 0, files |-> temps, last |-> lastTemp]
        BY ONLY <3>1
      <3>2. CASE t = [temp |-> lastTemp + 1, files |-> temps \cup {lastTemp + 1}, last |-> lastTemp + 1]
        BY ONLY <3>2
      <3> QED BY <3>1, <3>2
    <2>4. /\ Len(items') = Len(items) + 1 /\ items'[Len(items) + 1].temp = t.temp
          /\ \A k \in 1..Len(items) : items'[k] = items[k]
      BY ONLY <2>1, <2>2
    <2>5. Len(items) \in Nat
      BY ONLY <2>1
    <2>6. \A u \in temps : \E k \in 1..Len(items) : items[k].temp = u
      BY DEF ReencryptInv
    <2>7. ASSUME NEW u \in temps'
          PROVE  \E k \in 1..Len(items') : items'[k].temp = u
      <3>1. CASE u = t.temp
        BY ONLY <2>4, <2>5, <3>1
      <3>2. CASE u \in temps
        BY ONLY <2>4, <2>5, <2>6, <3>2
      <3> QED BY ONLY <2>2, <2>3, <2>7, <3>1, <3>2
    <2> QED BY ONLY <2>1, <2>7 DEF ReencryptInv
  <1> QED BY <1>1, <1>2, <1>3, <1>4

\* One cannot be decrypted.
LEMMA WindowDecryptFails ==
  ASSUME WindowInv, Window!DecryptFails
  PROVE  WindowInv'
  <1> USE WindowAssumed DEF WindowInv, Window!DecryptFails,
          Window!docVars, Window!guardVars, Window!accountVars
  <1>1. WindowTypes'
    BY DEF WindowTypes, ThreadInv, SecureInv
  <1>2. ThreadInv'
    BY DEF WindowTypes, ThreadInv, SecureInv, Window!NoCall
  <1>3. SecureInv'
    BY DEF WindowTypes, ThreadInv, SecureInv, Window!TooLarge, Window!NoCall
  <1>4. ReencryptInv'
    BY DEF WindowTypes, ThreadInv, ReencryptInv
  <1> QED BY <1>1, <1>2, <1>3, <1>4

\* The warning is closed.
LEMMA WindowBoxClosed ==
  ASSUME WindowInv, Window!BoxClosed
  PROVE  WindowInv'
  <1> USE WindowAssumed DEF WindowInv, Window!BoxClosed,
          Window!docVars, Window!guardVars, Window!accountVars
  <1>1. WindowTypes'
    BY DEF WindowTypes, ThreadInv, SecureInv
  <1>2. ThreadInv'
    BY DEF WindowTypes, ThreadInv, SecureInv, Window!NoCall
  <1>3. SecureInv'
    BY DEF WindowTypes, ThreadInv, SecureInv, Window!TooLarge, Window!NoCall
  <1>4. ReencryptInv'
    BY DEF WindowTypes, ThreadInv, ReencryptInv
  <1> QED BY <1>1, <1>2, <1>3, <1>4

\* All are decrypted, and secure mode is on.
LEMMA WindowDecryptDone ==
  ASSUME WindowInv, Window!DecryptDone
  PROVE  WindowInv'
  <1> USE WindowAssumed DEF WindowInv, Window!DecryptDone, Window!UpdateSecureState,
          Window!docVars, Window!guardVars, Window!accountVars
  <1>1. WindowTypes'
    BY DEF WindowTypes, ThreadInv, SecureInv
  <1>2. ThreadInv'
    BY DEF WindowTypes, ThreadInv, SecureInv, Window!NoCall
  <1>3. SecureInv'
    BY DEF WindowTypes, ThreadInv, SecureInv, Window!TooLarge, Window!NoCall
  <1>4. ReencryptInv'
    BY DEF WindowTypes, ThreadInv, ReencryptInv
  <1> QED BY <1>1, <1>2, <1>3, <1>4

\* An item is written back.
LEMMA WindowReencryptItem ==
  ASSUME WindowInv, Window!ReencryptItem
  PROVE  WindowInv'
  <1> USE WindowAssumed DEF WindowInv, Window!ReencryptItem, Window!Accepts,
          Window!docVars, Window!guardVars, Window!accountVars
  <1>1. WindowTypes'
    BY DEF WindowTypes, ThreadInv, SecureInv
  <1>2. ThreadInv'
    <2>1. /\ winPc = "reencrypt" /\ UNCHANGED <<winPc, win, todo, items>>
          /\ re' = [re EXCEPT !.next = @ + 1] /\ re.next <= Len(items)
          /\ re \in [by : Window!Callers, ret : {"idle", "box"}, next : 1..(Len(items) + 1)]
          /\ Len(items) \in Nat
      BY DEF WindowTypes, ThreadInv
    <2>2. /\ re' \in [by : Window!Callers, ret : {"idle", "box"}, next : 1..(Len(items) + 1)]
          /\ re'.by = re.by /\ re'.ret = re.ret
      BY ONLY <2>1
    <2> QED BY ONLY <2>1, <2>2, ThreadInv DEF ThreadInv
  <1>3. SecureInv'
    BY DEF WindowTypes, ThreadInv, SecureInv, Window!TooLarge, Window!NoCall
  <1>4. ReencryptInv'
    <2>1. /\ re \in [by : Window!Callers, ret : {"idle", "box"}, next : 1..(Len(items) + 1)]
          /\ re.next \in 1..Len(items) /\ re'.next = re.next + 1
      BY DEF ThreadInv, WindowTypes
    <2>2. temps' = temps \ {items[re.next].temp}
      OBVIOUS
    <2>3. ASSUME NEW t \in temps'
          PROVE  \E k \in 1..Len(items) : items[k].temp = t /\ k >= re'.next
      <3>1. PICK k \in 1..Len(items) : items[k].temp = t /\ k >= re.next
        BY <2>2 DEF ReencryptInv
      <3>2. k # re.next
        BY <2>2, <2>3, <3>1
      <3> QED BY ONLY <2>1, <3>1, <3>2
    <2>4. ASSUME NEW k \in 1..(re'.next - 1)
          PROVE  disk'[items[k].path] = "enc"
      <3>1. items[k].path \in Paths
        <4>1. k \in 1..Len(items)
          BY <2>1, <2>4 DEF WindowTypes
        <4>2. items[k] \in Window!Items
          BY <4>1 DEF WindowTypes
        <4> QED BY <4>2 DEF Window!Items
      <3>2. CASE k = re.next
        BY <3>1, <3>2 DEF WindowTypes
      <3>3. CASE k # re.next
        <4>1. k \in 1..(re.next - 1)
          BY <2>1, <3>3
        <4>2. disk[items[k].path] = "enc"
          BY <4>1 DEF ReencryptInv
        <4> QED BY <3>1, <4>2 DEF WindowTypes
      <3> QED BY <3>2, <3>3
    <2> QED BY <2>3, <2>4 DEF ReencryptInv
  <1> QED BY <1>1, <1>2, <1>3, <1>4

\* An item is refused.
LEMMA WindowReencryptRefused ==
  ASSUME WindowInv, Window!ReencryptRefused
  PROVE  WindowInv'
  <1> USE WindowAssumed DEF WindowInv, Window!ReencryptRefused, Window!Return, Window!NoCall,
          Window!docVars, Window!guardVars, Window!accountVars
  <1>1. WindowTypes'
    BY DEF WindowTypes, ThreadInv, SecureInv
  <1>2. ThreadInv'
    BY DEF WindowTypes, ThreadInv, SecureInv, Window!NoCall
  <1>3. SecureInv'
    BY DEF WindowTypes, ThreadInv, SecureInv, Window!TooLarge, Window!NoCall
  <1>4. ReencryptInv'
    BY DEF WindowTypes, ThreadInv, ReencryptInv
  <1> QED BY <1>1, <1>2, <1>3, <1>4

\* The file of an item is torn.
LEMMA WindowReencryptTorn ==
  ASSUME WindowInv, Window!ReencryptTorn
  PROVE  WindowInv'
  <1> USE WindowAssumed DEF WindowInv, Window!ReencryptTorn, Window!Accepts, Window!Return, Window!NoCall,
          Window!docVars, Window!guardVars, Window!accountVars
  <1>1. WindowTypes'
    BY DEF WindowTypes, ThreadInv, SecureInv
  <1>2. ThreadInv'
    BY DEF WindowTypes, ThreadInv, SecureInv, Window!NoCall
  <1>3. SecureInv'
    BY DEF WindowTypes, ThreadInv, SecureInv, Window!TooLarge, Window!NoCall
  <1>4. ReencryptInv'
    BY DEF WindowTypes, ThreadInv, ReencryptInv
  <1> QED BY <1>1, <1>2, <1>3, <1>4

\* All items are written back.
LEMMA WindowReencryptDone ==
  ASSUME WindowInv, Window!ReencryptDone
  PROVE  WindowInv'
  <1> USE WindowAssumed DEF WindowInv, Window!ReencryptDone, Window!UpdateSecureState, Window!Return, Window!NoCall,
          Window!docVars, Window!guardVars, Window!accountVars
  <1>1. WindowTypes'
    BY DEF WindowTypes, ThreadInv, SecureInv
  <1>2. ThreadInv'
    BY DEF WindowTypes, ThreadInv, SecureInv, Window!NoCall
  <1>3. SecureInv'
    BY DEF WindowTypes, ThreadInv, SecureInv, Window!TooLarge, Window!NoCall
  <1>4. ReencryptInv'
    BY DEF WindowTypes, ThreadInv, ReencryptInv
  <1> QED BY <1>1, <1>2, <1>3, <1>4

\* The user asks for re-encryption.
LEMMA WindowOnTerminate ==
  ASSUME WindowInv, Window!OnTerminate
  PROVE  WindowInv'
  <1> USE WindowAssumed DEF WindowInv, Window!OnTerminate, Window!Idle, Window!Reencrypt,
          Window!docVars, Window!guardVars, Window!accountVars
  <1>1. WindowTypes'
    BY DEF WindowTypes, ThreadInv, SecureInv
  <1>2. ThreadInv'
    <2>1. 1 \in 1..(Len(items) + 1)
      BY DEF WindowTypes
    <2> QED BY <2>1 DEF WindowTypes, ThreadInv, Window!Callers
  <1>3. SecureInv'
    BY DEF WindowTypes, ThreadInv, SecureInv, Window!TooLarge, Window!NoCall
  <1>4. ReencryptInv'
    BY DEF WindowTypes, ThreadInv, ReencryptInv
  <1> QED BY <1>1, <1>2, <1>3, <1>4

\* The clipboard is filled.
LEMMA WindowClipboardFilled ==
  ASSUME WindowInv, NEW n \in 1..2, Window!ClipboardFilled(n)
  PROVE  WindowInv'
  <1> USE WindowAssumed DEF WindowInv, Window!ClipboardFilled,
          Window!docVars, Window!guardVars, Window!accountVars
  <1>1. WindowTypes'
    BY DEF WindowTypes, ThreadInv, SecureInv
  <1>2. ThreadInv'
    BY DEF WindowTypes, ThreadInv, SecureInv, Window!NoCall
  <1>3. SecureInv'
    BY DEF WindowTypes, ThreadInv, SecureInv, Window!TooLarge, Window!NoCall
  <1>4. ReencryptInv'
    BY DEF WindowTypes, ThreadInv, ReencryptInv
  <1> QED BY <1>1, <1>2, <1>3, <1>4

\* The window fills the clipboard.
LEMMA WindowOnCopyTempPath ==
  ASSUME WindowInv, Window!OnCopyTempPath
  PROVE  WindowInv'
  <1> USE WindowAssumed DEF WindowInv, Window!OnCopyTempPath, Window!Idle,
          Window!docVars, Window!guardVars, Window!accountVars
  <1>1. WindowTypes'
    BY DEF WindowTypes, ThreadInv, SecureInv
  <1>2. ThreadInv'
    BY DEF WindowTypes, ThreadInv, SecureInv, Window!NoCall
  <1>3. SecureInv'
    BY DEF WindowTypes, ThreadInv, SecureInv, Window!TooLarge, Window!NoCall
  <1>4. ReencryptInv'
    BY DEF WindowTypes, ThreadInv, ReencryptInv
  <1> QED BY <1>1, <1>2, <1>3, <1>4

\* A signal of the clipboard is handled.
LEMMA WindowOnClipboardChanged ==
  ASSUME WindowInv, Window!OnClipboardChanged
  PROVE  WindowInv'
  <1> USE WindowAssumed DEF WindowInv, Window!OnClipboardChanged, Window!EventLoop, Window!Violation, Window!Reencrypt,
          Window!docVars, Window!guardVars, Window!accountVars
  <1>1. WindowTypes'
    <2>1. clip' \in 0..2 /\ winPc' \in {"idle", "decrypt", "box", "reencrypt", "prompt"}
      BY DEF WindowTypes
    <2> QED BY <2>1 DEF WindowTypes
  <1>2. ThreadInv'
    <2>1. 1 \in 1..(Len(items) + 1)
      BY DEF WindowTypes
    <2>2. CASE Window!Violation
      <3>1. winPc \in {"idle", "box"}
        BY <2>2 DEF ThreadInv, SecureInv
      <3> QED BY <2>1, <2>2, <3>1 DEF WindowTypes, ThreadInv, Window!Callers
    <2>3. CASE ~Window!Violation
      BY <2>3 DEF ThreadInv
    <2> QED BY <2>2, <2>3
  <1>3. SecureInv'
    BY DEF WindowTypes, ThreadInv, SecureInv, Window!TooLarge, Window!NoCall
  <1>4. ReencryptInv'
    BY DEF WindowTypes, ThreadInv, ReencryptInv
  <1> QED BY <1>1, <1>2, <1>3, <1>4

\* The window is to be closed.
LEMMA WindowCloseEvent ==
  ASSUME WindowInv, Window!CloseEvent
  PROVE  WindowInv'
  <1> USE WindowAssumed DEF WindowInv, Window!CloseEvent, Window!Idle, Window!Reencrypt,
          Window!docVars, Window!guardVars, Window!accountVars
  <1>1. WindowTypes'
    BY DEF WindowTypes, ThreadInv, SecureInv
  <1>2. ThreadInv'
    <2>1. 1 \in 1..(Len(items) + 1)
      BY DEF WindowTypes
    <2> QED BY <2>1 DEF WindowTypes, ThreadInv, Window!Callers
  <1>3. SecureInv'
    BY DEF WindowTypes, ThreadInv, SecureInv, Window!TooLarge, Window!NoCall
  <1>4. ReencryptInv'
    BY DEF WindowTypes, ThreadInv, ReencryptInv
  <1> QED BY <1>1, <1>2, <1>3, <1>4

\* The password prompt fails.
LEMMA WindowPromptFails ==
  ASSUME WindowInv, Window!PromptFails
  PROVE  WindowInv'
  <1> USE WindowAssumed DEF WindowInv, Window!PromptFails,
          Window!docVars, Window!guardVars, Window!accountVars
  <1>1. WindowTypes'
    BY DEF WindowTypes, ThreadInv, SecureInv
  <1>2. ThreadInv'
    BY DEF WindowTypes, ThreadInv, SecureInv, Window!NoCall
  <1>3. SecureInv'
    BY DEF WindowTypes, ThreadInv, SecureInv, Window!TooLarge, Window!NoCall
  <1>4. ReencryptInv'
    BY DEF WindowTypes, ThreadInv, ReencryptInv
  <1> QED BY <1>1, <1>2, <1>3, <1>4

\* The password change is skipped.
LEMMA WindowPromptSkip ==
  ASSUME WindowInv, Window!PromptSkip
  PROVE  WindowInv'
  <1> USE WindowAssumed DEF WindowInv, Window!PromptSkip,
          Window!docVars, Window!guardVars, Window!accountVars
  <1>1. WindowTypes'
    BY DEF WindowTypes, ThreadInv, SecureInv
  <1>2. ThreadInv'
    BY DEF WindowTypes, ThreadInv, SecureInv, Window!NoCall
  <1>3. SecureInv'
    BY DEF WindowTypes, ThreadInv, SecureInv, Window!TooLarge, Window!NoCall
  <1>4. ReencryptInv'
    BY DEF WindowTypes, ThreadInv, ReencryptInv
  <1> QED BY <1>1, <1>2, <1>3, <1>4

\* The password is changed.
LEMMA WindowPromptChange ==
  ASSUME WindowInv, Window!PromptChange
  PROVE  WindowInv'
  <1> USE WindowAssumed DEF WindowInv, Window!PromptChange,
          Window!docVars, Window!guardVars, Window!accountVars
  <1>1. WindowTypes'
    BY DEF WindowTypes, ThreadInv, SecureInv
  <1>2. ThreadInv'
    BY DEF WindowTypes, ThreadInv, SecureInv, Window!NoCall
  <1>3. SecureInv'
    BY DEF WindowTypes, ThreadInv, SecureInv, Window!TooLarge, Window!NoCall
  <1>4. ReencryptInv'
    BY DEF WindowTypes, ThreadInv, ReencryptInv
  <1> QED BY <1>1, <1>2, <1>3, <1>4

\* The password is changed but the window does not know.
LEMMA WindowPromptReplyLost ==
  ASSUME WindowInv, Window!PromptReplyLost
  PROVE  WindowInv'
  <1> USE WindowAssumed DEF WindowInv, Window!PromptReplyLost,
          Window!docVars, Window!guardVars, Window!accountVars
  <1>1. WindowTypes'
    <2>1. 0 \in 0..skipped
      BY DEF WindowTypes
    <2> QED BY <2>1 DEF WindowTypes
  <1>2. ThreadInv'
    BY DEF WindowTypes, ThreadInv, SecureInv, Window!NoCall
  <1>3. SecureInv'
    BY DEF WindowTypes, ThreadInv, SecureInv, Window!TooLarge, Window!NoCall
  <1>4. ReencryptInv'
    BY DEF WindowTypes, ThreadInv, ReencryptInv
  <1> QED BY <1>1, <1>2, <1>3, <1>4

\* The process is killed.
LEMMA WindowKill ==
  ASSUME WindowInv, Window!Kill
  PROVE  WindowInv'
  <1> USE WindowAssumed DEF WindowInv, Window!Kill, Window!NoCall,
          Window!docVars, Window!guardVars, Window!accountVars
  <1>1. WindowTypes'
    <2>1. /\ <<>> \in Seq(Paths) /\ <<>> \in Seq(Window!Items)
          /\ Len(items') + Len(todo') <= MaxItems
      OBVIOUS
    <2>2. {} \subseteq 1..MaxTemps /\ 0 \in 0..MaxTemps
      OBVIOUS
    <2> QED BY <2>1, <2>2 DEF WindowTypes
  <1>2. ThreadInv'
    BY DEF WindowTypes, ThreadInv, SecureInv, Window!NoCall
  <1>3. SecureInv'
    BY DEF WindowTypes, ThreadInv, SecureInv, Window!TooLarge, Window!NoCall
  <1>4. ReencryptInv'
    BY DEF WindowTypes, ThreadInv, ReencryptInv
  <1> QED BY <1>1, <1>2, <1>3, <1>4

\* The program is started again.
LEMMA WindowRestart ==
  ASSUME WindowInv, Window!Restart
  PROVE  WindowInv'
  <1> USE WindowAssumed DEF WindowInv, Window!Restart,
          Window!docVars, Window!guardVars, Window!accountVars
  <1>1. WindowTypes'
    <2>1. skipped' \in 0..SkipLimit /\ unpaid' \in 0..skipped'
      BY DEF WindowTypes
    <2>2. temps' \subseteq 1..MaxTemps /\ lastTemp' \in 0..MaxTemps
      OBVIOUS
    <2>3. win' \in {"login", "open", "closed", "killed"} /\ signal' \in BOOLEAN
      OBVIOUS
    <2> QED BY <2>1, <2>2, <2>3 DEF WindowTypes
  <1>2. ThreadInv'
    BY DEF WindowTypes, ThreadInv, SecureInv, Window!NoCall
  <1>3. SecureInv'
    BY DEF WindowTypes, ThreadInv, SecureInv, Window!TooLarge, Window!NoCall
  <1>4. ReencryptInv'
    BY DEF WindowTypes, ThreadInv, ReencryptInv
  <1> QED BY <1>1, <1>2, <1>3, <1>4

\* Every step keeps the invariant of the window.
LEMMA WindowNext ==
  ASSUME WindowInv, Window!Next
  PROVE  WindowInv'
  BY WindowLogin, WindowRightsChange, WindowOnEncrypt, WindowOnDecrypt, WindowDecryptOne,
     WindowDecryptFails, WindowBoxClosed, WindowDecryptDone, WindowReencryptItem,
     WindowReencryptRefused, WindowReencryptTorn, WindowReencryptDone, WindowOnTerminate,
     WindowClipboardFilled, WindowOnCopyTempPath, WindowOnClipboardChanged, WindowCloseEvent,
     WindowPromptFails, WindowPromptSkip, WindowPromptChange, WindowPromptReplyLost,
     WindowKill, WindowRestart
  DEF Window!Next

\* Nothing is decrypted at first.
LEMMA WindowInit == Init => WindowInv
  <1> SUFFICES ASSUME Init PROVE WindowInv
    OBVIOUS
  <1> USE WindowAssumed
  <1>1. Window!Init
    BY DEF Init
  <1>2. WindowTypes
    <2>1. /\ todo \in Seq(Paths) /\ items \in Seq(Window!Items)
          /\ Len(items) + Len(todo) <= MaxItems
      BY <1>1 DEF Window!Init
    <2>2. temps \subseteq 1..MaxTemps /\ lastTemp \in 0..MaxTemps
      BY <1>1 DEF Window!Init
    <2>3. /\ rights \in {{"encrypt", "decrypt"}, {"decrypt"}}
          /\ shown \in {{"encrypt", "decrypt"}, {"decrypt"}}
      BY <1>1 DEF Window!Init
    <2>4. disk \in [Paths -> {"enc", "torn"}]
      BY <1>1 DEF Window!Init
    <2>5. /\ win \in {"login", "open", "closed", "killed"}
          /\ winPc \in {"idle", "decrypt", "box", "reencrypt", "prompt"}
      BY <1>1 DEF Window!Init
    <2>6. secure \in BOOLEAN /\ signal \in BOOLEAN /\ pwOk \in BOOLEAN
      BY <1>1 DEF Window!Init
    <2>7. clip \in 0..2 /\ skipped \in 0..SkipLimit /\ unpaid \in 0..skipped
      <3>1. clip = 0 /\ skipped = 0 /\ unpaid = 0
        BY <1>1 DEF Window!Init
      <3> QED BY <3>1
    <2> QED BY <2>1, <2>2, <2>3, <2>4, <2>5, <2>6, <2>7 DEF WindowTypes
  <1>3. ThreadInv /\ SecureInv /\ ReencryptInv
    BY <1>1 DEF Window!Init, ThreadInv, SecureInv, ReencryptInv
  <1> QED BY <1>2, <1>3 DEF WindowInv

\* The invariant is about the window's variables only.
LEMMA WindowQuiet ==
  ASSUME WindowInv, UNCHANGED window
  PROVE  WindowInv'
  BY DEF WindowInv, window, WindowTypes, ThreadInv, SecureInv, ReencryptInv, Window!TooLarge

\* What the properties of the window say follows from the invariant.
LEMMA WindowHolds == WindowInv => WindowSafe
  <1> SUFFICES ASSUME WindowInv PROVE WindowSafe
    OBVIOUS
  <1> USE WindowAssumed DEF WindowInv
  <1>1. Window!TypeOK
    <2>1. todo \in Window!SeqOf(Paths, MaxItems) /\ items \in Window!SeqOf(Window!Items, MaxItems)
      <3>1. /\ todo \in Seq(Paths) /\ Len(todo) <= MaxItems
            /\ items \in Seq(Window!Items) /\ Len(items) <= MaxItems
        BY DEF WindowTypes
      <3> QED BY <3>1, SeqOfFacts
    <2>2. re \in {Window!NoCall} \cup
                  [by : Window!Callers, ret : {"idle", "box"}, next : 1..(MaxItems + 1)]
      <3>1. CASE winPc = "reencrypt"
        <4>1. /\ re \in [by : Window!Callers, ret : {"idle", "box"}, next : 1..(Len(items) + 1)]
              /\ 1..(Len(items) + 1) \subseteq 1..(MaxItems + 1)
          BY <3>1 DEF WindowTypes, ThreadInv
        <4> QED BY <4>1
      <3>2. CASE winPc # "reencrypt"
        BY <3>2 DEF ThreadInv
      <3> QED BY <3>1, <3>2
    <2>3. unpaid \in 0..(SkipLimit + 1)
      BY DEF WindowTypes
    <2> QED BY <2>1, <2>2, <2>3 DEF WindowTypes, Window!TypeOK
  <1>2. Window!GuardedWhenIdle /\ Window!ClipboardWatched
    BY DEF SecureInv, Window!GuardedWhenIdle, Window!ClipboardWatched, Window!Idle
  <1>3. Window!TempTracked
    <2>1. DOMAIN items = 1..Len(items)
      BY DEF WindowTypes
    <2> QED BY <2>1 DEF ReencryptInv, Window!TempTracked
  <1>4. Window!SkipsBounded
    BY DEF WindowTypes, Window!SkipsBounded
  <1> QED BY <1>1, <1>2, <1>3, <1>4 DEF WindowSafe

\* A torn file's data leaves memory only when the file is whole.
LEMMA WindowStepHolds ==
  ASSUME WindowInv, Window!Next, NEW p \in Paths,
         disk[p] = "torn", Window!Holds(p), win' # "killed"
  PROVE  Window!Holds(p)' \/ disk'[p] = "enc"
  <1>1. PICK k \in 1..Len(items) : items[k].path = p
    BY DEF WindowInv, WindowTypes, Window!Holds
  <1>2. CASE items' = items
    BY <1>2 DEF Window!Holds
  <1>3. CASE Window!DecryptOne
    <2>1. PICK i \in Window!Items : items' = Append(items, i)
      <3>1. items' \in Seq(Window!Items) /\ \E i : items' = Append(items, i)
        BY <1>3, WindowDecryptOne DEF WindowInv, WindowTypes, Window!DecryptOne
      <3>2. PICK i : items' = Append(items, i)
        BY <3>1
      <3>3. i = items'[Len(items')]
        BY <3>2 DEF WindowInv, WindowTypes
      <3>4. Len(items') \in 1..Len(items')
        BY <3>1, <3>2 DEF WindowInv, WindowTypes
      <3> QED BY <3>1, <3>2, <3>3, <3>4
    <2>2. k \in DOMAIN items' /\ items'[k] = items[k]
      BY <1>1, <2>1 DEF WindowInv, WindowTypes
    <2> QED BY <1>1, <2>2 DEF Window!Holds
  <1>4. CASE Window!ReencryptDone
    <2>1. k \in 1..(re.next - 1)
      BY <1>1, <1>4 DEF WindowInv, WindowTypes, ThreadInv, Window!ReencryptDone
    <2>2. disk[p] = "enc"
      BY <1>1, <1>4, <2>1 DEF WindowInv, ReencryptInv, Window!ReencryptDone
    <2> QED BY <1>4, <2>2 DEF Window!ReencryptDone
  <1> QED BY <1>2, <1>3, <1>4
    DEF Window!Next, Window!Login, Window!RightsChange, Window!OnEncrypt, Window!OnDecrypt,
        Window!DecryptFails, Window!BoxClosed, Window!DecryptDone, Window!ReencryptItem,
        Window!ReencryptRefused, Window!ReencryptTorn, Window!OnTerminate,
        Window!ClipboardFilled, Window!OnCopyTempPath, Window!OnClipboardChanged,
        Window!CloseEvent, Window!PromptFails, Window!PromptSkip, Window!PromptChange,
        Window!PromptReplyLost, Window!Kill, Window!Restart, Window!docVars

-----------------------------------------------------------------------------
(* The proof for the search *)

\* What is assumed of its constants.
LEMMA ScanAssumed ==
  /\ Cooldown \in Nat /\ ScanTime \in Nat \ {0} /\ MaxScans \in Nat /\ MaxQueue \in Nat
  /\ Nobody \notin Panels /\ Nobody \notin Helpers
  BY SafeAssumption DEF SafeAssumption, Scan!ScanAssumption

\* An answer without a list.
LEMMA NoAnswerFacts ==
  Scan!NoAnswer \in [ok : BOOLEAN, table : 0..MaxScans] /\ Scan!NoAnswer.ok = FALSE
  BY ScanAssumed DEF Scan!NoAnswer

\* Nothing heard.
LEMMA UnseenFacts ==
  /\ Scan!Unseen \in [completed : BOOLEAN, failed : BOOLEAN]
  /\ Scan!Unseen.completed = FALSE /\ Scan!Unseen.failed = FALSE
  BY DEF Scan!Unseen

\* A message without a table.
LEMMA MsgFacts ==
  ASSUME NEW k \in {"ok", "fail", "results", "failed"}
  PROVE  Scan!Msg(k) \in Scan!Messages /\ Scan!Msg(k).kind = k
  BY ScanAssumed DEF Scan!Msg, Scan!Messages, Scan!Events

\* A helper ends its session and answers: what it hands over must be newer than
\* the question.
LEMMA ScanFinish ==
  ASSUME SearchInv, NEW h \in Helpers, NEW a \in [ok : BOOLEAN, table : 0..MaxScans],
         a.ok /\ client[h] # Nobody => a.table > asked[client[h]],
         Scan!Finish(h, a), UNCHANGED <<radio, scans, client, asked, panel>>
  PROVE  SearchInv'
  <1> USE ScanAssumed, UnseenFacts DEF SearchInv, Scan!Finish
  <1>1. ScanTypes'
    <2>1. queue' \in [Helpers -> Seq(Scan!Messages)]
      BY DEF ScanTypes
    <2> QED BY <2>1 DEF ScanTypes
  <1>2. Scan!AnswerIsNewer'
    BY DEF ScanTypes, Scan!AnswerIsNewer
  <1>3. WaitingInv'
    BY DEF WaitingInv
  <1>4. QuietInv'
    BY DEF ScanTypes, QuietInv, Session
  <1>5. HeardInv'
    BY DEF ScanTypes, HeardInv, Newer, Session
  <1> QED BY <1>1, <1>2, <1>3, <1>4, <1>5

\* The button is pressed.
LEMMA ScanStartScan ==
  ASSUME ScanInv, NEW p \in Panels, NEW h \in Helpers, Scan!StartScan(p, h)
  PROVE  ScanInv'
  <1> USE ScanAssumed DEF ScanInv, SearchInv, Scan!StartScan, Scan!slotVars, Scan!supplicantVars
  <1>1. ScanTypes'
    <2>1. panel' \in [Panels -> [helper : Helpers \cup {Nobody}, list : 0..MaxScans]]
      <3>1. panel \in [Panels -> [helper : Helpers \cup {Nobody}, list : 0..MaxScans]]
        BY DEF ScanTypes
      <3>2. panel' = [panel EXCEPT ![p].helper = h]
        OBVIOUS
      <3> QED BY ONLY <3>1, <3>2
    <2>2. asked' \in [Panels -> 0..MaxScans] /\ client' \in [Helpers -> Panels \cup {Nobody}]
      BY DEF ScanTypes
    <2>3. scanPc' \in [Helpers -> {"off", "reserve", "locked", "reply"} \cup Session]
      BY DEF ScanTypes
    <2> QED BY <2>1, <2>2, <2>3 DEF ScanTypes
  <1>2. Scan!AnswerIsNewer'
    BY DEF ScanTypes, Scan!AnswerIsNewer, QuietInv, WaitingInv
  <1>3. WaitingInv'
    BY DEF ScanTypes, WaitingInv, QuietInv
  <1>4. QuietInv'
    BY DEF ScanTypes, QuietInv, Session
  <1>5. HeardInv'
    <2>1. queue[h] = <<>> /\ ~seen[h].completed
      BY DEF QuietInv, Session
    <2>2. ASSUME NEW g \in Helpers, g # h
          PROVE  client'[g] = client[g] /\ scanPc'[g] = scanPc[g]
                 /\ (client[g] # Nobody => asked'[client[g]] = asked[client[g]])
      BY <2>2 DEF ScanTypes, WaitingInv
    <2> SUFFICES ASSUME NEW g \in Helpers
                 PROVE  /\ seen[g].completed \/ scanPc'[g] = "table" => Newer(g)'
                        /\ \A k \in 1..Len(queue[g]) :
                             /\ queue[g][k].kind = "results" => Newer(g)'
                             /\ queue[g][k].kind = "table" /\ client'[g] # Nobody =>
                                  queue[g][k].table > asked'[client'[g]]
      BY DEF HeardInv
    <2>3. CASE g = h
      BY <2>1, <2>3 DEF ScanTypes
    <2>4. CASE g # h
      BY <2>2, <2>4 DEF HeardInv, Newer
    <2> QED BY <2>3, <2>4
  <1>6. SlotInv'
    BY DEF SlotInv, ScanTypes, Session
  <1> QED BY <1>1, <1>2, <1>3, <1>4, <1>5, <1>6

\* The answer arrives.
LEMMA ScanAnswered ==
  ASSUME ScanInv, NEW p \in Panels, Scan!Answered(p)
  PROVE  ScanInv'
  <1> USE ScanAssumed, NoAnswerFacts DEF ScanInv, SearchInv, Scan!Answered, Scan!slotVars, Scan!supplicantVars
  <1>1. ScanTypes'
    BY DEF ScanTypes, Session
  <1>2. Scan!AnswerIsNewer'
    BY DEF ScanTypes, Scan!AnswerIsNewer, QuietInv, WaitingInv
  <1>3. WaitingInv'
    BY DEF ScanTypes, WaitingInv, QuietInv
  <1>4. QuietInv'
    BY DEF ScanTypes, QuietInv, Session
  <1>5. HeardInv'
    BY DEF ScanTypes, HeardInv, QuietInv, WaitingInv, Newer, Session
  <1>6. SlotInv'
    BY DEF SlotInv, ScanTypes, Session
  <1> QED BY <1>1, <1>2, <1>3, <1>4, <1>5, <1>6

\* The wait ends without an answer.
LEMMA ScanGiveUp ==
  ASSUME ScanInv, NEW p \in Panels, Scan!GiveUp(p)
  PROVE  ScanInv'
  <1> USE ScanAssumed DEF ScanInv, SearchInv, Scan!GiveUp, Scan!slotVars, Scan!supplicantVars
  <1>1. ScanTypes'
    BY DEF ScanTypes, Session
  <1>2. Scan!AnswerIsNewer'
    BY DEF ScanTypes, Scan!AnswerIsNewer, QuietInv, WaitingInv
  <1>3. WaitingInv'
    BY DEF ScanTypes, WaitingInv, QuietInv
  <1>4. QuietInv'
    BY DEF ScanTypes, QuietInv, Session
  <1>5. HeardInv'
    BY DEF ScanTypes, HeardInv, QuietInv, WaitingInv, Newer, Session
  <1>6. SlotInv'
    BY DEF SlotInv, ScanTypes, Session
  <1> QED BY <1>1, <1>2, <1>3, <1>4, <1>5, <1>6

\* The dialog is closed.
LEMMA ScanCloseDialog ==
  ASSUME ScanInv, NEW p \in Panels, Scan!CloseDialog(p)
  PROVE  ScanInv'
  <1> USE ScanAssumed DEF ScanInv, SearchInv, Scan!CloseDialog, Scan!slotVars, Scan!supplicantVars
  <1>1. ScanTypes'
    BY DEF ScanTypes, Session
  <1>2. Scan!AnswerIsNewer'
    BY DEF ScanTypes, Scan!AnswerIsNewer, QuietInv, WaitingInv
  <1>3. WaitingInv'
    BY DEF ScanTypes, WaitingInv, QuietInv
  <1>4. QuietInv'
    BY DEF ScanTypes, QuietInv, Session
  <1>5. HeardInv'
    BY DEF ScanTypes, HeardInv, QuietInv, WaitingInv, Newer, Session
  <1>6. SlotInv'
    BY DEF SlotInv, ScanTypes, Session
  <1> QED BY <1>1, <1>2, <1>3, <1>4, <1>5, <1>6

\* Nobody reads the answer.
LEMMA ScanUnread ==
  ASSUME ScanInv, NEW h \in Helpers, Scan!Unread(h)
  PROVE  ScanInv'
  <1> USE ScanAssumed, NoAnswerFacts DEF ScanInv, SearchInv, Scan!Unread, Scan!panelVars, Scan!slotVars, Scan!supplicantVars
  <1>1. ScanTypes'
    BY DEF ScanTypes, Session
  <1>2. Scan!AnswerIsNewer'
    BY DEF ScanTypes, Scan!AnswerIsNewer, QuietInv, WaitingInv
  <1>3. WaitingInv'
    BY DEF ScanTypes, WaitingInv, QuietInv
  <1>4. QuietInv'
    BY DEF ScanTypes, QuietInv, Session
  <1>5. HeardInv'
    BY DEF ScanTypes, HeardInv, QuietInv, WaitingInv, Newer, Session
  <1>6. SlotInv'
    BY DEF SlotInv, ScanTypes, Session
  <1> QED BY <1>1, <1>2, <1>3, <1>4, <1>5, <1>6

\* A slot is granted.
LEMMA ScanSlotGranted ==
  ASSUME ScanInv, NEW h \in Helpers, Scan!SlotGranted(h)
  PROVE  ScanInv'
  <1> USE ScanAssumed DEF ScanInv, SearchInv, Scan!SlotGranted, Scan!CoolingDown, Scan!panelVars
  <1>1. ScanTypes'
    BY DEF ScanTypes, Session
  <1>2. Scan!AnswerIsNewer'
    BY DEF ScanTypes, Scan!AnswerIsNewer, QuietInv, WaitingInv
  <1>3. WaitingInv'
    BY DEF ScanTypes, WaitingInv, QuietInv
  <1>4. QuietInv'
    BY DEF ScanTypes, QuietInv, Session
  <1>5. HeardInv'
    BY DEF ScanTypes, HeardInv, QuietInv, WaitingInv, Newer, Session
  <1>6. SlotInv'
    BY DEF SlotInv, ScanTypes, Session
  <1> QED BY <1>1, <1>2, <1>3, <1>4, <1>5, <1>6

\* wpa_supplicant scans by itself.
LEMMA ScanOtherScan ==
  ASSUME ScanInv, Scan!OtherScan
  PROVE  ScanInv'
  <1> USE ScanAssumed DEF ScanInv, SearchInv, Scan!OtherScan, Scan!slotVars, Scan!helperVars, Scan!panelVars
  <1>1. ScanTypes'
    BY DEF ScanTypes, Session
  <1>2. Scan!AnswerIsNewer'
    BY DEF ScanTypes, Scan!AnswerIsNewer, QuietInv, WaitingInv
  <1>3. WaitingInv'
    BY DEF ScanTypes, WaitingInv, QuietInv
  <1>4. QuietInv'
    BY DEF ScanTypes, QuietInv, Session
  <1>5. HeardInv'
    BY DEF ScanTypes, HeardInv, QuietInv, WaitingInv, Newer, Session
  <1>6. SlotInv'
    BY DEF SlotInv, ScanTypes, Session
  <1> QED BY <1>1, <1>2, <1>3, <1>4, <1>5, <1>6

\* The wall clock moves.
LEMMA ScanClockStep ==
  ASSUME ScanInv, Scan!ClockStep
  PROVE  ScanInv'
  <1> USE ScanAssumed DEF ScanInv, SearchInv, Scan!ClockStep, Scan!supplicantVars, Scan!helperVars, Scan!panelVars
  <1>1. ScanTypes'
    BY DEF ScanTypes, Session
  <1>2. Scan!AnswerIsNewer'
    BY DEF ScanTypes, Scan!AnswerIsNewer, QuietInv, WaitingInv
  <1>3. WaitingInv'
    BY DEF ScanTypes, WaitingInv, QuietInv
  <1>4. QuietInv'
    BY DEF ScanTypes, QuietInv, Session
  <1>5. HeardInv'
    BY DEF ScanTypes, HeardInv, QuietInv, WaitingInv, Newer, Session
  <1>6. SlotInv'
    BY DEF SlotInv, ScanTypes, Session
  <1> QED BY <1>1, <1>2, <1>3, <1>4, <1>5, <1>6

\* What may wait in a helper's queue.
Told(h, r) ==
  /\ r \in Seq(Scan!Messages)
  /\ \A k \in 1..Len(r) :
       /\ r[k].kind = "results" => Newer(h)
       /\ r[k].kind = "table" /\ client[h] # Nobody => r[k].table > asked[client[h]]

\* A message is taken out ...
LEMMA TailTold ==
  ASSUME SearchInv, NEW h \in Helpers, queue[h] # <<>>
  PROVE  Told(h, Tail(queue[h]))
  <1>1. queue[h] \in Seq(Scan!Messages)
    BY DEF SearchInv, ScanTypes
  <1>2. /\ Tail(queue[h]) \in Seq(Scan!Messages)
        /\ \A k \in 1..Len(Tail(queue[h])) :
             k + 1 \in 1..Len(queue[h]) /\ Tail(queue[h])[k] = queue[h][k + 1]
    BY <1>1
  <1> QED BY <1>2 DEF SearchInv, HeardInv, Told

\* ... or put in.
LEMMA AppendTold ==
  ASSUME SearchInv, NEW h \in Helpers, NEW m \in Scan!Messages,
         m.kind = "results" => Newer(h),
         m.kind = "table" /\ client[h] # Nobody => m.table > asked[client[h]]
  PROVE  Told(h, Append(queue[h], m))
  <1>1. queue[h] \in Seq(Scan!Messages)
    BY DEF SearchInv, ScanTypes
  <1>2. /\ Append(queue[h], m) \in Seq(Scan!Messages)
        /\ \A k \in 1..Len(Append(queue[h], m)) :
             \/ k \in 1..Len(queue[h]) /\ Append(queue[h], m)[k] = queue[h][k]
             \/ Append(queue[h], m)[k] = m
    BY <1>1
  <1> QED BY <1>2 DEF SearchInv, HeardInv, Told

\* A step inside a session: what the helper holds must be newer than the
\* question.
LEMMA ScanGoesOn ==
  ASSUME SearchInv, NEW h \in Helpers, scanPc[h] \in Session \cup {"locked"},
         NEW n \in Session, scanPc' = [scanPc EXCEPT ![h] = n],
         NEW x \in {"none", "ATTACH", "SCAN", "SCAN_RESULTS"}, cmd' = [cmd EXCEPT ![h] = x],
         x = "SCAN_RESULTS" => n = "table",
         NEW e \in [completed : BOOLEAN, failed : BOOLEAN], seen' = [seen EXCEPT ![h] = e],
         e.completed \/ n = "table" => Newer(h),
         NEW r, Told(h, r), queue' = [queue EXCEPT ![h] = r],
         attached' \in {attached, attached \cup {h}}, radio' \in BOOLEAN,
         UNCHANGED <<scans, client, scanAnswer, asked, panel>>
  PROVE  SearchInv'
  <1> USE DEF SearchInv
  <1>1. ScanTypes'
    <2>1. queue' \in [Helpers -> Seq(Scan!Messages)]
      BY DEF ScanTypes, Told
    <2>2. attached' \subseteq Helpers
      BY DEF ScanTypes
    <2> QED BY <2>1, <2>2 DEF ScanTypes
  <1>2. Scan!AnswerIsNewer'
    BY DEF ScanTypes, Scan!AnswerIsNewer, Session
  <1>3. WaitingInv'
    BY DEF WaitingInv
  <1>4. QuietInv'
    BY DEF ScanTypes, QuietInv, Session
  <1>5. HeardInv'
    <2> SUFFICES ASSUME NEW g \in Helpers
                 PROVE  /\ seen'[g].completed \/ scanPc'[g] = "table" => Newer(g)
                        /\ \A k \in 1..Len(queue'[g]) :
                             /\ queue'[g][k].kind = "results" => Newer(g)
                             /\ queue'[g][k].kind = "table" /\ client[g] # Nobody =>
                                  queue'[g][k].table > asked[client[g]]
      BY DEF HeardInv, Newer
    <2>1. CASE g = h
      BY <2>1 DEF ScanTypes, Told
    <2>2. CASE g # h
      BY <2>2 DEF ScanTypes, HeardInv
    <2> QED BY <2>1, <2>2
  <1> QED BY <1>1, <1>2, <1>3, <1>4, <1>5

\* What a helper keeps.
LEMMA Kept ==
  ASSUME SearchInv, NEW h \in Helpers
  PROVE  /\ cmd = [cmd EXCEPT ![h] = cmd[h]] /\ seen = [seen EXCEPT ![h] = seen[h]]
         /\ scanPc = [scanPc EXCEPT ![h] = scanPc[h]] /\ queue = [queue EXCEPT ![h] = queue[h]]
         /\ cmd[h] \in {"none", "ATTACH", "SCAN", "SCAN_RESULTS"}
         /\ seen[h] \in [completed : BOOLEAN, failed : BOOLEAN]
         /\ radio \in BOOLEAN /\ Told(h, queue[h])
  BY DEF SearchInv, ScanTypes, HeardInv, Told

\* What an event does to what a helper has heard.
LEMMA EventFacts ==
  ASSUME SearchInv, NEW h \in Helpers, NEW m
  PROVE  /\ Scan!Event(h, m) \in [completed : BOOLEAN, failed : BOOLEAN]
         /\ Scan!Event(h, m).completed => seen[h].completed \/ m = "results"
  BY DEF SearchInv, ScanTypes, Scan!Event

\* The first message of a queue.
LEMMA HeadFacts ==
  ASSUME SearchInv, NEW h \in Helpers, queue[h] # <<>>
  PROVE  /\ Head(queue[h]).kind = "results" => Newer(h)
         /\ Head(queue[h]).kind = "table" /\ client[h] # Nobody =>
              Head(queue[h]).table > asked[client[h]]
         /\ Head(queue[h]).table \in 0..MaxScans
  <1>1. queue[h] \in Seq(Scan!Messages)
    BY DEF SearchInv, ScanTypes
  <1>2. 1 \in 1..Len(queue[h]) /\ Head(queue[h]) = queue[h][1] /\ Head(queue[h]) \in Scan!Messages
    BY <1>1
  <1> QED BY <1>2 DEF SearchInv, HeardInv, Scan!Messages

\* In a session a helper does not hold the lock, and does not take it.
LEMMA SlotKept ==
  ASSUME ScanInv, NEW h \in Helpers, scanPc[h] # "locked", UNCHANGED <<wall, stamp, slot, flock>>,
         NEW n, n # "locked", scanPc' = [scanPc EXCEPT ![h] = n]
  PROVE  SlotInv'
  BY DEF ScanInv, SearchInv, ScanTypes, SlotInv

\* The slot's lock is taken, or is busy.
LEMMA ScanReserve ==
  ASSUME ScanInv, NEW h \in Helpers, Scan!Reserve(h)
  PROVE  ScanInv'
  <1> USE ScanAssumed DEF ScanInv
  <1>1. CASE /\ flock = Nobody /\ flock' = h /\ scanPc' = [scanPc EXCEPT ![h] = "locked"]
             /\ UNCHANGED <<radio, scans, attached, cmd, queue, seen, scanAnswer>>
    <2> USE <1>1 DEF SearchInv, Scan!Reserve, Scan!panelVars
    <2>1. ScanTypes'
      BY DEF ScanTypes
    <2>2. Scan!AnswerIsNewer' /\ WaitingInv'
      BY DEF ScanTypes, Scan!AnswerIsNewer, WaitingInv
    <2>3. QuietInv'
      BY DEF ScanTypes, QuietInv, Session
    <2>4. HeardInv'
      BY DEF ScanTypes, HeardInv, Newer
    <2>5. SlotInv'
      BY DEF ScanTypes, SlotInv
    <2> QED BY <2>1, <2>2, <2>3, <2>4, <2>5
  <1>2. CASE Scan!Finish(h, Scan!NoAnswer) /\ UNCHANGED <<flock, radio, scans>>
    <2>1. SearchInv'
      BY <1>2, ScanFinish, NoAnswerFacts DEF Scan!Reserve, Scan!panelVars
    <2>2. SlotInv'
      BY <1>2, SlotKept DEF Scan!Reserve, Scan!Finish
    <2> QED BY <2>1, <2>2
  <1> QED BY <1>1, <1>2 DEF Scan!Reserve, Scan!supplicantVars

\* A slot is refused, or its stamp is not written whole.
LEMMA ScanSlotRefused ==
  ASSUME ScanInv, NEW h \in Helpers, Scan!SlotRefused(h)
  PROVE  ScanInv'
  <1> USE ScanAssumed DEF ScanInv
  <1>1. SearchInv'
    BY ScanFinish, NoAnswerFacts DEF Scan!SlotRefused, Scan!panelVars
  <1>2. SlotInv'
    BY DEF SearchInv, ScanTypes, SlotInv, Scan!SlotRefused, Scan!Finish
  <1> QED BY <1>1, <1>2

\* The answer to ATTACH.
LEMMA ScanReceiveAttach ==
  ASSUME ScanInv, NEW h \in Helpers, Scan!ReceiveAttach(h)
  PROVE  ScanInv'
  <1> USE DEF ScanInv
  <1> DEFINE kept == UNCHANGED <<wall, stamp, slot, flock, radio, scans, client, asked, panel>>
  <1>0. kept /\ scanPc[h] = "attach" /\ queue[h] # <<>>
    BY DEF Scan!ReceiveAttach, Scan!slotVars, Scan!panelVars
  <1>1. CASE /\ queue' = [queue EXCEPT ![h] = Tail(@)]
             /\ UNCHANGED <<cmd, scanPc, seen, attached, scanAnswer>>
    <2>1. SearchInv'
      <3>1. scanPc' = [scanPc EXCEPT ![h] = "attach"]
        BY <1>0, <1>1, Kept
      <3>2. seen[h].completed \/ "attach" = "table" => Newer(h)
        BY DEF SearchInv, HeardInv
      <3>3. cmd[h] = "SCAN_RESULTS" => "attach" = "table"
        BY <1>0 DEF SearchInv, QuietInv
      <3> QED BY <1>0, <1>1, <3>1, <3>2, <3>3, ScanGoesOn, Kept, TailTold DEF Session
    <2> QED BY <1>0, <1>1, <2>1 DEF SlotInv
  <1>2. CASE /\ queue' = [queue EXCEPT ![h] = Tail(@)] /\ Scan!Send(h, "SCAN", "scan")
             /\ UNCHANGED <<seen, attached, scanAnswer>>
    <2>1. SearchInv'
      <3>1. seen[h].completed \/ "scan" = "table" => Newer(h)
        BY DEF SearchInv, HeardInv
      <3> QED BY <1>0, <1>2, <3>1, ScanGoesOn, Kept, TailTold DEF Session, Scan!Send
    <2>2. SlotInv'
      BY <1>0, <1>2, SlotKept DEF Scan!Send
    <2> QED BY <2>1, <2>2
  <1>3. CASE Scan!Finish(h, Scan!NoAnswer)
    <2>1. SearchInv'
      BY <1>0, <1>3, ScanFinish, NoAnswerFacts
    <2>2. SlotInv'
      BY <1>0, <1>3, SlotKept DEF Scan!Finish
    <2> QED BY <2>1, <2>2
  <1> QED BY <1>1, <1>2, <1>3 DEF Scan!ReceiveAttach

\* The answer to SCAN, and the events before it.
LEMMA ScanReceiveScan ==
  ASSUME ScanInv, NEW h \in Helpers, Scan!ReceiveScan(h)
  PROVE  ScanInv'
  <1> USE DEF ScanInv
  <1> DEFINE kept == UNCHANGED <<wall, stamp, slot, flock, radio, scans, client, asked, panel>>
  <1>0. kept /\ scanPc[h] = "scan" /\ queue[h] # <<>>
    BY DEF Scan!ReceiveScan, Scan!slotVars, Scan!panelVars
  <1>1. CASE /\ queue' = [queue EXCEPT ![h] = Tail(@)]
             /\ seen' = [seen EXCEPT ![h] = Scan!Event(h, Head(queue[h]).kind)]
             /\ UNCHANGED <<cmd, scanPc, attached, scanAnswer>>
    <2>1. SearchInv'
      <3>1. scanPc' = [scanPc EXCEPT ![h] = "scan"]
        BY <1>0, <1>1, Kept
      <3>2. PICK e \in [completed : BOOLEAN, failed : BOOLEAN] :
              e = Scan!Event(h, Head(queue[h]).kind) /\ (e.completed => Newer(h))
        BY <1>0, EventFacts, HeadFacts DEF SearchInv, HeardInv
      <3>3. cmd[h] = "SCAN_RESULTS" => "scan" = "table"
        BY <1>0 DEF SearchInv, QuietInv
      <3> QED BY <1>0, <1>1, <3>1, <3>2, <3>3, ScanGoesOn, Kept, TailTold DEF Session
    <2> QED BY <1>0, <1>1, <2>1 DEF SlotInv
  <1>2. CASE /\ queue' = [queue EXCEPT ![h] = Tail(@)] /\ scanPc' = [scanPc EXCEPT ![h] = "event"]
             /\ UNCHANGED <<cmd, seen, attached, scanAnswer>>
    <2>1. SearchInv'
      <3>1. seen[h].completed \/ "event" = "table" => Newer(h)
        BY DEF SearchInv, HeardInv
      <3>2. cmd[h] = "SCAN_RESULTS" => "event" = "table"
        BY <1>0 DEF SearchInv, QuietInv
      <3> QED BY <1>0, <1>2, <3>1, <3>2, ScanGoesOn, Kept, TailTold DEF Session
    <2>2. SlotInv'
      BY <1>0, <1>2, SlotKept
    <2> QED BY <2>1, <2>2
  <1>3. CASE Scan!Finish(h, Scan!NoAnswer)
    <2>1. SearchInv'
      BY <1>0, <1>3, ScanFinish, NoAnswerFacts
    <2>2. SlotInv'
      BY <1>0, <1>3, SlotKept DEF Scan!Finish
    <2> QED BY <2>1, <2>2
  <1> QED BY <1>1, <1>2, <1>3 DEF Scan!ReceiveScan

\* The wait for the completion: only a completion leads to the table.
LEMMA ScanAwaitEvent ==
  ASSUME ScanInv, NEW h \in Helpers, Scan!AwaitEvent(h)
  PROVE  ScanInv'
  <1> USE DEF ScanInv
  <1> DEFINE kept == UNCHANGED <<wall, stamp, slot, flock, radio, scans, client, asked, panel>>
  <1>0. kept /\ scanPc[h] = "event"
    BY DEF Scan!AwaitEvent, Scan!slotVars, Scan!panelVars
  <1>1. CASE /\ queue[h] # <<>> /\ queue' = [queue EXCEPT ![h] = Tail(@)]
             /\ seen' = [seen EXCEPT ![h] = Scan!Event(h, Head(queue[h]).kind)]
             /\ UNCHANGED <<cmd, scanPc, attached, scanAnswer>>
    <2>1. SearchInv'
      <3>1. scanPc' = [scanPc EXCEPT ![h] = "event"]
        BY <1>0, <1>1, Kept
      <3>2. PICK e \in [completed : BOOLEAN, failed : BOOLEAN] :
              e = Scan!Event(h, Head(queue[h]).kind) /\ (e.completed => Newer(h))
        BY <1>1, EventFacts, HeadFacts DEF SearchInv, HeardInv
      <3>3. cmd[h] = "SCAN_RESULTS" => "event" = "table"
        BY <1>0 DEF SearchInv, QuietInv
      <3> QED BY <1>0, <1>1, <3>1, <3>2, <3>3, ScanGoesOn, Kept, TailTold DEF Session
    <2> QED BY <1>0, <1>1, <2>1 DEF SlotInv
  <1>2. CASE /\ seen[h].completed /\ Scan!Send(h, "SCAN_RESULTS", "table")
             /\ UNCHANGED <<queue, seen, attached, scanAnswer>>
    <2>1. SearchInv'
      <3>1. Newer(h)
        BY <1>2 DEF SearchInv, HeardInv
      <3> QED BY <1>0, <1>2, <3>1, ScanGoesOn, Kept DEF Session, Scan!Send
    <2>2. SlotInv'
      BY <1>0, <1>2, SlotKept DEF Scan!Send
    <2> QED BY <2>1, <2>2
  <1>3. CASE Scan!Finish(h, Scan!NoAnswer)
    <2>1. SearchInv'
      BY <1>0, <1>3, ScanFinish, NoAnswerFacts
    <2>2. SlotInv'
      BY <1>0, <1>3, SlotKept DEF Scan!Finish
    <2> QED BY <2>1, <2>2
  <1> QED BY <1>1, <1>2, <1>3 DEF Scan!AwaitEvent

\* The answer to SCAN_RESULTS.
LEMMA ScanReceiveTable ==
  ASSUME ScanInv, NEW h \in Helpers, Scan!ReceiveTable(h)
  PROVE  ScanInv'
  <1> USE DEF ScanInv
  <1> DEFINE kept == UNCHANGED <<wall, stamp, slot, flock, radio, scans, client, asked, panel>>
  <1>0. kept /\ scanPc[h] = "table" /\ queue[h] # <<>>
    BY DEF Scan!ReceiveTable, Scan!slotVars, Scan!panelVars
  <1>1. CASE /\ queue' = [queue EXCEPT ![h] = Tail(@)]
             /\ UNCHANGED <<cmd, scanPc, seen, attached, scanAnswer>>
    <2>1. SearchInv'
      <3>1. scanPc' = [scanPc EXCEPT ![h] = "table"]
        BY <1>0, <1>1, Kept
      <3>2. Newer(h)
        BY <1>0 DEF SearchInv, HeardInv
      <3> QED BY <1>0, <1>1, <3>1, <3>2, ScanGoesOn, Kept, TailTold DEF Session
    <2> QED BY <1>0, <1>1, <2>1 DEF SlotInv
  <1>2. CASE /\ Head(queue[h]).kind = "table"
             /\ Scan!Finish(h, [ok |-> TRUE, table |-> Head(queue[h]).table])
    <2>1. SearchInv'
      <3>1. PICK a \in [ok : BOOLEAN, table : 0..MaxScans] :
              a = [ok |-> TRUE, table |-> Head(queue[h]).table]
        BY <1>0, HeadFacts
      <3>2. a.ok /\ client[h] # Nobody => a.table > asked[client[h]]
        BY <1>0, <1>2, <3>1, HeadFacts
      <3> QED BY <1>0, <1>2, <3>1, <3>2, ScanFinish
    <2>2. SlotInv'
      BY <1>0, <1>2, SlotKept DEF Scan!Finish
    <2> QED BY <2>1, <2>2
  <1> QED BY <1>1, <1>2 DEF Scan!ReceiveTable

\* A session fails.
LEMMA ScanSessionFails ==
  ASSUME ScanInv, NEW h \in Helpers, Scan!SessionFails(h)
  PROVE  ScanInv'
  <1> USE DEF ScanInv, Scan!SessionFails, Scan!slotVars, Scan!panelVars
  <1>1. SearchInv'
    BY ScanFinish, NoAnswerFacts
  <1>2. SlotInv'
    BY SlotKept DEF Scan!Finish
  <1> QED BY <1>1, <1>2

\* A helper is ended, wherever it is, and its lock with it.
LEMMA ScanKilled ==
  ASSUME ScanInv, NEW h \in Helpers, Scan!Killed(h)
  PROVE  ScanInv'
  <1> USE ScanAssumed DEF ScanInv, Scan!Killed, Scan!panelVars
  <1>1. SearchInv'
    BY ScanFinish, NoAnswerFacts
  <1>2. SlotInv'
    BY DEF SearchInv, ScanTypes, SlotInv, Scan!Finish
  <1> QED BY <1>1, <1>2

\* wpa_supplicant carries out a command; the table it sends is of now.
LEMMA ScanSupplicantAnswers ==
  ASSUME ScanInv, NEW h \in Helpers, Scan!SupplicantAnswers(h)
  PROVE  ScanInv'
  <1> USE DEF ScanInv, Scan!SupplicantAnswers, Scan!slotVars, Scan!helperVars, Scan!panelVars
  <1>1. scanPc[h] \in Session
    BY DEF SearchInv, QuietInv
  <1>2. PICK r : Told(h, r) /\ queue' = [queue EXCEPT ![h] = r]
    <2>1. CASE cmd[h] = "SCAN_RESULTS"
      <3>1. Newer(h)
        BY <2>1 DEF SearchInv, QuietInv, HeardInv
      <3>2. PICK m \in Scan!Messages : m = [kind |-> "table", table |-> scans]
        BY DEF SearchInv, ScanTypes, Scan!Messages
      <3>3. Told(h, Append(queue[h], m))
        BY <3>1, <3>2, AppendTold DEF Newer
      <3> QED BY <2>1, <3>2, <3>3
    <2>2. CASE cmd[h] \in {"ATTACH", "SCAN"}
      <3>1. PICK k \in {"ok", "fail"} : queue' = [queue EXCEPT ![h] = Append(@, Scan!Msg(k))]
        BY <2>2
      <3>2. Told(h, Append(queue[h], Scan!Msg(k)))
        BY AppendTold, MsgFacts
      <3> QED BY <3>1, <3>2
    <2> QED BY <2>1, <2>2
  <1>3. attached' \in {attached, attached \cup {h}} /\ radio' \in BOOLEAN
    BY DEF SearchInv, ScanTypes
  <1>4. seen[h].completed \/ scanPc[h] = "table" => Newer(h)
    BY DEF SearchInv, HeardInv
  <1>5. SearchInv'
    BY <1>1, <1>2, <1>3, <1>4, ScanGoesOn, Kept
  <1>6. SlotInv'
    BY DEF SlotInv
  <1> QED BY <1>5, <1>6

\* A radio scan ends: what the attached helpers hear is newer than every
\* question.
LEMMA ScanScanEnds ==
  ASSUME ScanInv, Scan!ScanEnds
  PROVE  ScanInv'
  <1> USE ScanAssumed DEF ScanInv, SearchInv, Scan!ScanEnds, Scan!slotVars, Scan!helperVars, Scan!panelVars
  <1>1. PICK m \in Scan!Events :
          /\ m = "results" => scans < MaxScans
          /\ scans' = IF m = "results" THEN scans + 1 ELSE scans
          /\ queue' = [h \in Helpers |-> IF h \in attached THEN Append(queue[h], Scan!Msg(m))
                                                           ELSE queue[h]]
    OBVIOUS
  <1>2. Scan!Msg(m) \in Scan!Messages /\ Scan!Msg(m).kind = m
    BY MsgFacts DEF Scan!Events
  <1>3. scans' \in 0..MaxScans /\ scans' >= scans
    BY <1>1 DEF ScanTypes
  <1>4. ScanTypes'
    <2>1. queue' \in [Helpers -> Seq(Scan!Messages)]
      BY <1>1, <1>2 DEF ScanTypes
    <2> QED BY <1>3, <2>1 DEF ScanTypes
  <1>5. Scan!AnswerIsNewer'
    BY DEF Scan!AnswerIsNewer
  <1>6. WaitingInv'
    BY <1>3 DEF ScanTypes, WaitingInv
  <1>7. QuietInv'
    BY <1>1 DEF ScanTypes, QuietInv
  <1>8. HeardInv'
    <2> SUFFICES ASSUME NEW g \in Helpers
                 PROVE  /\ seen[g].completed \/ scanPc[g] = "table" => Newer(g)'
                        /\ \A k \in 1..Len(queue'[g]) :
                             /\ queue'[g][k].kind = "results" => Newer(g)'
                             /\ queue'[g][k].kind = "table" /\ client[g] # Nobody =>
                                  queue'[g][k].table > asked[client[g]]
      BY DEF HeardInv
    <2>1. Newer(g) => Newer(g)'
      BY <1>3 DEF ScanTypes, Newer
    <2>2. m = "results" => Newer(g)'
      BY <1>1 DEF ScanTypes, WaitingInv, Newer
    <2>3. \A k \in 1..Len(queue'[g]) :
            \/ k \in 1..Len(queue[g]) /\ queue'[g][k] = queue[g][k]
            \/ queue'[g][k] = Scan!Msg(m)
      BY <1>1, <1>2 DEF ScanTypes
    <2>4. m # "table"
      BY DEF Scan!Events
    <2> QED BY <1>2, <2>1, <2>2, <2>3, <2>4 DEF HeardInv
  <1>9. SlotInv'
    BY DEF SlotInv
  <1> QED BY <1>4, <1>5, <1>6, <1>7, <1>8, <1>9

\* Every step keeps the invariant of the search.
LEMMA ScanNext ==
  ASSUME ScanInv, Scan!Next
  PROVE  ScanInv'
  BY ScanStartScan, ScanAnswered, ScanGiveUp, ScanCloseDialog, ScanUnread, ScanReserve,
     ScanSlotGranted, ScanSlotRefused, ScanReceiveAttach, ScanReceiveScan, ScanAwaitEvent,
     ScanReceiveTable, ScanSessionFails, ScanKilled, ScanSupplicantAnswers, ScanOtherScan,
     ScanScanEnds, ScanClockStep
  DEF Scan!Next, Scan!HelperStep, Scan!PanelStep

\* Nobody searches at first.
LEMMA ScanInit == Init => ScanInv
  <1> SUFFICES ASSUME Init PROVE ScanInv
    OBVIOUS
  <1> USE ScanAssumed, NoAnswerFacts, UnseenFacts
  <1>1. Scan!Init
    BY DEF Init
  <1>2. ScanTypes
    <2>1. <<>> \in Seq(Scan!Messages)
      OBVIOUS
    <2>2. panel \in [Panels -> [helper : Helpers \cup {Nobody}, list : 0..MaxScans]]
      BY <1>1 DEF Scan!Init
    <2>3. queue \in [Helpers -> Seq(Scan!Messages)]
      BY <1>1, <2>1 DEF Scan!Init
    <2>4. /\ seen \in [Helpers -> [completed : BOOLEAN, failed : BOOLEAN]]
          /\ scanAnswer \in [Helpers -> [ok : BOOLEAN, table : 0..MaxScans]]
      BY <1>1 DEF Scan!Init
    <2>5. asked \in [Panels -> 0..MaxScans] /\ scans \in 0..MaxScans
      BY <1>1 DEF Scan!Init
    <2> QED BY <1>1, <2>2, <2>3, <2>4, <2>5 DEF Scan!Init, ScanTypes
  <1>3. Scan!AnswerIsNewer /\ WaitingInv
    BY <1>1 DEF Scan!Init, Scan!AnswerIsNewer, WaitingInv
  <1>4. QuietInv /\ HeardInv
    BY <1>1 DEF Scan!Init, QuietInv, HeardInv
  <1>5. SlotInv
    BY <1>1 DEF Scan!Init, SlotInv
  <1> QED BY <1>2, <1>3, <1>4, <1>5 DEF ScanInv, SearchInv

\* The invariant is about the variables of the search only.
LEMMA ScanQuiet ==
  ASSUME ScanInv, UNCHANGED search
  PROVE  ScanInv'
  <1>1. ScanTypes'
    BY DEF ScanInv, SearchInv, search, ScanTypes
  <1>2. SlotInv' /\ Scan!AnswerIsNewer' /\ WaitingInv'
    BY DEF ScanInv, SearchInv, search, SlotInv, Scan!AnswerIsNewer, WaitingInv
  <1>3. QuietInv' /\ HeardInv'
    BY DEF ScanInv, SearchInv, search, QuietInv, HeardInv, Newer
  <1> QED BY <1>1, <1>2, <1>3 DEF ScanInv, SearchInv

\* Two slots are a cool-down apart.
LEMMA ScanStep ==
  ASSUME ScanInv, Scan!Next, slot' # slot
  PROVE  slot = 0 \/ slot' >= slot + Cooldown
  <1>1. PICK h \in Helpers : Scan!SlotGranted(h)
    BY DEF Scan!Next, Scan!HelperStep, Scan!PanelStep, Scan!StartScan, Scan!Answered,
       Scan!GiveUp, Scan!CloseDialog, Scan!Unread, Scan!Reserve, Scan!SlotRefused,
       Scan!ReceiveAttach, Scan!ReceiveScan, Scan!AwaitEvent, Scan!ReceiveTable,
       Scan!SessionFails, Scan!Killed, Scan!SupplicantAnswers, Scan!OtherScan, Scan!ScanEnds,
       Scan!ClockStep, Scan!slotVars
  <1> QED BY <1>1, ScanAssumed DEF ScanInv, SlotInv, Scan!SlotGranted, Scan!CoolingDown

-----------------------------------------------------------------------------
(* The proof for the saved list of networks *)

\* What is assumed of its constants.
LEMMA SnapshotAssumed == Fresh \in Nat /\ CollectMax \in Nat /\ SnapshotTime \in Nat
  BY SafeAssumption DEF SafeAssumption, Snapshot!SnapshotAssumption

\* A collector asks for the networks.
LEMMA SnapshotReadResults ==
  ASSUME SnapshotInv, NEW c \in Collectors, Snapshot!ReadResults(c)
  PROVE  SnapshotInv'
  <1> USE SnapshotAssumed DEF SnapshotInv, Snapshot!ReadResults, Snapshot!Goto
  <1>1. Snapshot!TypeOK'
    <2>1. Snapshot!Empty \in Snapshot!Snapshots /\ Snapshot!Empty.whole = FALSE
      BY DEF Snapshot!Snapshots, Snapshot!Empty
    <2>2. PICK new : new = [Snapshot!Empty EXCEPT !.at = time]
      OBVIOUS
    <2>3. new \in Snapshot!Snapshots /\ new.whole = FALSE
      BY <2>1, <2>2 DEF Snapshot!TypeOK, Snapshot!Snapshots
    <2>4. col' = [col EXCEPT ![c] = [pc |-> "status", snap |-> new]]
      BY <2>2
    <2>5. col' \in [Collectors -> [pc : {"idle", "status", "stamp", "write", "rename"},
                                   snap : Snapshot!Snapshots]]
      BY <2>3, <2>4 DEF Snapshot!TypeOK
    <2>6. \A d \in Collectors : col'[d].snap.whole <=> col'[d].pc = "rename"
      <3> TAKE d \in Collectors
      <3>1. CASE d = c
        <4>1. col'[d] = [pc |-> "status", snap |-> new]
          BY <2>4, <3>1 DEF Snapshot!TypeOK
        <4>2. col'[d].snap = new /\ col'[d].pc = "status"
          BY <4>1
        <4> QED BY <2>3, <4>2
      <3>2. CASE d # c
        BY <2>4, <3>2 DEF Snapshot!TypeOK
      <3> QED BY <3>1, <3>2
    <2> QED BY <2>5, <2>6 DEF Snapshot!TypeOK, Snapshot!Snapshots
  <1>2. Snapshot!ServedWhole' /\ Snapshot!ServedRecent'
    BY DEF Snapshot!TypeOK, Snapshot!Snapshots, Snapshot!ServedWhole, Snapshot!ServedRecent,
           Snapshot!Age, FileInv
  <1>3. CollectorInv'
    BY DEF Snapshot!TypeOK, Snapshot!Snapshots, CollectorInv, Snapshot!Empty
  <1>4. FileInv'
    BY DEF Snapshot!TypeOK, Snapshot!Snapshots, CollectorInv, FileInv, Snapshot!Empty
  <1> QED BY <1>1, <1>2, <1>3, <1>4 DEF SnapshotInv

\* ... and for the state of the connection.
LEMMA SnapshotReadStatus ==
  ASSUME SnapshotInv, NEW c \in Collectors, Snapshot!ReadStatus(c)
  PROVE  SnapshotInv'
  <1> USE SnapshotAssumed DEF SnapshotInv, Snapshot!ReadStatus, Snapshot!Goto
  <1>1. Snapshot!TypeOK'
    BY DEF Snapshot!TypeOK, Snapshot!Snapshots, Snapshot!Empty
  <1>2. Snapshot!ServedWhole' /\ Snapshot!ServedRecent'
    BY DEF Snapshot!TypeOK, Snapshot!Snapshots, Snapshot!ServedWhole, Snapshot!ServedRecent,
           Snapshot!Age, FileInv
  <1>3. CollectorInv'
    BY DEF Snapshot!TypeOK, Snapshot!Snapshots, CollectorInv, Snapshot!Empty
  <1>4. FileInv'
    BY DEF Snapshot!TypeOK, Snapshot!Snapshots, CollectorInv, FileInv, Snapshot!Empty
  <1> QED BY <1>1, <1>2, <1>3, <1>4 DEF SnapshotInv

\* The stamp is taken.
LEMMA SnapshotTakeStamp ==
  ASSUME SnapshotInv, NEW c \in Collectors, Snapshot!TakeStamp(c)
  PROVE  SnapshotInv'
  <1> USE SnapshotAssumed DEF SnapshotInv, Snapshot!TakeStamp, Snapshot!Goto, Snapshot!Wall
  <1>1. Snapshot!TypeOK'
    BY DEF Snapshot!TypeOK, Snapshot!Snapshots, Snapshot!Empty
  <1>2. Snapshot!ServedWhole' /\ Snapshot!ServedRecent'
    BY DEF Snapshot!TypeOK, Snapshot!Snapshots, Snapshot!ServedWhole, Snapshot!ServedRecent,
           Snapshot!Age, FileInv
  <1>3. CollectorInv'
    BY DEF Snapshot!TypeOK, Snapshot!Snapshots, CollectorInv, Snapshot!Empty
  <1>4. FileInv'
    BY DEF Snapshot!TypeOK, Snapshot!Snapshots, CollectorInv, FileInv, Snapshot!Empty
  <1> QED BY <1>1, <1>2, <1>3, <1>4 DEF SnapshotInv

\* The file is written under a name of its own,
LEMMA SnapshotWriteTemporary ==
  ASSUME SnapshotInv, NEW c \in Collectors, Snapshot!WriteTemporary(c)
  PROVE  SnapshotInv'
  <1> USE SnapshotAssumed DEF SnapshotInv, Snapshot!WriteTemporary, Snapshot!Goto
  <1>1. Snapshot!TypeOK'
    BY DEF Snapshot!TypeOK, Snapshot!Snapshots, Snapshot!Empty
  <1>2. Snapshot!ServedWhole' /\ Snapshot!ServedRecent'
    BY DEF Snapshot!TypeOK, Snapshot!Snapshots, Snapshot!ServedWhole, Snapshot!ServedRecent,
           Snapshot!Age, FileInv
  <1>3. CollectorInv'
    BY DEF Snapshot!TypeOK, Snapshot!Snapshots, CollectorInv, Snapshot!Empty
  <1>4. FileInv'
    BY DEF Snapshot!TypeOK, Snapshot!Snapshots, CollectorInv, FileInv, Snapshot!Empty
  <1> QED BY <1>1, <1>2, <1>3, <1>4 DEF SnapshotInv

\* and renamed into place.
LEMMA SnapshotRename ==
  ASSUME SnapshotInv, NEW c \in Collectors, Snapshot!Rename(c)
  PROVE  SnapshotInv'
  <1> USE SnapshotAssumed DEF SnapshotInv, Snapshot!Rename, Snapshot!Goto
  <1>1. Snapshot!TypeOK'
    BY DEF Snapshot!TypeOK, Snapshot!Snapshots, Snapshot!Empty
  <1>2. Snapshot!ServedWhole' /\ Snapshot!ServedRecent'
    BY DEF Snapshot!TypeOK, Snapshot!Snapshots, Snapshot!ServedWhole, Snapshot!ServedRecent,
           Snapshot!Age, FileInv
  <1>3. CollectorInv'
    BY DEF Snapshot!TypeOK, Snapshot!Snapshots, CollectorInv, Snapshot!Empty
  <1>4. FileInv'
    BY DEF Snapshot!TypeOK, Snapshot!Snapshots, CollectorInv, FileInv, Snapshot!Empty
  <1> QED BY <1>1, <1>2, <1>3, <1>4 DEF SnapshotInv

\* A collector fails or is ended.
LEMMA SnapshotCollectFails ==
  ASSUME SnapshotInv, NEW c \in Collectors, Snapshot!CollectFails(c)
  PROVE  SnapshotInv'
  <1> USE SnapshotAssumed DEF SnapshotInv, Snapshot!CollectFails, Snapshot!Idle
  <1>1. Snapshot!TypeOK'
    BY DEF Snapshot!TypeOK, Snapshot!Snapshots, Snapshot!Empty
  <1>2. Snapshot!ServedWhole' /\ Snapshot!ServedRecent'
    BY DEF Snapshot!TypeOK, Snapshot!Snapshots, Snapshot!ServedWhole, Snapshot!ServedRecent,
           Snapshot!Age, FileInv
  <1>3. CollectorInv'
    BY DEF Snapshot!TypeOK, Snapshot!Snapshots, CollectorInv, Snapshot!Empty
  <1>4. FileInv'
    BY DEF Snapshot!TypeOK, Snapshot!Snapshots, CollectorInv, FileInv, Snapshot!Empty
  <1> QED BY <1>1, <1>2, <1>3, <1>4 DEF SnapshotInv

\* The server accepts the file.
LEMMA SnapshotServe ==
  ASSUME SnapshotInv, Snapshot!Serve
  PROVE  SnapshotInv'
  <1> USE SnapshotAssumed DEF SnapshotInv, Snapshot!Serve, Snapshot!Acceptable, Snapshot!Wall
  <1>1. Snapshot!TypeOK'
    BY DEF Snapshot!TypeOK, Snapshot!Snapshots, Snapshot!Empty
  <1>2. Snapshot!ServedWhole' /\ Snapshot!ServedRecent'
    BY DEF Snapshot!TypeOK, Snapshot!Snapshots, Snapshot!ServedWhole, Snapshot!ServedRecent,
           Snapshot!Age, FileInv
  <1>3. CollectorInv'
    BY DEF Snapshot!TypeOK, Snapshot!Snapshots, CollectorInv, Snapshot!Empty
  <1>4. FileInv'
    BY DEF Snapshot!TypeOK, Snapshot!Snapshots, CollectorInv, FileInv, Snapshot!Empty
  <1> QED BY <1>1, <1>2, <1>3, <1>4 DEF SnapshotInv

\* Time passes.
LEMMA SnapshotTick ==
  ASSUME SnapshotInv, Snapshot!Tick
  PROVE  SnapshotInv'
  <1> USE SnapshotAssumed DEF SnapshotInv, Snapshot!Tick
  <1>1. Snapshot!TypeOK'
    BY DEF Snapshot!TypeOK, Snapshot!Snapshots, Snapshot!Empty
  <1>2. Snapshot!ServedWhole' /\ Snapshot!ServedRecent'
    BY DEF Snapshot!TypeOK, Snapshot!Snapshots, Snapshot!ServedWhole, Snapshot!ServedRecent,
           Snapshot!Age, FileInv
  <1>3. CollectorInv'
    BY DEF Snapshot!TypeOK, Snapshot!Snapshots, CollectorInv, Snapshot!Empty
  <1>4. FileInv'
    BY DEF Snapshot!TypeOK, Snapshot!Snapshots, CollectorInv, FileInv, Snapshot!Empty
  <1> QED BY <1>1, <1>2, <1>3, <1>4 DEF SnapshotInv

\* The wall clock is set back.
LEMMA SnapshotSetBack ==
  ASSUME SnapshotInv, Snapshot!SetBack
  PROVE  SnapshotInv'
  <1> USE SnapshotAssumed DEF SnapshotInv, Snapshot!SetBack
  <1>1. Snapshot!TypeOK'
    BY DEF Snapshot!TypeOK, Snapshot!Snapshots, Snapshot!Empty
  <1>2. Snapshot!ServedWhole' /\ Snapshot!ServedRecent'
    BY DEF Snapshot!TypeOK, Snapshot!Snapshots, Snapshot!ServedWhole, Snapshot!ServedRecent,
           Snapshot!Age, FileInv
  <1>3. CollectorInv'
    BY DEF Snapshot!TypeOK, Snapshot!Snapshots, CollectorInv, Snapshot!Empty
  <1>4. FileInv'
    BY DEF Snapshot!TypeOK, Snapshot!Snapshots, CollectorInv, FileInv, Snapshot!Empty
  <1> QED BY <1>1, <1>2, <1>3, <1>4 DEF SnapshotInv

\* Every step keeps the invariant of the saved list.
LEMMA SnapshotNext ==
  ASSUME SnapshotInv, Snapshot!Next
  PROVE  SnapshotInv'
  BY SnapshotReadResults, SnapshotReadStatus, SnapshotTakeStamp, SnapshotWriteTemporary,
     SnapshotRename, SnapshotCollectFails, SnapshotServe, SnapshotTick, SnapshotSetBack
  DEF Snapshot!Next

\* There is no file at first.
LEMMA SnapshotInit == Init => SnapshotInv
  <1> SUFFICES ASSUME Init PROVE SnapshotInv
    OBVIOUS
  <1> USE SnapshotAssumed
  <1>1. Snapshot!Init
    BY DEF Init
  <1>2. Snapshot!Empty \in Snapshot!Snapshots /\ ~Snapshot!Empty.whole
    BY DEF Snapshot!Snapshots, Snapshot!Empty
  <1>3. Snapshot!TypeOK
    BY <1>1, <1>2 DEF Snapshot!Init, Snapshot!TypeOK, Snapshot!Idle
  <1>4. Snapshot!ServedWhole /\ Snapshot!ServedRecent
    BY <1>1 DEF Snapshot!Init, Snapshot!ServedWhole, Snapshot!ServedRecent, Snapshot!Age,
                Snapshot!Empty
  <1>5. CollectorInv /\ FileInv
    BY <1>1 DEF Snapshot!Init, CollectorInv, FileInv, Snapshot!Empty, Snapshot!Idle
  <1> QED BY <1>3, <1>4, <1>5 DEF SnapshotInv

\* The invariant is about the variables of the saved list only.
LEMMA SnapshotQuiet ==
  ASSUME SnapshotInv, UNCHANGED snapshot
  PROVE  SnapshotInv'
  BY DEF SnapshotInv, snapshot, CollectorInv, FileInv, Snapshot!TypeOK, Snapshot!ServedWhole,
         Snapshot!ServedRecent, Snapshot!Age

-----------------------------------------------------------------------------
(* The proof for the panels *)

\* A step of a console, a client or the server keeps the invariant.
LEMMA PanelNext ==
  ASSUME PanelInv, Binding!Next
  PROVE  PanelInv'
  <1> USE DEF PanelInv, Binding!Policies, Binding!NoClients, Binding!NoView, Binding!At,
              Binding!policyVars, Binding!panelVars
  <1>1. ASSUME NEW k \in Clients, Binding!RegisterClient(k)
        PROVE  PanelInv'
    BY <1>1 DEF Binding!RegisterClient, Binding!TypeOK
  <1>2. ASSUME NEW c \in Consoles, Binding!ConsoleRestart(c)
        PROVE  PanelInv'
    BY <1>2 DEF Binding!ConsoleRestart, Binding!TypeOK
  <1>3. ASSUME NEW c \in Consoles, Binding!OnRefreshBinding(c)
        PROVE  PanelInv'
    BY <1>3 DEF Binding!OnRefreshBinding, Binding!TypeOK
  <1>4. ASSUME NEW c \in Consoles, Binding!GetBindingList(c)
        PROVE  PanelInv'
    BY <1>4 DEF Binding!GetBindingList, Binding!TypeOK
  <1>5. ASSUME NEW c \in Consoles, Binding!GetBindingFlag(c)
        PROVE  PanelInv'
    BY <1>5 DEF Binding!GetBindingFlag, Binding!TypeOK
  <1>6. ASSUME NEW c \in Consoles, Binding!RequestFails(c)
        PROVE  PanelInv'
    BY <1>6 DEF Binding!RequestFails, Binding!TypeOK
  <1>7. ASSUME NEW c \in Consoles, Binding!OnToggleBinding(c)
        PROVE  PanelInv'
    BY <1>7 DEF Binding!OnToggleBinding, Binding!TypeOK
  <1>8. ASSUME NEW c \in Consoles, Binding!ToggleFetched(c)
        PROVE  PanelInv'
    BY <1>8 DEF Binding!ToggleFetched, Binding!TypeOK
  <1>9. ASSUME NEW c \in Consoles, Binding!SetBinding(c)
        PROVE  PanelInv'
    BY <1>9 DEF Binding!SetBinding, Binding!TypeOK
  <1>10. ASSUME NEW c \in Consoles, Binding!OnRefreshStats(c)
        PROVE  PanelInv'
    BY <1>10 DEF Binding!OnRefreshStats, Binding!TypeOK
  <1>11. ASSUME NEW c \in Consoles, NEW k \in Clients, NEW v \in {"allowed", "blocked"},
               Binding!SetClientAllowed(c, k, v)
         PROVE  PanelInv'
    BY <1>11 DEF Binding!SetClientAllowed, Binding!TypeOK
  <1> QED BY <1>1, <1>2, <1>3, <1>4, <1>5, <1>6, <1>7, <1>8, <1>9, <1>10, <1>11 DEF Binding!Next

\* Nothing is cached at first.
LEMMA PanelInit == Init => PanelInv
  <1> SUFFICES ASSUME Init PROVE PanelInv
    OBVIOUS
  <1>1. Binding!Init
    BY DEF Init
  <1>2. Binding!NoClients \in Binding!Policies
    BY DEF Binding!Policies, Binding!NoClients
  <1>3. Binding!NoView \in [known : BOOLEAN, on : BOOLEAN, clients : Binding!Policies]
    BY <1>2 DEF Binding!NoView
  <1>4. Binding!TypeOK
    BY <1>1, <1>2, <1>3 DEF Binding!Init, Binding!TypeOK
  <1> QED BY <1>1, <1>4 DEF Binding!Init, PanelInv

\* The invariant is about the panels' variables only.
LEMMA PanelQuiet ==
  ASSUME PanelInv, UNCHANGED panels
  PROVE  PanelInv'
  BY DEF PanelInv, panels, Binding!TypeOK

\* A console that sets the policy does not set what it shows.
LEMMA PanelStep ==
  ASSUME PanelInv, Binding!Next, NEW c \in Consoles,
         panelPc[c] = "set", panelPc'[c] # "set", enabled' # enabled, view[c].known
  PROVE  enabled' # view[c].on
  BY DEF PanelInv, Binding!TypeOK, Binding!Next, Binding!RegisterClient, Binding!ConsoleRestart, Binding!OnRefreshBinding,
     Binding!GetBindingList, Binding!GetBindingFlag, Binding!RequestFails,
     Binding!OnToggleBinding, Binding!ToggleFetched, Binding!SetBinding,
     Binding!SetClientAllowed, Binding!OnRefreshStats, Binding!At, Binding!policyVars,
     Binding!panelVars

-----------------------------------------------------------------------------
(* The proof for the files of the old utility *)

\* What is assumed of the constants.
LEMMA GostAssumed ==
  Block \in Nat /\ Block > 0 /\ MaxByte \in Nat /\ MaxSize \in Nat /\ MaxByte >= Block
  BY SafeAssumption DEF SafeAssumption, Gost!GostAssumption

\* Whole blocks add up.
LEMMA BlocksGrow ==
  ASSUME NEW a \in Int, NEW b \in Int, a < b
  PROVE  a * Block + Block <= b * Block
  <1> USE GostAssumed
  <1> DEFINE d == b - a - 1
  <1>1. d \in Nat /\ b = a + 1 + d
    OBVIOUS
  <1> HIDE DEF d
  <1>2. b * Block = a * Block + Block + d * Block
    BY <1>1
  <1>3. d * Block \in Nat
    BY <1>1
  <1>4. a * Block \in Int /\ b * Block \in Int
    OBVIOUS
  <1> QED BY <1>2, <1>3, <1>4

\* A position lies in one block, at one place.
LEMMA PositionSplit ==
  ASSUME NEW i \in Nat, i > 0
  PROVE  \E k \in Nat, r \in 1..Block : k > 0 /\ i = (k - 1) * Block + r
  <1> USE GostAssumed
  <1> DEFINE q == (i - 1) \div Block
             t == (i - 1) % Block
  <1>0. i - 1 \in Nat
    OBVIOUS
  <1>1. q \in Nat /\ t \in 0..(Block - 1)
    BY <1>0
  <1>2. t = (i - 1) - Block * q
    BY <1>0
  <1> HIDE DEF q, t
  <1>3. q + 1 \in Nat /\ q + 1 > 0 /\ t + 1 \in 1..Block /\ (q + 1) - 1 = q
    BY <1>1
  <1>4. i = q * Block + (t + 1)
    BY <1>1, <1>2
  <1> QED BY <1>3, <1>4

\* The byte at place r of block k.
LEMMA ByteOfBlock ==
  ASSUME NEW k \in Nat, k > 0, NEW r \in 1..Block
  PROVE  ByteAt((k - 1) * Block + r) = Gost!Plain(k)[r]
  <1> USE GostAssumed
  <1> DEFINE i == (k - 1) * Block + r - 1
             q == i \div Block
             t == i % Block
  <1>1. k - 1 \in Nat /\ (k - 1) * Block \in Nat /\ i \in Nat
    OBVIOUS
  <1> HIDE DEF i
  <1>2. q \in Nat /\ t \in 0..(Block - 1) /\ t = i - Block * q
    BY <1>1
  <1> HIDE DEF q, t
  <1>3. i = q * Block + t /\ q * Block \in Nat
    BY <1>1, <1>2
  <1>4. i = (k - 1) * Block + (r - 1)
    BY DEF i
  <1>5. ~(q < k - 1)
    <2> SUFFICES ASSUME q < k - 1 PROVE FALSE
      OBVIOUS
    <2>1. q * Block + Block <= (k - 1) * Block
      BY <1>1, <1>2, BlocksGrow
    <2> QED BY <1>1, <1>2, <1>3, <1>4, <2>1
  <1>6. ~(k - 1 < q)
    <2> SUFFICES ASSUME k - 1 < q PROVE FALSE
      OBVIOUS
    <2>1. (k - 1) * Block + Block <= q * Block
      BY <1>1, <1>2, BlocksGrow
    <2> QED BY <1>1, <1>2, <1>3, <1>4, <2>1
  <1>7. q = k - 1
    BY <1>1, <1>2, <1>5, <1>6
  <1>8. t = r - 1
    BY <1>1, <1>2, <1>3, <1>4, <1>7
  <1>9. ((k - 1) * Block + r) - 1 = i
    BY DEF i
  <1>10. ByteAt((k - 1) * Block + r) = Gost!Plain(q + 1)[t + 1]
    BY <1>9 DEF ByteAt, q, t
  <1>11. q + 1 = k /\ t + 1 = r
    BY <1>7, <1>8
  <1> QED BY <1>10, <1>11

\* The block of a position in the first n blocks.
LEMMA PositionBlock ==
  ASSUME NEW n \in Nat, NEW i \in 1..(n * Block)
  PROVE  \E k \in 1..n, r \in 1..Block : i = (k - 1) * Block + r
  <1> USE GostAssumed
  <1>1. n * Block \in Nat
    OBVIOUS
  <1>2. i \in Nat /\ i > 0 /\ i <= n * Block
    BY <1>1
  <1>3. PICK k \in Nat, r \in 1..Block : k > 0 /\ i = (k - 1) * Block + r
    BY <1>2, PositionSplit
  <1>4. ~(n < k)
    <2> SUFFICES ASSUME n < k PROVE FALSE
      OBVIOUS
    <2>1. n * Block <= (k - 1) * Block
      <3>1. CASE n = k - 1
        BY <3>1
      <3>2. CASE n < k - 1
        <4>1. n * Block + Block <= (k - 1) * Block
          BY <3>2, BlocksGrow
        <4> QED BY <1>1, <4>1
      <3> QED BY <3>1, <3>2
    <2>2. (k - 1) * Block \in Int
      OBVIOUS
    <2> QED BY <1>1, <1>2, <1>3, <2>1, <2>2
  <1> QED BY <1>3, <1>4

\* A whole number of blocks leaves nothing over.
LEMMA WholeBlocks ==
  ASSUME NEW n \in Nat
  PROVE  (n * Block) % Block = 0
  <1> USE GostAssumed
  <1> DEFINE i == n * Block
             q == i \div Block
             t == i % Block
  <1>1. i \in Nat
    OBVIOUS
  <1>2. i = n * Block
    OBVIOUS
  <1> HIDE DEF i
  <1>3. q \in Nat /\ t \in 0..(Block - 1) /\ t = i - Block * q
    BY <1>1
  <1> HIDE DEF q, t
  <1>4. i = q * Block + t /\ q * Block \in Nat
    BY <1>1, <1>3
  <1>5. ~(q < n)
    <2> SUFFICES ASSUME q < n PROVE FALSE
      OBVIOUS
    <2>1. q * Block + Block <= n * Block
      BY <1>3, BlocksGrow
    <2> QED BY <1>1, <1>2, <1>3, <1>4, <2>1
  <1>6. ~(n < q)
    <2> SUFFICES ASSUME n < q PROVE FALSE
      OBVIOUS
    <2>1. n * Block + Block <= q * Block
      BY <1>3, BlocksGrow
    <2> QED BY <1>1, <1>2, <1>3, <1>4, <2>1
  <1>7. t = 0
    BY <1>2, <1>3, <1>4, <1>5, <1>6
  <1> QED BY <1>7 DEF t, i

\* The types the lemmas below use.
GostTypes ==
  /\ text \in Seq(Gost!Bytes) /\ digest \in Seq(Gost!Bytes) /\ out \in Seq(Gost!Bytes)
  /\ cipher \in Seq([prev : {Gost!IV} \cup Gost!Blocks, plain : Gost!Blocks])
  /\ noise \in Gost!Blocks

\* A block is a sequence of Block bytes.
LEMMA BlockIsSeq ==
  ASSUME NEW b \in Gost!Blocks
  PROVE  b \in Seq(Gost!Bytes) /\ Len(b) = Block /\ \A i \in 1..Block : b[i] \in Gost!Bytes
  <1>1. Block \in Nat /\ b \in [1..Block -> Gost!Bytes]
    BY GostAssumed DEF Gost!Blocks
  <1>2. b \in Seq(Gost!Bytes)
    BY <1>1, SeqDef
  <1>3. Len(b) = Block
    BY <1>1, <1>2
  <1> QED BY <1>1, <1>2, <1>3

\* What a stored block gives.
LEMMA PlainIsBlock ==
  ASSUME GostTypes, NEW k \in 1..Len(cipher)
  PROVE  Gost!Plain(k) \in Gost!Blocks /\ cipher[k].plain \in Gost!Blocks
  <1> DEFINE Cells == [prev : {Gost!IV} \cup Gost!Blocks, plain : Gost!Blocks]
  <1>1. cipher \in Seq(Cells) /\ noise \in Gost!Blocks
    BY DEF GostTypes
  <1>2. cipher[k] \in Cells
    <2> HIDE DEF Cells
    <2> QED BY <1>1, ElementOfSeq
  <1>3. cipher[k].plain \in Gost!Blocks
    BY <1>2
  <1> QED BY <1>1, <1>3 DEF Gost!Plain

\* The plaintext of all blocks.
LEMMA WholeBytes ==
  ASSUME GostTypes
  PROVE  /\ Gost!Whole \in Seq(Gost!Bytes) /\ Len(Gost!Whole) = Len(cipher) * Block
         /\ \A i \in 1..(Len(cipher) * Block) : Gost!Whole[i] = ByteAt(i)
  <1> USE GostAssumed
  <1>1. Len(cipher) \in Nat
    BY DEF GostTypes
  <1>2. ASSUME NEW i \in 1..(Len(cipher) * Block)
        PROVE  ByteAt(i) \in Gost!Bytes
    <2>1. PICK k \in 1..Len(cipher), r \in 1..Block : i = (k - 1) * Block + r
      BY <1>1, PositionBlock
    <2>2. ByteAt(i) = Gost!Plain(k)[r]
      <3>1. k \in Nat /\ k > 0
        BY <1>1
      <3> QED BY <2>1, <3>1, ByteOfBlock
    <2> QED BY <2>2, PlainIsBlock, BlockIsSeq
  <1> DEFINE n == Len(cipher) * Block
  <1>3. n \in Nat
    BY <1>1
  <1>4. Gost!Whole = [i \in 1..n |-> ByteAt(i)]
    BY DEF Gost!Whole, ByteAt
  <1> HIDE DEF n
  <1>5. Gost!Whole \in [1..n -> Gost!Bytes] /\ \A i \in 1..n : Gost!Whole[i] = ByteAt(i)
    BY <1>2, <1>4 DEF n
  <1>6. Gost!Whole \in Seq(Gost!Bytes)
    BY <1>3, <1>5, SeqDef
  <1>7. Len(Gost!Whole) = n
    BY <1>3, <1>5, <1>6
  <1> QED BY <1>5, <1>6, <1>7 DEF n

\* What was written gives the text and then the padding.
LEMMA EncryptedBytes ==
  ASSUME GostTypes, Encrypted, Len(cipher) * Block < Len(text) + Block,
         NEW i \in 1..(Len(cipher) * Block)
  PROVE  ByteAt(i) = IF i <= Len(text) THEN text[i] ELSE Len(cipher) * Block - Len(text)
  <1> USE GostAssumed
  <1> DEFINE n == Len(cipher)
  <1>1. n \in Nat /\ Len(text) \in Nat /\ n * Block \in Nat
    BY DEF GostTypes
  <1>2. PICK k \in 1..n, r \in 1..Block : i = (k - 1) * Block + r
    BY <1>1, PositionBlock
  <1>3. k \in Nat /\ k > 0
    BY <1>1
  <1>4. ByteAt(i) = Gost!Plain(k)[r]
    BY <1>2, <1>3, ByteOfBlock
  <1>5. Gost!Plain(k) = cipher[k].plain
    BY DEF Encrypted, Gost!Plain
  <1>6. cipher[k].plain[r] = IF i <= Len(text) THEN text[i] ELSE k * Block - Len(text)
    BY <1>2 DEF Encrypted
  <1>7. ASSUME ~(i <= Len(text)) PROVE k = n
    <2> SUFFICES ASSUME k < n PROVE FALSE
      BY <1>1, <1>3
    <2>1. k * Block + Block <= n * Block
      BY <1>1, <1>3, BlocksGrow
    <2>2. k * Block = (k - 1) * Block + Block /\ (k - 1) * Block \in Int
      BY <1>3
    <2> QED BY <1>1, <1>2, <1>7, <2>1, <2>2
  <1> QED BY <1>4, <1>5, <1>6, <1>7

\* What TypeOK says of the text, the blocks and the digest.
LEMMA GostTyped ==
  ASSUME GostInv
  PROVE  /\ GostTypes /\ odd \in BOOLEAN /\ raw \in BOOLEAN
         /\ Len(text) \in Nat /\ Len(cipher) \in Nat /\ Len(cipher) * Block \in Nat
         /\ done \in Nat /\ Len(out) \in Nat /\ done <= Len(text) + Block /\ Len(text) <= MaxSize
  <1>1. GostTypes /\ odd \in BOOLEAN /\ raw \in BOOLEAN /\ done \in Nat /\ done <= Len(text) + Block
    BY DEF GostInv, Gost!TypeOK, GostTypes
  <1>2. Len(text) \in Nat /\ Len(cipher) \in Nat /\ Len(out) \in Nat
    BY <1>1 DEF GostTypes
  <1>3. Len(cipher) * Block \in Nat
    BY <1>2, GostAssumed
  <1> QED BY <1>1, <1>2, <1>3 DEF GostInv

\* The next block of the text.
LEMMA GostEncryptBlock ==
  ASSUME GostInv, Gost!EncryptBlock
  PROVE  GostInv'
  <1> USE GostAssumed
  <1> DEFINE L == Len(text)
             n == IF L - done < Block THEN L - done ELSE Block
             b == SubSeq(text, done + 1, done + n)
             x == Len(cipher)
             cell == [prev |-> Gost!Previous, plain |-> Gost!Padded(b)]
  <1>1. /\ gostPc = "write" /\ done < L /\ cipher' = Append(cipher, cell) /\ done' = done + n
        /\ UNCHANGED <<gostPc, text, odd, digest, noise, raw, out, gostAnswer>>
    BY DEF Gost!EncryptBlock
  <1>2. /\ GostTypes /\ L \in Nat /\ x \in Nat /\ x * Block \in Nat /\ done \in Nat
    BY GostTyped
  <1>3. Encrypted /\ digest = text /\ odd = FALSE /\ done = x * Block
    BY <1>1, <1>2 DEF GostInv, WriterInv
  <1>4. n \in 1..Block /\ done + n <= L /\ (n < Block => done + n = L)
    BY <1>1, <1>2
  <1> HIDE DEF n, L, x
  <1>5. b \in Seq(Gost!Bytes) /\ Len(b) = n /\ \A i \in 1..n : b[i] = text[done + i]
    BY <1>1, <1>2, <1>4, SubSeqProperties DEF L, GostTypes
  <1> HIDE DEF b
  <1>6. Gost!Padded(b) = [i \in 1..Block |-> IF i <= n THEN b[i] ELSE Block - n]
    BY <1>5 DEF Gost!Padded
  <1>7. Gost!Padded(b) \in Gost!Blocks
    <2>1. \A i \in 1..Block : (IF i <= n THEN b[i] ELSE Block - n) \in 0..MaxByte
      <3> SUFFICES ASSUME NEW i \in 1..Block
                   PROVE  (IF i <= n THEN b[i] ELSE Block - n) \in 0..MaxByte
        OBVIOUS
      <3>1. CASE i <= n
        <4>1. i \in 1..Len(b)
          BY <1>4, <1>5, <3>1
        <4>2. b[i] \in Gost!Bytes
          BY <1>5, <4>1, ElementOfSeq
        <4> QED BY <3>1, <4>2 DEF Gost!Bytes
      <3>2. CASE ~(i <= n)
        BY <1>4, <3>2
      <3> QED BY <3>1, <3>2
    <2> QED BY <1>6, <2>1 DEF Gost!Blocks, Gost!Bytes
  <1>8. Gost!Previous \in {Gost!IV} \cup Gost!Blocks
    <2>1. CASE cipher = <<>>
      BY <2>1 DEF Gost!Previous
    <2>2. CASE cipher # <<>>
      <3>1. x \in 1..x
        BY <1>2, <2>2, EmptySeq DEF GostTypes, x
      <3>2. cipher[x].plain \in Gost!Blocks
        BY <1>2, <3>1, PlainIsBlock DEF x
      <3> QED BY <2>2, <3>2 DEF Gost!Previous, Gost!Last, x
    <2> QED BY <2>1, <2>2
  <1> DEFINE Cells == [prev : {Gost!IV} \cup Gost!Blocks, plain : Gost!Blocks]
  <1>9. cell \in Cells /\ cell.prev = Gost!Previous /\ cell.plain = Gost!Padded(b)
    BY <1>7, <1>8
  <1> HIDE DEF cell
  <1>10. /\ cipher' \in Seq(Cells) /\ Len(cipher') = x + 1 /\ cipher'[x + 1] = cell
         /\ \A k \in 1..x : cipher'[k] = cipher[k]
    BY <1>1, <1>2, <1>9, AppendProperties DEF GostTypes, x
  <1>11. (x + 1) * Block = x * Block + Block
    BY <1>2
  <1>12. Gost!TypeOK'
    <2>1. done' \in Nat /\ done' <= L + Block
      BY <1>1, <1>2, <1>4
    <2> QED BY <1>1, <1>10, <2>1 DEF GostInv, Gost!TypeOK, L
  <1>13. Encrypted'
    <2> SUFFICES ASSUME NEW k \in 1..(x + 1)
                 PROVE  /\ cipher'[k].prev = IF k = 1 THEN Gost!IV ELSE cipher'[k - 1].plain
                        /\ \A i \in 1..Block :
                             cipher'[k].plain[i] = IF (k - 1) * Block + i <= L
                                                   THEN text[(k - 1) * Block + i] ELSE k * Block - L
      BY <1>1, <1>10 DEF Encrypted, L, Gost!IV
    <2>1. CASE k \in 1..x
      <3>1. k # 1 => k - 1 \in 1..x
        BY <1>2, <2>1
      <3>2. cipher'[k] = cipher[k] /\ (k # 1 => cipher'[k - 1] = cipher[k - 1])
        BY <1>10, <2>1, <3>1
      <3> QED BY <1>3, <2>1, <3>2 DEF Encrypted, L, x
    <2>2. CASE k = x + 1
      <3>1. k - 1 = x
        BY <1>2, <2>2
      <3>2. cipher'[k].prev = IF k = 1 THEN Gost!IV ELSE cipher'[k - 1].plain
        <4>1. CASE x = 0
          <5>1. cipher = <<>>
            BY <1>2, <4>1, EmptySeq DEF GostTypes, x
          <5> QED BY <1>9, <1>10, <2>2, <4>1, <5>1 DEF Gost!Previous
        <4>2. CASE x # 0
          <5>1. cipher # <<>> /\ x \in 1..x /\ k # 1
            BY <1>2, <2>2, <4>2 DEF x
          <5> QED BY <1>9, <1>10, <2>2, <3>1, <5>1 DEF Gost!Previous, Gost!Last, x
        <4> QED BY <4>1, <4>2
      <3>3. ASSUME NEW i \in 1..Block
            PROVE  cipher'[k].plain[i] = IF (k - 1) * Block + i <= L
                                         THEN text[(k - 1) * Block + i] ELSE k * Block - L
        <4>1. cipher'[k].plain[i] = IF i <= n THEN text[done + i] ELSE Block - n
          <5>1. cipher'[k].plain[i] = IF i <= n THEN b[i] ELSE Block - n
            BY <1>6, <1>9, <1>10, <2>2
          <5>2. i <= n => b[i] = text[done + i]
            BY <1>4, <1>5
          <5> QED BY <5>1, <5>2
        <4>2. (k - 1) * Block = done /\ k * Block = done + Block
          BY <1>3, <1>11, <2>2, <3>1
        <4>3. CASE i <= n
          <5>1. done + i <= L
            BY <1>2, <1>4, <4>3
          <5> QED BY <4>1, <4>2, <4>3, <5>1
        <4>4. CASE ~(i <= n)
          <5>1. done + n = L /\ ~(done + i <= L) /\ Block - n = (done + Block) - L
            BY <1>2, <1>4, <4>4
          <5>2. ~((k - 1) * Block + i <= L)
            BY <4>2, <5>1
          <5>3. k * Block - L = Block - n
            BY <4>2, <5>1, Zenon
          <5> QED BY <4>1, <4>4, <5>2, <5>3
        <4> QED BY <4>3, <4>4
      <3> QED BY <3>2, <3>3
    <2> QED BY <1>2, <2>1, <2>2
  <1>14. WriterInv'
    <2>1. \/ done' = (x + 1) * Block
          \/ done' = L /\ done' < (x + 1) * Block /\ (x + 1) * Block < done' + Block
      <3>1. CASE n = Block
        BY <1>1, <1>3, <1>11, <3>1
      <3>2. CASE n < Block
        BY <1>1, <1>2, <1>3, <1>4, <1>11, <3>2
      <3> QED BY <1>4, <3>1, <3>2
    <2>2. done' <= L
      BY <1>1, <1>4
    <2> QED BY <1>1, <1>3, <1>10, <1>13, <2>1, <2>2 DEF WriterInv, L
  <1>15. StoredInv' /\ ReaderInv' /\ AnswerInv'
    BY <1>1 DEF StoredInv, ReaderInv, AnswerInv
  <1>16. Len(text') <= MaxSize
    BY <1>1, GostTyped
  <1> QED BY <1>12, <1>14, <1>15, <1>16 DEF GostInv

\* The text has been written.
LEMMA GostEncryptEnds ==
  ASSUME GostInv, Gost!EncryptEnds
  PROVE  GostInv'
  <1> USE GostAssumed
  <1>1. /\ gostPc = "write" /\ done = Len(text) /\ gostPc' = "written" /\ done' = 0
        /\ UNCHANGED <<text, cipher, odd, digest, noise, raw, out, gostAnswer>>
    BY DEF Gost!EncryptEnds
  <1>2. Len(text) \in Nat /\ Len(cipher) * Block \in Nat
    BY GostTyped
  <1>3. Encrypted /\ digest = text /\ odd = FALSE
    BY <1>1 DEF GostInv, WriterInv
  <1>4. Len(cipher) * Block < Len(text) + Block /\ Len(cipher) * Block >= Len(text)
    <2>1. CASE done = Len(cipher) * Block
      BY <1>1, <1>2, <2>1
    <2>2. CASE done < Len(cipher) * Block /\ Len(cipher) * Block < done + Block
      BY <1>1, <1>2, <2>2
    <2> QED BY <1>1, <2>1, <2>2 DEF GostInv, WriterInv
  <1>5. Gost!TypeOK'
    BY <1>1, <1>2 DEF GostInv, Gost!TypeOK
  <1>6. StoredInv'
    BY <1>1, <1>3, <1>4 DEF StoredInv, Gost!Intact, Encrypted
  <1>7. WriterInv' /\ ReaderInv' /\ AnswerInv' /\ Len(text') <= MaxSize
    BY <1>1 DEF GostInv, WriterInv, ReaderInv, AnswerInv
  <1> QED BY <1>5, <1>6, <1>7 DEF GostInv

\* A damaged file is not intact.
LEMMA GostDamage ==
  ASSUME GostInv, Gost!Damage
  PROVE  GostInv'
  <1> USE GostAssumed
  <1> DEFINE Cells == [prev : {Gost!IV} \cup Gost!Blocks, plain : Gost!Blocks]
             x == Len(cipher)
  <1>1. /\ gostPc = "written" /\ gostPc' = "damaged"
        /\ UNCHANGED <<text, done, raw, out, gostAnswer>>
    BY DEF Gost!Damage
  <1>2. /\ GostTypes /\ Len(text) \in Nat /\ x \in Nat /\ x * Block \in Nat
        /\ odd \in BOOLEAN /\ x * Block < Len(text) + Block
    BY <1>1, GostTyped DEF GostInv, StoredInv
  <1>3. cipher \in Seq(Cells) /\ noise \in Gost!Blocks /\ digest \in Seq(Gost!Bytes)
    BY <1>2 DEF GostTypes
  <1>4. /\ cipher' \in Seq(Cells) /\ noise' \in Gost!Blocks /\ digest' \in Seq(Gost!Bytes)
        /\ odd' \in BOOLEAN /\ Len(cipher') * Block < Len(text) + Block
        /\ ~Gost!Intact'
    <2> HIDE DEF Cells
    <2>1. CASE /\ cipher # <<>> /\ cipher' = Tail(cipher) /\ noise' \in Gost!Blocks
               /\ UNCHANGED <<odd, digest>>
      <3>1. cipher' \in Seq(Cells) /\ Len(cipher') = x - 1
        BY <1>3, <2>1
      <3>2. (x - 1) * Block = x * Block - Block
        BY <1>2
      <3>3. Len(cipher') * Block = x * Block - Block
        BY <3>1, <3>2
      <3>4. Len(cipher') * Block < Len(text) /\ Len(cipher') * Block < Len(text) + Block
        BY <1>2, <3>3
      <3>5. Len(cipher') * Block \in Int
        BY <1>2, <3>3
      <3>6. ~(Len(cipher') * Block >= Len(text))
        BY <1>2, <3>4, <3>5
      <3>7. ~Gost!Intact'
        BY <1>1, <3>6 DEF Gost!Intact
      <3> QED BY <1>2, <1>3, <2>1, <3>1, <3>4, <3>7
    <2>2. CASE /\ cipher # <<>> /\ cipher' = Gost!Prefix(cipher, Len(cipher) - 1) /\ odd' = TRUE
               /\ UNCHANGED <<digest, noise>>
      <3>1. x - 1 \in 0..x
        BY <1>2, <1>3, <2>2, EmptySeq
      <3>2. cipher' = SubSeq(cipher, 1, x - 1)
        BY <2>2 DEF Gost!Prefix
      <3>3. cipher' \in Seq(Cells) /\ Len(cipher') = x - 1
        <4>1. \A k \in 1..(x - 1) : cipher[k] \in Cells
          BY <1>2, <1>3, <3>1
        <4>2. SubSeq(cipher, 1, x - 1) \in Seq(Cells)
          BY <1>2, <4>1, SubSeqProperties
        <4>3. Len(SubSeq(cipher, 1, x - 1)) = x - 1
          <5> DEFINE y == x - 1
          <5>1. y \in Nat /\ \A k \in 1..y : cipher[k] \in Cells
            BY <1>2, <3>1, <4>1
          <5> HIDE DEF y
          <5>2. Len(SubSeq(cipher, 1, y)) = IF 1 <= y THEN (y - 1) + 1 ELSE 0
            BY <5>1, SubSeqProperties
          <5>3. Len(SubSeq(cipher, 1, y)) = y
            BY <5>1, <5>2
          <5> QED BY <5>3 DEF y
        <4> QED BY <3>2, <4>2, <4>3
      <3>4. (x - 1) * Block = x * Block - Block
        BY <1>2
      <3>5. Len(cipher') * Block = x * Block - Block
        BY <3>3, <3>4
      <3>6. Len(cipher') * Block < Len(text) + Block
        BY <1>2, <3>5
      <3>7. ~Gost!Intact'
        BY <2>2 DEF Gost!Intact
      <3> QED BY <1>3, <2>2, <3>3, <3>6, <3>7
    <2>3. CASE /\ digest' \in {Gost!Prefix(text, n) : n \in 0..Len(text)} \ {text}
               /\ UNCHANGED <<cipher, odd, noise>>
      <3>1. PICK n \in 0..Len(text) : digest' = SubSeq(text, 1, n)
        BY <2>3 DEF Gost!Prefix
      <3>2. digest' \in Seq(Gost!Bytes)
        BY <1>2, <3>1 DEF GostTypes
      <3>3. ~Gost!Intact'
        BY <1>1, <2>3 DEF Gost!Intact
      <3> QED BY <1>2, <1>3, <2>3, <3>2, <3>3
    <2> QED BY <2>1, <2>2, <2>3 DEF Gost!Damage
  <1>5. Gost!TypeOK'
    BY <1>1, <1>4 DEF GostInv, Gost!TypeOK
  <1>6. StoredInv'
    BY <1>1, <1>4 DEF StoredInv
  <1>7. WriterInv' /\ ReaderInv' /\ AnswerInv' /\ Len(text') <= MaxSize
    BY <1>1 DEF GostInv, WriterInv, ReaderInv, AnswerInv
  <1> QED BY <1>5, <1>6, <1>7 DEF GostInv

\* What is stored stays as it is when the file is read.
LEMMA StoredKept ==
  ASSUME GostInv, gostPc # "write", gostPc' \notin {"write", "written"},
         UNCHANGED <<text, cipher, odd, digest>>
  PROVE  StoredInv' /\ WriterInv' /\ Len(text') <= MaxSize
  BY DEF GostInv, StoredInv, WriterInv, Gost!Intact, Encrypted

\* The reader starts.
LEMMA GostStartReader ==
  ASSUME GostInv, Gost!StartReader
  PROVE  GostInv'
  <1> USE GostAssumed
  <1>1. /\ gostPc \in {"written", "damaged"} /\ gostPc' = "read" /\ raw' \in BOOLEAN
        /\ done' = 0 /\ out' = <<>>
        /\ UNCHANGED <<text, cipher, odd, digest, noise, gostAnswer>>
    BY DEF Gost!StartReader
  <1>2. Len(text) \in Nat /\ Len(cipher) \in Nat
    BY GostTyped
  <1>3. Gost!TypeOK'
    BY <1>1, <1>2 DEF GostInv, Gost!TypeOK
  <1>4. ReaderInv'
    <2>1. Len(out') = 0 /\ 0 * Block = 0 /\ 1..0 = {}
      BY <1>1
    <2> QED BY <1>1, <1>2, <2>1 DEF ReaderInv
  <1>5. AnswerInv'
    BY <1>1 DEF AnswerInv
  <1> QED BY <1>1, <1>3, <1>4, <1>5, StoredKept DEF GostInv

\* After another block the reader has written one block more.
LEMMA ReaderAppends ==
  ASSUME GostInv, gostPc = "read", done < Len(cipher), NEW next, next = out \o Gost!Plain(done + 1)
  PROVE  /\ next \in Seq(Gost!Bytes) /\ Len(next) = (done + 1) * Block
         /\ \A i \in 1..((done + 1) * Block) : next[i] = ByteAt(i)
  <1> USE GostAssumed
  <1> DEFINE b == Gost!Plain(done + 1)
             y == done * Block
             z == (done + 1) * Block
  <1>1. /\ GostTypes /\ done \in Nat /\ Len(cipher) \in Nat /\ out \in Seq(Gost!Bytes)
    BY GostTyped DEF GostTypes
  <1>2. y \in Nat /\ z = y + Block /\ Len(out) = y /\ \A i \in 1..y : out[i] = ByteAt(i)
    BY <1>1 DEF GostInv, ReaderInv
  <1>3. b \in Seq(Gost!Bytes) /\ Len(b) = Block
    <2>1. done + 1 \in 1..Len(cipher)
      BY <1>1
    <2> QED BY <1>1, <2>1, PlainIsBlock, BlockIsSeq
  <1>4. \A r \in 1..Block : ByteAt(y + r) = b[r]
    <2> SUFFICES ASSUME NEW r \in 1..Block PROVE ByteAt(y + r) = b[r]
      OBVIOUS
    <2>1. done + 1 \in Nat /\ done + 1 > 0 /\ (done + 1) - 1 = done
      BY <1>1
    <2>2. ByteAt(((done + 1) - 1) * Block + r) = b[r]
      BY <2>1, ByteOfBlock
    <2> QED BY <2>1, <2>2
  <1> HIDE DEF b, y, z
  <1>5. next = out \o b
    BY DEF b
  <1>6. next \in Seq(Gost!Bytes) /\ Len(next) = y + Block
    BY <1>1, <1>2, <1>3, <1>5, ConcatProperties
  <1>7. ASSUME NEW i \in 1..(y + Block)
        PROVE  next[i] = ByteAt(i)
    <2>1. next[i] = IF i <= y THEN out[i] ELSE b[i - y]
      <3>1. out \in Seq(Gost!Bytes) /\ b \in Seq(Gost!Bytes) /\ i \in 1..(Len(out) + Len(b)) /\ Len(out) = y
        BY ONLY <1>1, <1>2, <1>3, <1>7
      <3> QED BY ONLY <1>5, <3>1, ConcatProperties
    <2>2. CASE i <= y
      BY <1>2, <2>1, <2>2
    <2>3. CASE ~(i <= y)
      <3>1. i - y \in 1..Block /\ y + (i - y) = i
        BY <1>2, <2>3
      <3> QED BY <1>4, <2>1, <2>3, <3>1
    <2> QED BY <2>2, <2>3
  <1> QED BY <1>2, <1>6, <1>7 DEF z

\* A block in the middle.
LEMMA GostDecryptBlock ==
  ASSUME GostInv, Gost!DecryptBlock
  PROVE  GostInv'
  <1> USE GostAssumed
  <1>1. /\ gostPc = "read" /\ done < Len(cipher) /\ out' = out \o Gost!Plain(done + 1) /\ done' = done + 1
        /\ UNCHANGED <<gostPc, text, cipher, odd, digest, noise, raw, gostAnswer>>
    BY DEF Gost!DecryptBlock
  <1>2. /\ out' \in Seq(Gost!Bytes) /\ Len(out') = (done + 1) * Block
        /\ \A i \in 1..((done + 1) * Block) : out'[i] = ByteAt(i)
    BY <1>1, ReaderAppends
  <1>3. /\ Len(text) \in Nat /\ Len(cipher) \in Nat /\ done \in Nat
        /\ Len(cipher) * Block < Len(text) + Block
    BY <1>1, GostTyped DEF GostInv, StoredInv
  <1>4. Len(cipher) <= Len(cipher) * Block
    <2>1. CASE Len(cipher) = 0
      BY <1>3, <2>1
    <2>2. \E d \in Nat : Block = d + 1
      <3>1. Block - 1 \in Nat /\ Block = (Block - 1) + 1
        OBVIOUS
      <3> QED BY <3>1
    <2>3. PICK d \in Nat : Block = d + 1
      BY <2>2
    <2>4. Len(cipher) * Block = Len(cipher) * d + Len(cipher) /\ Len(cipher) * d \in Nat
      BY <1>3, <2>3
    <2> QED BY <1>3, <2>4
  <1>5. Gost!TypeOK'
    <2>1. done' \in Nat /\ done' <= Len(text) + Block
      <3>1. Len(cipher) * Block \in Nat
        BY <1>3
      <3> QED BY <1>1, <1>3, <1>4, <3>1
    <2> QED BY <1>1, <1>2, <2>1 DEF GostInv, Gost!TypeOK
  <1>6. ReaderInv'
    <2>1. \A i : ByteAt(i)' = ByteAt(i)
      BY <1>1 DEF ByteAt, Gost!Plain, Gost!IV
    <2>2. done' <= Len(cipher)
      BY <1>1, <1>3
    <2> QED BY <1>1, <1>2, <2>1, <2>2 DEF ReaderInv
  <1>7. AnswerInv'
    BY <1>1 DEF AnswerInv
  <1> QED BY <1>1, <1>5, <1>6, <1>7, StoredKept DEF GostInv

\* Where the reader meets the end of an intact file: what it has written before
\* the last block, and the last block, make the text and its padding.
LEMMA ReadsIntact ==
  ASSUME GostInv, gostPc = "read", Gost!Intact, done + 1 = Len(cipher), raw = FALSE,
         NEW b, b = Gost!Plain(done + 1), NEW m,
         m = IF b[Block] <= Block /\ Gost!EndsInPadding(b, b[Block]) THEN Block - b[Block] ELSE Block
  PROVE  \/ out \o SubSeq(b, 1, m) = text
         \/ Len(text) % Block = 0 /\ \E n \in 1..Block : Gost!EndsInPadding(text, n)
  <1> USE GostAssumed
  <1> DEFINE L == Len(text)
             y == done * Block
             z == Len(cipher) * Block
             p == z - L
             n == b[Block]
  <1>1. /\ GostTypes /\ L \in Nat /\ Len(cipher) \in Nat /\ done \in Nat
        /\ text \in Seq(Gost!Bytes) /\ out \in Seq(Gost!Bytes)
    BY GostTyped DEF GostTypes
  <1>2. /\ Encrypted /\ z < L + Block /\ z >= L /\ Len(out) = y
        /\ \A i \in 1..y : out[i] = ByteAt(i)
    BY DEF GostInv, StoredInv, ReaderInv, Gost!Intact
  <1>3. y \in Nat /\ z = y + Block /\ p \in Nat /\ p < Block /\ L = z - p
    <2>1. y \in Nat /\ z \in Nat
      BY <1>1
    <2>2. (done + 1) * Block = y + Block
      BY <1>1
    <2>3. z = y + Block
      BY <2>2
    <2> HIDE DEF y, z
    <2> QED BY <1>1, <1>2, <2>1, <2>3
  <1>4. \A i \in 1..z : ByteAt(i) = IF i <= L THEN text[i] ELSE p
    BY <1>1, <1>2, EncryptedBytes
  <1>5. b \in Seq(Gost!Bytes) /\ Len(b) = Block /\ \A i \in 1..Block : b[i] \in Gost!Bytes
    <2>1. done + 1 \in 1..Len(cipher)
      BY <1>1
    <2> QED BY <1>1, <2>1, PlainIsBlock, BlockIsSeq
  <1>6. \A r \in 1..Block : b[r] = ByteAt(y + r)
    <2> SUFFICES ASSUME NEW r \in 1..Block PROVE b[r] = ByteAt(y + r)
      OBVIOUS
    <2>1. done + 1 \in Nat /\ done + 1 > 0 /\ (done + 1) - 1 = done
      BY <1>1
    <2>2. ByteAt(((done + 1) - 1) * Block + r) = Gost!Plain(done + 1)[r]
      BY <2>1, ByteOfBlock
    <2> QED BY <2>1, <2>2
  <1>7. n \in Nat /\ Block \in 1..Block
    BY <1>5 DEF Gost!Bytes
  <1>8. \/ z = L /\ L % Block = 0
        \/ p > 0
    <2>1. z % Block = 0
      BY <1>1, WholeBlocks
    <2> HIDE DEF L, y, z, p
    <2>2. CASE p = 0
      <3>1. z = L
        BY <1>1, <1>3, <2>2
      <3> QED BY <2>1, <3>1, Zenon
    <2>3. CASE p # 0
      BY <1>3, <2>3
    <2> QED BY <2>2, <2>3
  <1>9. m = IF n <= Block /\ Gost!EndsInPadding(b, n) THEN Block - n ELSE Block
    OBVIOUS
  <1> HIDE DEF L, y, z, p, n
  <1>10. \A r \in 1..Block : b[r] = IF y + r <= L THEN text[y + r] ELSE p
    <2> SUFFICES ASSUME NEW r \in 1..Block PROVE b[r] = IF y + r <= L THEN text[y + r] ELSE p
      OBVIOUS
    <2>1. y + r \in 1..z
      BY <1>3
    <2> QED BY <1>4, <1>6, <2>1
  <1>11. Gost!EndsInPadding(b, n) <=> n \in 1..Block /\ \A i \in (Block - n + 1)..Block : b[i] = n
    BY <1>5 DEF Gost!EndsInPadding
  <1>12. ASSUME NEW h \in Nat, h <= Block, y + h = L, m = h
         PROVE  out \o SubSeq(b, 1, m) = text
    <2>1. \A i \in 1..h : b[i] \in Gost!Bytes
      BY <1>5, <1>12
    <2>2. SubSeq(b, 1, h) \in Seq(Gost!Bytes)
      BY <2>1, SubSeqProperties
    <2>3. Len(SubSeq(b, 1, h)) = h
      <3>1. Len(SubSeq(b, 1, h)) = IF 1 <= h THEN (h - 1) + 1 ELSE 0
        BY <2>1, SubSeqProperties
      <3> QED BY <3>1
    <2>4. \A i \in 1..h : SubSeq(b, 1, h)[i] = b[i]
      <3> SUFFICES ASSUME NEW i \in 1..h PROVE SubSeq(b, 1, h)[i] = b[i]
        OBVIOUS
      <3>1. i \in 1..((h - 1) + 1) /\ (1 + i) - 1 = i
        OBVIOUS
      <3>2. SubSeq(b, 1, h)[i] = b[(1 + i) - 1]
        BY <2>1, <3>1, SubSeqProperties
      <3> QED BY <3>1, <3>2
    <2> DEFINE s1 == SubSeq(b, 1, h)
               whole == out \o s1
    <2> HIDE DEF s1
    <2>5. /\ whole \in Seq(Gost!Bytes) /\ Len(whole) = y + h
          /\ \A i \in 1..(y + h) : whole[i] = IF i <= y THEN out[i] ELSE s1[i - y]
      <3>1. Len(out) = y /\ s1 \in Seq(Gost!Bytes) /\ Len(s1) = h
        BY <1>2, <2>2, <2>3 DEF s1, y
      <3> QED BY <1>1, <3>1, ConcatProperties
    <2>6. ASSUME NEW i \in 1..(y + h)
          PROVE  whole[i] = text[i]
      <3>1. i \in 1..z /\ i <= L
        BY <1>3, <1>12
      <3>2. CASE i <= y
        <4>1. i \in 1..y
          BY <1>3, <3>2
        <4>2. out[i] = ByteAt(i)
          BY <1>2, <4>1 DEF y
        <4> HIDE DEF whole
        <4> QED BY <1>4, <2>5, <3>1, <3>2, <4>2
      <3>3. CASE ~(i <= y)
        <4>1. i - y \in 1..h /\ i - y \in 1..Block /\ y + (i - y) = i
          BY <1>3, <1>12, <3>3
        <4>2. s1[i - y] = b[i - y]
          BY <2>4, <4>1 DEF s1
        <4>3. b[i - y] = text[i]
          BY <1>10, <3>1, <4>1
        <4> HIDE DEF whole
        <4> QED BY <2>5, <3>3, <4>2, <4>3
      <3> QED BY <3>2, <3>3
    <2> HIDE DEF whole
    <2>7. Len(whole) = Len(text) /\ Len(whole) = y + h
      BY <1>12, <2>5 DEF L
    <2>8. whole = text
      BY <1>1, <2>5, <2>6, <2>7, SeqEqual
    <2> QED BY <1>12, <2>8 DEF whole, s1
  <1>13. CASE p > 0
    <2>1. n = p
      <3>1. ~(y + Block <= L)
        BY <1>1, <1>3, <1>13
      <3>2. b[Block] = p
        BY <1>7, <1>10, <3>1
      <3> QED BY <3>2 DEF n
    <2>2. n \in 1..Block /\ n <= Block
      BY <1>3, <1>7, <1>13, <2>1
    <2>3. \A i \in (Block - n + 1)..Block : b[i] = n
      <3> SUFFICES ASSUME NEW i \in (Block - n + 1)..Block PROVE b[i] = n
        OBVIOUS
      <3>1. i \in 1..Block /\ ~(y + i <= L)
        BY <1>1, <1>3, <2>1, <2>2
      <3> QED BY <1>10, <2>1, <3>1
    <2>4. m = Block - n
      BY <1>9, <1>11, <2>2, <2>3
    <2>5. Block - n \in Nat /\ Block - n <= Block /\ y + (Block - n) = L
      BY <1>1, <1>3, <2>1, <2>2
    <2> QED BY <1>12, <2>4, <2>5
  <1>14. CASE z = L /\ L % Block = 0
    <2>1. CASE n <= Block /\ Gost!EndsInPadding(b, n)
      <3>1. n \in 1..Block /\ \A i \in (Block - n + 1)..Block : b[i] = n
        BY <1>11, <2>1
      <3>2. n \in 1..L
        BY <1>1, <1>3, <1>14, <3>1
      <3>3. ASSUME NEW i \in (L - n + 1)..L
            PROVE  text[i] = n
        <4>1. i - y \in (Block - n + 1)..Block /\ i - y \in 1..Block /\ y + (i - y) = i /\ i <= L
          BY <1>1, <1>3, <1>14, <3>1, <3>2
        <4> QED BY <1>10, <3>1, <4>1
      <3>4. Gost!EndsInPadding(text, n)
        BY <3>2, <3>3 DEF Gost!EndsInPadding, L
      <3> QED BY <1>14, <3>1, <3>4 DEF L
    <2>2. CASE ~(n <= Block /\ Gost!EndsInPadding(b, n))
      <3>1. m = Block
        BY <1>9, <2>2
      <3>2. y + Block = L
        BY <1>3, <1>14
      <3> QED BY <1>12, <3>1, <3>2
    <2> QED BY <2>1, <2>2
  <1> QED BY <1>8, <1>13, <1>14

\* The reader has come to an end; the rest is what it has left behind.
LEMMA ReaderEnds ==
  ASSUME GostInv, gostPc = "read", NEW result, Gost!Reads(result), out' \in Seq(Gost!Bytes),
         odd => result = Gost!Failed,
         ~odd => result = [ok |-> TRUE, text |-> out'],
         ~odd /\ raw => out' = Gost!Whole,
         Gost!Intact /\ ~raw => ReadExactly'
  PROVE  GostInv'
  <1> USE GostAssumed
  <1>1. /\ gostAnswer' = [gostAnswer EXCEPT !.read = result] /\ gostPc' = "recover" /\ done' = 0
        /\ UNCHANGED <<text, cipher, odd, digest, noise, raw>>
    BY DEF Gost!Reads
  <1>2. Gost!TypeOK /\ Len(text) \in Nat
    BY GostTyped DEF GostInv
  <1>3. DOMAIN gostAnswer = {"read", "server", "tool"}
    BY <1>2 DEF Gost!TypeOK
  <1>4. DOMAIN gostAnswer' = {"read", "server", "tool"} /\ gostAnswer'.read = result
    BY <1>1, <1>3
  <1>5. Gost!TypeOK'
    BY <1>1, <1>2, <1>4 DEF Gost!TypeOK
  <1>6. ReaderInv'
    BY <1>1 DEF ReaderInv
  <1>7. Gost!Intact' = Gost!Intact /\ Gost!Whole' = Gost!Whole
    BY <1>1 DEF Gost!Intact, Gost!Whole, Gost!Plain, Gost!IV
  <1>8. AnswerInv'
    BY <1>1, <1>4, <1>7 DEF AnswerInv, Gost!Failed
  <1>9. StoredInv' /\ WriterInv' /\ Len(text') <= MaxSize
    BY <1>1, StoredKept
  <1> QED BY <1>5, <1>6, <1>8, <1>9 DEF GostInv

\* The last block.
LEMMA GostDecryptLast ==
  ASSUME GostInv, Gost!DecryptLast
  PROVE  GostInv'
  <1> USE GostAssumed
  <1> DEFINE b == Gost!Plain(done + 1)
             n == b[Block]
             m == IF ~raw /\ n <= Block /\ Gost!EndsInPadding(b, n) THEN Block - n ELSE Block
             z == Len(cipher) * Block
  <1>1. /\ gostPc = "read" /\ done + 1 = Len(cipher) /\ ~odd
        /\ out' = out \o SubSeq(b, 1, m)
        /\ Gost!Reads([ok |-> TRUE, text |-> out'])
    BY DEF Gost!DecryptLast, Gost!Prefix
  <1>2. UNCHANGED <<text, cipher, odd, digest, noise, raw>>
    BY <1>1 DEF Gost!Reads
  <1>3. /\ GostTypes /\ out \in Seq(Gost!Bytes) /\ done \in Nat /\ raw \in BOOLEAN
        /\ Len(cipher) \in Nat /\ done < Len(cipher)
    BY <1>1, GostTyped DEF GostTypes
  <1>4. b \in Seq(Gost!Bytes) /\ Len(b) = Block /\ \A i \in 1..Block : b[i] \in Gost!Bytes
    <2>1. done + 1 \in 1..Len(cipher)
      BY <1>3
    <2> QED BY <1>3, <2>1, PlainIsBlock, BlockIsSeq
  <1>5. m \in Nat /\ m <= Block
    <2>1. Block \in 1..Block /\ b[Block] \in Gost!Bytes
      BY <1>4
    <2>2. n \in Nat
      BY <2>1 DEF Gost!Bytes
    <2> HIDE DEF n, b
    <2> QED BY <2>2
  <1>6. SubSeq(b, 1, m) \in Seq(Gost!Bytes)
    <2> HIDE DEF b, m
    <2>1. \A i \in 1..m : b[i] \in Gost!Bytes
      BY <1>4, <1>5
    <2> QED BY <1>5, <2>1, SubSeqProperties
  <1>7. out' \in Seq(Gost!Bytes)
    <2> HIDE DEF b, m
    <2> QED BY <1>1, <1>3, <1>6, ConcatProperties
  <1>8. ASSUME raw PROVE out' = Gost!Whole
    <2>1. m = Block
      BY <1>8
    <2> HIDE DEF m, b
    <2>2. SubSeq(b, 1, m) = b
      BY <1>4, <2>1, SubSeqFull
    <2>3. out' = out \o Gost!Plain(done + 1)
      BY <1>1, <2>2 DEF b
    <2>4. /\ Len(out') = (done + 1) * Block
          /\ \A i \in 1..((done + 1) * Block) : out'[i] = ByteAt(i)
      BY <1>1, <1>3, <2>3, ReaderAppends
    <2>5. /\ Gost!Whole \in Seq(Gost!Bytes) /\ Len(Gost!Whole) = z
          /\ \A i \in 1..z : Gost!Whole[i] = ByteAt(i)
      BY <1>3, WholeBytes
    <2>6. (done + 1) * Block = z
      BY <1>1
    <2> HIDE DEF z
    <2>7. Len(out') = Len(Gost!Whole) /\ \A i \in 1..Len(out') : out'[i] = Gost!Whole[i]
      BY <2>4, <2>5, <2>6
    <2> QED BY <1>7, <2>5, <2>7, SeqEqual
  <1>9. ASSUME Gost!Intact, ~raw PROVE ReadExactly'
    <2>1. m = IF n <= Block /\ Gost!EndsInPadding(b, n) THEN Block - n ELSE Block
      BY <1>9
    <2>2. raw = FALSE
      BY <1>3, <1>9
    <2>3. \/ out \o SubSeq(b, 1, m) = text
          \/ Len(text) % Block = 0 /\ \E h \in 1..Block : Gost!EndsInPadding(text, h)
      <3> HIDE DEF m, b
      <3> QED BY <1>1, <1>9, <2>1, <2>2, ReadsIntact DEF b
    <2> HIDE DEF m, b
    <2>4. \A h : Gost!EndsInPadding(text', h) <=> Gost!EndsInPadding(text, h)
      BY <1>2
    <2> QED BY <1>1, <1>2, <2>3, <2>4 DEF ReadExactly, Gost!EndsInPadding
  <1> HIDE DEF m, b
  <1> QED BY <1>1, <1>7, <1>8, <1>9, ReaderEnds

\* A file without a block.
LEMMA GostDecryptEmpty ==
  ASSUME GostInv, Gost!DecryptEmpty
  PROVE  GostInv'
  <1> USE GostAssumed
  <1>1. /\ gostPc = "read" /\ cipher = <<>> /\ ~odd /\ out' = out
        /\ Gost!Reads([ok |-> TRUE, text |-> <<>>])
    BY DEF Gost!DecryptEmpty
  <1>2. GostTypes /\ out \in Seq(Gost!Bytes) /\ text \in Seq(Gost!Bytes) /\ done \in Nat
    BY GostTyped DEF GostTypes
  <1>3. Len(cipher) = 0 /\ 0 * Block = 0 /\ Len(cipher) * Block = 0
    BY <1>1
  <1>4. out = <<>>
    <2>1. done <= Len(cipher) /\ Len(out) = done * Block
      BY <1>1 DEF GostInv, ReaderInv
    <2>2. done = 0
      BY <1>2, <1>3, <2>1
    <2>3. Len(out) = 0
      BY <1>3, <2>1, <2>2
    <2> QED BY <1>2, <2>3, EmptySeq
  <1>5. Gost!Whole = <<>>
    <2>1. Gost!Whole \in Seq(Gost!Bytes) /\ Len(Gost!Whole) = 0
      BY <1>2, <1>3, WholeBytes
    <2> QED BY <2>1, EmptySeq
  <1>6. ASSUME Gost!Intact PROVE text = <<>>
    <2>1. Len(text) = 0
      <3>1. 0 >= Len(text) /\ Len(text) \in Nat
        BY <1>2, <1>3, <1>6 DEF Gost!Intact
      <3> QED BY <3>1
    <2> QED BY <1>2, <2>1, EmptySeq
  <1>7. text' = text
    BY <1>1 DEF Gost!Reads
  <1>8. Gost!Intact /\ ~raw => ReadExactly'
    BY <1>1, <1>4, <1>6, <1>7 DEF ReadExactly
  <1> QED BY <1>1, <1>2, <1>4, <1>5, <1>8, ReaderEnds

\* A file with a part of a block.
LEMMA GostDecryptOdd ==
  ASSUME GostInv, Gost!DecryptOdd
  PROVE  GostInv'
  <1>1. gostPc = "read" /\ odd /\ out' = out /\ Gost!Reads(Gost!Failed)
    BY DEF Gost!DecryptOdd
  <1>2. out \in Seq(Gost!Bytes)
    BY GostTyped DEF GostTypes
  <1>3. ~Gost!Intact
    BY <1>1 DEF Gost!Intact
  <1> QED BY <1>1, <1>2, <1>3, ReaderEnds

\* The blocks of an intact file are the text, or the text and padding that the
\* trusted digest tells from it; and such a file is not too long.
LEMMA RecoversIntact ==
  ASSUME GostInv, gostPc # "write", Gost!Intact
  PROVE  ~Gost!SizeRefused /\ Gost!Recover(Gost!Whole) = [ok |-> TRUE, text |-> text]
  <1> USE GostAssumed
  <1> DEFINE w == Gost!Whole
             L == Len(text)
             x == Len(cipher)
             z == x * Block
             p == z - L
  <1>1. /\ GostTypes /\ L \in Nat /\ x \in Nat /\ z \in Nat /\ L <= MaxSize
        /\ text \in Seq(Gost!Bytes) /\ digest = text /\ ~odd
    BY GostTyped DEF GostTypes, Gost!Intact
  <1>2. Encrypted /\ z < L + Block /\ z >= L
    BY DEF GostInv, StoredInv, Gost!Intact
  <1>3. \A i \in 1..z : ByteAt(i) = IF i <= L THEN text[i] ELSE p
    BY <1>1, <1>2, EncryptedBytes
  <1>4. w \in Seq(Gost!Bytes) /\ Len(w) = z /\ \A i \in 1..z : w[i] = IF i <= L THEN text[i] ELSE p
    BY <1>1, <1>3, WholeBytes
  <1>5. ~Gost!SizeRefused
    <2>1. (x + 1) * Block = z + Block
      BY <1>1
    <2>2. ~((x + 1) * Block > MaxSize + 2 * Block)
      <3> HIDE DEF x, z, L
      <3> QED BY <1>1, <1>2, <2>1
    <2> QED BY <1>1, <2>2 DEF Gost!SizeRefused
  <1> HIDE DEF w, L, x, z
  <1>6. p \in Nat /\ p < Block /\ z = L + p
    BY <1>1, <1>2
  <1> HIDE DEF p
  <1>7. CASE p = 0
    <2>1. w = text
      <3>1. Len(w) = Len(text) /\ \A i \in 1..Len(w) : w[i] = text[i]
        <4>1. z = L
          BY <1>1, <1>6, <1>7
        <4>2. Len(w) = Len(text)
          BY <1>4, <4>1 DEF L
        <4>3. ASSUME NEW i \in 1..Len(w) PROVE w[i] = text[i]
          <5>1. i \in 1..z /\ i <= L
            BY <1>1, <1>4, <4>1
          <5> QED BY <1>4, <5>1
        <4> QED BY <4>2, <4>3
      <3> QED BY <1>1, <1>4, <3>1, SeqEqual
    <2> QED BY <1>1, <1>5, <2>1 DEF w, Gost!Recover
  <1>8. CASE p > 0
    <2>1. z \in 1..z /\ ~(z <= L) /\ z > 0
      BY <1>1, <1>6, <1>8
    <2>2. Gost!Last(w) = p
      BY <1>4, <2>1 DEF Gost!Last
    <2>3. w # <<>>
      <3>1. Len(<<>>) = 0
        BY EmptySeq
      <3> QED BY <1>4, <2>1, <3>1
    <2>4. Gost!EndsInPadding(w, p)
      <3>1. p \in 1..Len(w)
        BY <1>1, <1>4, <1>6, <1>8
      <3>2. ASSUME NEW i \in (Len(w) - p + 1)..Len(w) PROVE w[i] = p
        <4>1. i \in 1..z /\ ~(i <= L)
          BY <1>1, <1>4, <1>6, <1>8
        <4> QED BY <1>4, <4>1
      <3> QED BY <3>1, <3>2 DEF Gost!EndsInPadding
    <2>5. Gost!MayUnpad(w)
      BY <1>6, <2>2, <2>3, <2>4 DEF Gost!MayUnpad
    <2>6. Gost!Unpadded(w) = text
      <3>1. Len(w) - p = L
        BY <1>1, <1>4, <1>6
      <3>2. Gost!Unpadded(w) = SubSeq(w, 1, L)
        BY <2>2, <3>1 DEF Gost!Unpadded, Gost!Prefix
      <3>3. \A i \in 1..L : w[i] = text[i] /\ text[i] \in Gost!Bytes
        <4> SUFFICES ASSUME NEW i \in 1..L PROVE w[i] = text[i] /\ text[i] \in Gost!Bytes
          OBVIOUS
        <4>1. i \in 1..z /\ i <= L
          BY <1>1, <1>6
        <4>2. i \in 1..Len(text)
          BY DEF L
        <4> QED BY <1>1, <1>4, <4>1, <4>2, ElementOfSeq
      <3> DEFINE u == SubSeq(w, 1, L)
      <3>4. u \in Seq(Gost!Bytes) /\ Len(u) = L
        <4>1. \A i \in 1..L : w[i] \in Gost!Bytes
          BY <3>3
        <4>2. u \in Seq(Gost!Bytes) /\ Len(u) = IF 1 <= L THEN (L - 1) + 1 ELSE 0
          BY <1>1, <4>1, SubSeqProperties
        <4> HIDE DEF u
        <4> QED BY <1>1, <4>2
      <3>5. ASSUME NEW i \in 1..L PROVE u[i] = text[i]
        <4>1. \A j \in 1..L : w[j] \in Gost!Bytes
          BY <3>3
        <4>2. i \in 1..((L - 1) + 1) /\ (1 + i) - 1 = i
          BY <1>1
        <4>3. u[i] = w[(1 + i) - 1]
          BY <1>1, <4>1, <4>2, SubSeqProperties
        <4> QED BY <3>3, <4>2, <4>3
      <3> HIDE DEF u
      <3>6. u = text
        <4>1. Len(u) = Len(text) /\ \A i \in 1..Len(u) : u[i] = text[i]
          BY <3>4, <3>5 DEF L
        <4> QED BY <1>1, <3>4, <4>1, SeqEqual
      <3> QED BY <3>2, <3>6 DEF u
    <2> QED BY <1>1, <1>5, <2>5, <2>6 DEF w, Gost!Recover
  <1> QED BY <1>6, <1>7, <1>8

\* What the server hands out is what the digest covers.
LEMMA RecoverVerified ==
  ASSUME NEW s, Gost!Recover(s).ok
  PROVE  Gost!Recover(s).text = digest
  BY DEF Gost!Recover, Gost!Failed

\* What the recoveries read does not change with the stored file untouched.
LEMMA RecoverFixed ==
  ASSUME UNCHANGED <<text, cipher, odd, digest, noise, done, raw, out>>
  PROVE  /\ Gost!Intact' = Gost!Intact /\ Gost!Whole' = Gost!Whole /\ ReadExactly' = ReadExactly
         /\ Gost!SizeRefused' = Gost!SizeRefused
         /\ Gost!Recover(Gost!Whole)' = Gost!Recover(Gost!Whole)
  <1>1. Gost!Intact' = Gost!Intact /\ Gost!SizeRefused' = Gost!SizeRefused
    BY DEF Gost!Intact, Gost!SizeRefused
  <1>2. ReadExactly' = ReadExactly
    BY DEF ReadExactly, Gost!EndsInPadding
  <1>3. Gost!Whole' = Gost!Whole
    BY DEF Gost!Whole, Gost!Plain, Gost!IV
  <1>4. Gost!Recover(Gost!Whole)' = Gost!Recover(Gost!Whole)
    BY <1>3 DEF Gost!Recover, Gost!Failed, Gost!MayUnpad, Gost!Unpadded, Gost!Prefix, Gost!Last,
       Gost!EndsInPadding
  <1> QED BY <1>1, <1>2, <1>3, <1>4

\* The server recovers the file.
LEMMA GostServerRecover ==
  ASSUME GostInv, Gost!ServerRecover
  PROVE  GostInv'
  <1> DEFINE result == IF Gost!SizeRefused THEN Gost!Failed ELSE Gost!Recover(Gost!Whole)
  <1>1. /\ gostPc = "recover" /\ gostAnswer' = [gostAnswer EXCEPT !.server = result] /\ gostPc' = "compare"
        /\ UNCHANGED <<text, cipher, odd, digest, noise, done, raw, out>>
    BY DEF Gost!ServerRecover
  <1>2. Gost!TypeOK
    BY DEF GostInv
  <1>3. /\ result' = result /\ Gost!Intact' = Gost!Intact /\ Gost!Whole' = Gost!Whole
        /\ ReadExactly' = ReadExactly
    BY <1>1, RecoverFixed DEF Gost!Failed
  <1>4. result' = IF Gost!SizeRefused' THEN Gost!Failed' ELSE Gost!Recover(Gost!Whole)'
    OBVIOUS
  <1> HIDE DEF result
  <1>5. /\ DOMAIN gostAnswer' = {"read", "server", "tool"} /\ gostAnswer'.server = result
        /\ gostAnswer'.read = gostAnswer.read
    <2>1. DOMAIN gostAnswer = {"read", "server", "tool"}
      BY <1>2 DEF Gost!TypeOK
    <2> QED BY <1>1, <2>1
  <1>6. Gost!TypeOK'
    BY <1>1, <1>2, <1>5 DEF Gost!TypeOK
  <1>7. ReaderInv'
    BY <1>1 DEF ReaderInv
  <1>8. AnswerInv'
    <2>1. /\ odd => gostAnswer.read = Gost!Failed
          /\ ~odd => gostAnswer.read = [ok |-> TRUE, text |-> out]
          /\ ~odd /\ raw => out = Gost!Whole
          /\ Gost!Intact /\ ~raw => ReadExactly
      BY <1>1 DEF GostInv, AnswerInv
    <2> QED BY <1>1, <1>3, <1>4, <1>5, <2>1 DEF AnswerInv, Gost!Failed
  <1>9. StoredInv' /\ WriterInv' /\ Len(text') <= MaxSize
    BY <1>1, StoredKept
  <1> QED BY <1>6, <1>7, <1>8, <1>9 DEF GostInv

\* The tool recovers it as well.
LEMMA GostToolRecover ==
  ASSUME GostInv, Gost!ToolRecover
  PROVE  GostInv'
  <1> DEFINE candidates == {out} \cup (IF Gost!MayUnpad(out) THEN {Gost!Unpadded(out)} ELSE {})
             matches == {c \in candidates : c = digest}
             result == IF Gost!SizeRefused \/ ~raw \/ ~gostAnswer.read.ok \/ matches = {}
                       THEN Gost!Failed ELSE [ok |-> TRUE, text |-> digest]
             server == IF Gost!SizeRefused THEN Gost!Failed ELSE Gost!Recover(Gost!Whole)
  <1>1. /\ gostPc = "compare" /\ gostAnswer' = [gostAnswer EXCEPT !.tool = result] /\ gostPc' = "end"
        /\ UNCHANGED <<text, cipher, odd, digest, noise, done, raw, out>>
    BY DEF Gost!ToolRecover
  <1>2. Gost!TypeOK
    BY DEF GostInv
  <1>3. /\ server' = server /\ Gost!Intact' = Gost!Intact /\ Gost!Whole' = Gost!Whole
        /\ ReadExactly' = ReadExactly
    BY <1>1, RecoverFixed DEF Gost!Failed
  <1>4. server' = IF Gost!SizeRefused' THEN Gost!Failed' ELSE Gost!Recover(Gost!Whole)'
    OBVIOUS
  <1>5. /\ odd => gostAnswer.read = Gost!Failed
        /\ ~odd => gostAnswer.read = [ok |-> TRUE, text |-> out]
        /\ ~odd /\ raw => out = Gost!Whole
        /\ Gost!Intact /\ ~raw => ReadExactly
        /\ gostAnswer.server = server
    BY <1>1 DEF GostInv, AnswerInv
  <1>6. result.ok => result.text = digest
    BY DEF Gost!Failed
  <1>7. raw => result = server
    <2>1. CASE Gost!SizeRefused
      BY <2>1
    <2>2. CASE ~Gost!SizeRefused /\ raw
      <3>1. ~odd
        BY <2>2 DEF Gost!SizeRefused
      <3>2. gostAnswer.read.ok /\ out = Gost!Whole
        BY <1>5, <2>2, <3>1
      <3>3. matches = {} <=> ~(digest = out) /\ ~(Gost!MayUnpad(out) /\ digest = Gost!Unpadded(out))
        OBVIOUS
      <3> HIDE DEF matches
      <3>4. result = IF matches = {} THEN Gost!Failed ELSE [ok |-> TRUE, text |-> digest]
        BY <2>2, <3>2
      <3>5. result = Gost!Recover(out)
        BY <3>3, <3>4 DEF Gost!Recover
      <3> QED BY <2>2, <3>2, <3>5
    <2> QED BY <2>1, <2>2
  <1> HIDE DEF result, server
  <1>8. /\ DOMAIN gostAnswer' = {"read", "server", "tool"} /\ gostAnswer'.tool = result
        /\ gostAnswer'.read = gostAnswer.read /\ gostAnswer'.server = gostAnswer.server
    <2>1. DOMAIN gostAnswer = {"read", "server", "tool"}
      BY <1>2 DEF Gost!TypeOK
    <2> QED BY <1>1, <2>1
  <1>9. Gost!TypeOK'
    BY <1>1, <1>2, <1>8 DEF Gost!TypeOK
  <1>10. ReaderInv'
    BY <1>1 DEF ReaderInv
  <1>11. AnswerInv'
    BY <1>1, <1>3, <1>4, <1>5, <1>6, <1>7, <1>8 DEF AnswerInv, Gost!Failed
  <1>12. StoredInv' /\ WriterInv' /\ Len(text') <= MaxSize
    BY <1>1, StoredKept
  <1> QED BY <1>9, <1>10, <1>11, <1>12 DEF GostInv

\* A step of the writer, the reader or a recovery.
LEMMA GostNext ==
  ASSUME GostInv, Gost!Next
  PROVE  GostInv'
  BY GostEncryptBlock, GostEncryptEnds, GostDamage, GostStartReader, GostDecryptBlock,
     GostDecryptLast, GostDecryptEmpty, GostDecryptOdd, GostServerRecover, GostToolRecover
     DEF Gost!Next

\* The other programs leave the file alone.
LEMMA GostQuiet ==
  ASSUME GostInv, UNCHANGED oldFile
  PROVE  GostInv'
  <1>1. UNCHANGED <<gostPc, text, cipher, odd, digest, noise, done, raw, out, gostAnswer>>
    BY DEF oldFile
  <1>2. Gost!TypeOK' /\ Len(text') <= MaxSize
    BY <1>1 DEF GostInv, Gost!TypeOK
  <1>3. Gost!Intact' = Gost!Intact /\ Encrypted' = Encrypted /\ Gost!Whole' = Gost!Whole /\ ReadExactly' = ReadExactly
    BY <1>1 DEF Gost!Intact, Encrypted, Gost!Whole, Gost!Plain, Gost!IV, ReadExactly, Gost!EndsInPadding
  <1>4. WriterInv' /\ StoredInv'
    BY <1>1, <1>3 DEF GostInv, WriterInv, StoredInv
  <1>5. ReaderInv'
    BY <1>1 DEF GostInv, ReaderInv, ByteAt, Gost!Plain, Gost!IV
  <1>6. AnswerInv'
    <2> DEFINE result == IF Gost!SizeRefused THEN Gost!Failed ELSE Gost!Recover(Gost!Whole)
    <2>1. result' = result
      BY <1>1, <1>3 DEF Gost!SizeRefused, Gost!Recover, Gost!Failed, Gost!MayUnpad, Gost!Unpadded,
         Gost!Prefix, Gost!Last, Gost!EndsInPadding
    <2>2. result' = IF Gost!SizeRefused' THEN Gost!Failed' ELSE Gost!Recover(Gost!Whole)'
      OBVIOUS
    <2> QED BY <1>1, <1>3, <2>1, <2>2 DEF GostInv, AnswerInv, Gost!Failed
  <1> QED BY <1>2, <1>4, <1>5, <1>6 DEF GostInv

\* Nothing is written yet.
LEMMA GostInit ==
  ASSUME Init
  PROVE  GostInv
  <1> USE GostAssumed
  <1>1. /\ gostPc = "write" /\ digest = text /\ cipher = <<>> /\ odd = FALSE /\ done = 0
        /\ raw = FALSE /\ out = <<>> /\ gostAnswer = Gost!Nothing
    BY DEF Init, Gost!Init
  <1>2. PICK n \in 0..MaxSize : text \in [1..n -> Gost!Bytes]
    BY DEF Init, Gost!Init, Gost!Texts
  <1>3. text \in Seq(Gost!Bytes) /\ Len(text) = n
    BY <1>2
  <1>4. noise \in Gost!Blocks
    <2>1. noise = [i \in 1..Block |-> 0]
      BY DEF Init, Gost!Init
    <2>2. 0 \in Gost!Bytes
      BY DEF Gost!Bytes
    <2> QED BY <2>1, <2>2 DEF Gost!Blocks
  <1>5. DOMAIN gostAnswer = {"read", "server", "tool"}
    BY <1>1 DEF Gost!Nothing
  <1>6. Len(cipher) = 0 /\ 0 * Block = 0 /\ 1..0 = {}
    BY <1>1
  <1>7. Gost!TypeOK
    <2>1. <<>> \in Seq(Gost!Bytes) /\ cipher \in Seq([prev : {Gost!IV} \cup Gost!Blocks, plain : Gost!Blocks])
      BY <1>1, EmptySeq
    <2>2. done \in Nat /\ done <= Len(text) + Block
      BY <1>1, <1>2, <1>3
    <2>3. text \in Seq(Gost!Bytes) /\ digest \in Seq(Gost!Bytes) /\ out \in Seq(Gost!Bytes)
      BY <1>1, <1>3, <2>1
    <2>4. odd \in BOOLEAN /\ raw \in BOOLEAN
      BY <1>1
    <2> QED BY <1>1, <1>4, <1>5, <2>1, <2>2, <2>3, <2>4 DEF Gost!TypeOK
  <1>8. Encrypted
    BY <1>6 DEF Encrypted
  <1>9. WriterInv /\ StoredInv /\ ReaderInv /\ AnswerInv
    BY <1>1, <1>3, <1>6, <1>8 DEF WriterInv, StoredInv, ReaderInv, AnswerInv
  <1> QED BY <1>2, <1>3, <1>7, <1>9 DEF GostInv

\* What the invariant says of a file that both recoveries have seen.
LEMMA GostHolds ==
  ASSUME GostInv
  PROVE  /\ Gost!TypeOK /\ Gost!OldFilesRecovered /\ Gost!RecoveriesAgree
         /\ Gost!NothingUnverified /\ Gost!ReaderExact
  <1>1. ASSUME gostPc = "end"
        PROVE  /\ odd => gostAnswer.read = Gost!Failed
               /\ ~odd => gostAnswer.read = [ok |-> TRUE, text |-> out]
               /\ Gost!Intact /\ ~raw => ReadExactly
               /\ gostAnswer.server = IF Gost!SizeRefused THEN Gost!Failed ELSE Gost!Recover(Gost!Whole)
               /\ gostAnswer.tool.ok => gostAnswer.tool.text = digest
               /\ raw => gostAnswer.tool = gostAnswer.server
    BY <1>1 DEF GostInv, AnswerInv
  <1>2. Gost!OldFilesRecovered
    BY <1>1, RecoversIntact DEF Gost!OldFilesRecovered
  <1>3. Gost!RecoveriesAgree
    BY <1>1 DEF Gost!RecoveriesAgree
  <1>4. Gost!NothingUnverified
    <2> SUFFICES ASSUME gostPc = "end"
                 PROVE  /\ gostAnswer.server.ok => gostAnswer.server.text = digest
                        /\ gostAnswer.tool.ok => gostAnswer.tool.text = digest
      BY DEF Gost!NothingUnverified
    <2>1. gostAnswer.server.ok => gostAnswer.server.text = digest
      <3>1. ~Gost!Failed.ok
        BY DEF Gost!Failed
      <3> QED BY <1>1, <3>1, RecoverVerified
    <2> QED BY <1>1, <2>1
  <1>5. Gost!ReaderExact
    BY <1>1 DEF Gost!ReaderExact, ReadExactly, Gost!Intact
  <1>6. Gost!TypeOK
    BY DEF GostInv
  <1> QED BY <1>2, <1>3, <1>4, <1>5, <1>6

-----------------------------------------------------------------------------
(* Theorems *)

\* The window's invariant holds.
LEMMA WindowInvariant == Spec => []WindowInv
  <1>1. WindowInv /\ [Next]_vars => WindowInv'
    <2> SUFFICES ASSUME WindowInv, [Next]_vars PROVE WindowInv'
      OBVIOUS
    <2>1. CASE WindowStep
      BY <2>1, WindowNext DEF WindowStep
    <2>2. CASE UNCHANGED window
      BY <2>2, WindowQuiet
    <2>3. WindowStep \/ UNCHANGED window
      BY DEF Next, vars, SearchStep, SnapshotStep, OldFileStep, BindingStep
    <2> QED BY <2>1, <2>2, <2>3
  <1> QED BY <1>1, WindowInit, PTL DEF Spec

\* The search's invariant holds.
LEMMA ScanInvariant == Spec => []ScanInv
  <1>1. ScanInv /\ [Next]_vars => ScanInv'
    <2> SUFFICES ASSUME ScanInv, [Next]_vars PROVE ScanInv'
      OBVIOUS
    <2>1. CASE SearchStep
      BY <2>1, ScanNext DEF SearchStep
    <2>2. CASE UNCHANGED search
      BY <2>2, ScanQuiet
    <2>3. SearchStep \/ UNCHANGED search
      BY DEF Next, vars, WindowStep, SnapshotStep, OldFileStep, BindingStep
    <2> QED BY <2>1, <2>2, <2>3
  <1> QED BY <1>1, ScanInit, PTL DEF Spec

\* The saved list's invariant holds.
LEMMA SnapshotInvariant == Spec => []SnapshotInv
  <1>1. SnapshotInv /\ [Next]_vars => SnapshotInv'
    <2> SUFFICES ASSUME SnapshotInv, [Next]_vars PROVE SnapshotInv'
      OBVIOUS
    <2>1. CASE SnapshotStep
      BY <2>1, SnapshotNext DEF SnapshotStep
    <2>2. CASE UNCHANGED snapshot
      BY <2>2, SnapshotQuiet
    <2>3. SnapshotStep \/ UNCHANGED snapshot
      BY DEF Next, vars, WindowStep, SearchStep, OldFileStep, BindingStep
    <2> QED BY <2>1, <2>2, <2>3
  <1> QED BY <1>1, SnapshotInit, PTL DEF Spec

\* The panels' invariant holds.
LEMMA PanelInvariant == Spec => []PanelInv
  <1>1. PanelInv /\ [Next]_vars => PanelInv'
    <2> SUFFICES ASSUME PanelInv, [Next]_vars PROVE PanelInv'
      OBVIOUS
    <2>1. CASE BindingStep
      BY <2>1, PanelNext DEF BindingStep
    <2>2. CASE UNCHANGED panels
      BY <2>2, PanelQuiet
    <2>3. BindingStep \/ UNCHANGED panels
      BY DEF Next, vars, WindowStep, SearchStep, SnapshotStep, OldFileStep
    <2> QED BY <2>1, <2>2, <2>3
  <1> QED BY <1>1, PanelInit, PTL DEF Spec

\* The old file's invariant holds.
LEMMA GostInvariant == Spec => []GostInv
  <1>1. GostInv /\ [Next]_vars => GostInv'
    <2> SUFFICES ASSUME GostInv, [Next]_vars PROVE GostInv'
      OBVIOUS
    <2>1. CASE OldFileStep
      BY <2>1, GostNext DEF OldFileStep
    <2>2. CASE UNCHANGED oldFile
      BY <2>2, GostQuiet
    <2>3. OldFileStep \/ UNCHANGED oldFile
      BY DEF Next, vars, WindowStep, SearchStep, SnapshotStep, BindingStep
    <2> QED BY <2>1, <2>2, <2>3
  <1> QED BY <1>1, GostInit, PTL DEF Spec

\* The client's window, for any number of files, items and reminders: while it
\* waits with a decrypted file in memory, secure mode is on and no forbidden
\* clipboard content goes unnoticed, every temporary file belongs to an item,
\* and no more than SkipLimit closings pass without a password change.
THEOREM WindowCorrect == Spec => []WindowSafe
  BY WindowInvariant, WindowHolds, PTL

\* The lists of networks, for any number of panels, helpers and collectors: a
\* searched list is newer than its question, a saved one whole and, unless the
\* clock was set back, recent.
THEOREM NetworkListsCorrect == Spec => []NetworkListsSafe
  <1>1. ScanInv /\ SnapshotInv => NetworkListsSafe
    <2>1. ScanInv => Scan!TypeOK /\ Scan!AnswerIsNewer
      BY DEF ScanInv, SearchInv, ScanTypes, SlotInv, Session, Scan!TypeOK
    <2>2. SnapshotInv => Snapshot!TypeOK /\ Snapshot!ServedWhole /\ Snapshot!ServedRecent
      BY DEF SnapshotInv
    <2> QED BY <2>1, <2>2 DEF NetworkListsSafe
  <1> QED BY <1>1, ScanInvariant, SnapshotInvariant, PTL

\* The files of the old utility, for any block length, alphabet and size limit:
\* a file that is still what was written is recovered exactly, both recoveries
\* accept the same files, and neither hands out what the digest does not cover.
THEOREM OldFilesCorrect == Spec => []OldFilesSafe
  <1>1. GostInv => OldFilesSafe
    BY GostHolds DEF OldFilesSafe
  <1> QED BY <1>1, GostInvariant, PTL

\* What no step does, for any number of files, helpers and consoles: drop the
\* data of a torn file, grant two slots within a cool-down, or set the binding
\* policy to the value its operator was shown.
THEOREM StepsCorrect == Spec => StepsSafe
  <1>1. WindowInv /\ [Next]_vars =>
          [\A p \in Paths : disk[p] = "torn" /\ Window!Holds(p) /\ win' # "killed"
                              => Window!Holds(p)' \/ disk'[p] = "enc"]_(Window!vars)
    <2> SUFFICES ASSUME WindowInv, [Next]_vars, ~UNCHANGED Window!vars
                 PROVE  \A p \in Paths : disk[p] = "torn" /\ Window!Holds(p) /\ win' # "killed"
                              => Window!Holds(p)' \/ disk'[p] = "enc"
      OBVIOUS
    <2>1. Window!Next
      BY DEF Next, vars, window, WindowStep, SearchStep, SnapshotStep, OldFileStep,
             BindingStep, Window!vars, Window!docVars, Window!guardVars, Window!accountVars
    <2> QED BY <2>1, WindowStepHolds
  <1>2. ScanInv /\ [Next]_vars =>
          [slot' # slot => slot = 0 \/ slot' >= slot + Cooldown]_(Scan!vars)
    <2> SUFFICES ASSUME ScanInv, [Next]_vars, slot' # slot
                 PROVE  slot = 0 \/ slot' >= slot + Cooldown
      OBVIOUS
    <2>1. Scan!Next
      BY DEF Next, vars, search, WindowStep, SearchStep, SnapshotStep, OldFileStep, BindingStep
    <2> QED BY <2>1, ScanStep
  <1>3. PanelInv /\ [Next]_vars =>
          [\A c \in Consoles :
             (panelPc[c] = "set" /\ panelPc'[c] # "set" /\ enabled' # enabled /\ view[c].known)
               => enabled' # view[c].on]_(Binding!vars)
    <2> SUFFICES ASSUME PanelInv, [Next]_vars, enabled' # enabled, NEW c \in Consoles,
                        panelPc[c] = "set", panelPc'[c] # "set", view[c].known
                 PROVE  enabled' # view[c].on
      OBVIOUS
    <2>1. Binding!Next
      BY DEF Next, vars, panels, WindowStep, SearchStep, SnapshotStep, OldFileStep, BindingStep
    <2> QED BY <2>1, PanelStep
  <1> QED BY <1>1, <1>2, <1>3, WindowInvariant, ScanInvariant, PanelInvariant, PTL
      DEF Spec, StepsSafe, Window!TornKeepsItem, Scan!SlotsApart, Binding!ToggleFollowsView
===============================================================================
