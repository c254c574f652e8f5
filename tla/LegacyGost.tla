------------------------------ MODULE LegacyGost ------------------------------
(***************************************************************************)
(* Files of the historical Kuznechik utility: its writer (gost.c), its     *)
(* reader (decr.c), and the two recoveries that decide with a trusted      *)
(* digest what the writer's ambiguous padding leaves open: the server's    *)
(* (common/src/gost_native.cpp) and the offline tool                       *)
(* (server/tools/recover_legacy_gost.py), which calls the reader.          *)
(*                                                                         *)
(* A byte is a small number.  A ciphertext block is the block it was made  *)
(* from together with the block before it (CBC): read after that block it  *)
(* gives its plaintext, after any other one it gives noise.  The digest is *)
(* free of collisions, so it is the text it was taken of.                  *)
(***************************************************************************)
EXTENDS Naturals, Sequences, SequencesExt

CONSTANTS
  Block,      \* BLOCK_SIZE (16 in the code)
  MaxByte,    \* bytes are 0..MaxByte
  MaxSize     \* largest file the server accepts (100 MiB)

GostAssumption ==
  /\ Block \in Nat \ {0} /\ MaxByte \in Nat /\ MaxSize \in Nat
  /\ MaxByte >= Block  \* a byte can hold the length of the padding

VARIABLES
  pc,
  text,      \* the original file
  cipher,    \* the blocks after the IV
  odd,       \* the file has bytes after its last whole block
  digest,    \* the trusted digest
  noise,     \* what a block read after the wrong one gives
  done,      \* how many blocks or bytes the current loop has handled
  raw,       \* --raw-blocks
  out,       \* what the reader has written
  answer     \* what was recovered, by each

vars == <<pc, text, cipher, odd, digest, noise, done, raw, out, answer>>

Bytes == 0..MaxByte
Texts == UNION {[1..n -> Bytes] : n \in 0..MaxSize}
Blocks == [1..Block -> Bytes]
IV == <<>>
Failed == [ok |-> FALSE, text |-> <<>>]
Nothing == [read |-> Failed, server |-> Failed, tool |-> Failed]

TypeOK ==
  /\ pc \in {"write", "written", "damaged", "read", "recover", "compare", "end"}
  /\ text \in Seq(Bytes) /\ digest \in Seq(Bytes) /\ out \in Seq(Bytes)
  /\ cipher \in Seq([prev : {IV} \cup Blocks, plain : Blocks])
  /\ odd \in BOOLEAN /\ raw \in BOOLEAN /\ noise \in Blocks
  /\ done \in Nat /\ done <= Len(text) + Block
  /\ DOMAIN answer = {"read", "server", "tool"}

Init ==
  /\ pc = "write" /\ text \in Texts /\ digest = text
  /\ cipher = <<>> /\ odd = FALSE /\ done = 0 /\ raw = FALSE
  /\ noise = [i \in 1..Block |-> 0]
  /\ out = <<>> /\ answer = Nothing

-----------------------------------------------------------------------------
(* gost.c *)

Prefix(s, n) == SubSeq(s, 1, n)
Previous == IF cipher = <<>> THEN IV ELSE Last(cipher).plain

\* Only an incomplete block is padded; a multiple of Block gets nothing.
Padded(b) == [i \in 1..Block |-> IF i <= Len(b) THEN b[i] ELSE Block - Len(b)]

\* One turn of the loop of encrypt_file.
EncryptBlock ==
  /\ pc = "write" /\ done < Len(text)
  /\ LET n == IF Len(text) - done < Block THEN Len(text) - done ELSE Block IN
       /\ cipher' = Append(cipher, [prev |-> Previous, plain |-> Padded(SubSeq(text, done + 1, done + n))])
       /\ done' = done + n
  /\ UNCHANGED <<pc, text, odd, digest, noise, raw, out, answer>>

EncryptEnds ==
  /\ pc = "write" /\ done = Len(text)
  /\ pc' = "written" /\ done' = 0
  /\ UNCHANGED <<text, cipher, odd, digest, noise, raw, out, answer>>

\* The stored file or its digest record is not the one that was written: the
\* first block is missing, bytes are missing at the end, or another digest.
Damage ==
  /\ pc = "written" /\ digest = text /\ ~odd
  /\ \/ cipher # <<>> /\ cipher' = Tail(cipher) /\ noise' \in Blocks /\ UNCHANGED <<odd, digest>>
     \/ cipher # <<>> /\ cipher' = Prefix(cipher, Len(cipher) - 1) /\ odd' = TRUE /\ UNCHANGED <<digest, noise>>
     \/ digest' \in {Prefix(text, n) : n \in 0..Len(text)} \ {text} /\ UNCHANGED <<cipher, odd, noise>>
  /\ pc' = "damaged"
  /\ UNCHANGED <<text, done, raw, out, answer>>

-----------------------------------------------------------------------------
(* decr.c *)

StartReader ==
  /\ pc \in {"written", "damaged"}
  /\ pc' = "read" /\ raw' \in BOOLEAN /\ done' = 0 /\ out' = <<>>
  /\ UNCHANGED <<text, cipher, odd, digest, noise, answer>>

\* A block, decrypted and combined with the one before it.
Plain(k) ==
  IF cipher[k].prev = (IF k = 1 THEN IV ELSE cipher[k - 1].plain) THEN cipher[k].plain ELSE noise

\* The last bytes are padding: n times the byte n.
EndsInPadding(s, n) ==
  n \in 1..Len(s) /\ \A i \in (Len(s) - n + 1)..Len(s) : s[i] = n

\* A block with something after it is written as it is.
DecryptBlock ==
  /\ pc = "read" /\ done < Len(cipher)
  /\ done + 1 < Len(cipher) \/ odd
  /\ out' = out \o Plain(done + 1)
  /\ done' = done + 1
  /\ UNCHANGED <<pc, text, cipher, odd, digest, noise, raw, answer>>

Reads(result) ==
  /\ answer' = [answer EXCEPT !.read = result]
  /\ pc' = "recover" /\ done' = 0
  /\ UNCHANGED <<text, cipher, odd, digest, noise, raw>>

\* Wrong on purpose: the last byte alone decides how much is padding.
DecryptLast_Bug ==
  /\ pc = "read" /\ done + 1 = Len(cipher) /\ ~odd
  /\ LET b == Plain(done + 1)
         n == b[Block]
         m == IF ~raw /\ n \in 1..Block THEN Block - n ELSE Block IN
       /\ out' = out \o Prefix(b, m)
       /\ Reads([ok |-> TRUE, text |-> out'])

\* The last block loses what looks like padding, unless --raw-blocks.
DecryptLast ==
  /\ pc = "read" /\ done + 1 = Len(cipher) /\ ~odd
  /\ LET b == Plain(done + 1)
         n == b[Block]
         m == IF ~raw /\ n <= Block /\ EndsInPadding(b, n) THEN Block - n ELSE Block IN
       /\ out' = out \o Prefix(b, m)
       /\ Reads([ok |-> TRUE, text |-> out'])

DecryptEmpty ==
  /\ pc = "read" /\ cipher = <<>> /\ ~odd
  /\ Reads([ok |-> TRUE, text |-> <<>>]) /\ UNCHANGED out

\* An incomplete block: the reader fails and leaves what it has written.
DecryptOdd ==
  /\ pc = "read" /\ odd /\ done = Len(cipher)
  /\ Reads(Failed) /\ UNCHANGED out

-----------------------------------------------------------------------------
(* The recoveries. *)

\* Wrong on purpose: the bound forgets the IV and the padding.
SizeRefused_Bug == odd \/ (Len(cipher) + 1) * Block > MaxSize

\* The checks on the length of the stored file, IV included.
SizeRefused == odd \/ (Len(cipher) + 1) * Block > MaxSize + 2 * Block

\* The plaintext of every block, with the padding still there.
Whole ==
  [i \in 1..(Len(cipher) * Block) |-> Plain((i - 1) \div Block + 1)[((i - 1) % Block) + 1]]

Unpadded(s) == Prefix(s, Len(s) - Last(s))
\* Padding of a whole block never existed in that writer.
MayUnpad(s) == s # <<>> /\ Last(s) < Block /\ EndsInPadding(s, Last(s))

\* Wrong on purpose: what remains without padding is not verified.
Recover_Unverified(s) ==
  IF digest = s THEN [ok |-> TRUE, text |-> s]
  ELSE IF MayUnpad(s) THEN [ok |-> TRUE, text |-> Unpadded(s)]
  ELSE Failed

\* Wrong on purpose: the last byte alone says how much to remove.
Recover_Loose(s) ==
  IF digest = s THEN [ok |-> TRUE, text |-> s]
  ELSE IF s # <<>> /\ Last(s) < Block /\ digest = Unpadded(s) THEN [ok |-> TRUE, text |-> Unpadded(s)]
  ELSE Failed

\* gost_native_recover_legacy: the whole text first, then without padding.
Recover(s) ==
  IF digest = s THEN [ok |-> TRUE, text |-> s]
  ELSE IF MayUnpad(s) /\ digest = Unpadded(s) THEN [ok |-> TRUE, text |-> Unpadded(s)]
  ELSE Failed

ServerRecover ==
  /\ pc = "recover"
  /\ answer' = [answer EXCEPT !.server = IF SizeRefused THEN Failed ELSE Recover(Whole)]
  /\ pc' = "compare"
  /\ UNCHANGED <<text, cipher, odd, digest, noise, done, raw, out>>

\* recover() of the tool: it runs the reader with --raw-blocks and accepts
\* the one candidate whose digest matches.
ToolRecover ==
  /\ pc = "compare"
  /\ LET s == out
         candidates == {s} \cup (IF MayUnpad(s) THEN {Unpadded(s)} ELSE {})
         matches == {c \in candidates : c = digest} IN
       answer' = [answer EXCEPT !.tool =
         IF SizeRefused \/ ~raw \/ ~answer.read.ok \/ matches = {} THEN Failed
         ELSE [ok |-> TRUE, text |-> digest]]
  /\ pc' = "end"
  /\ UNCHANGED <<text, cipher, odd, digest, noise, done, raw, out>>

-----------------------------------------------------------------------------
Next ==
  \/ EncryptBlock \/ EncryptEnds \/ Damage
  \/ StartReader \/ DecryptBlock \/ DecryptLast \/ DecryptEmpty \/ DecryptOdd
  \/ ServerRecover \/ ToolRecover

Spec == Init /\ [][Next]_vars

-----------------------------------------------------------------------------
(* Properties. *)

Intact == digest = text /\ ~odd /\ Len(cipher) * Block >= Len(text)

\* Every file of the old utility up to the size limit is recovered exactly,
\* although its padding is ambiguous.
OldFilesRecovered ==
  pc = "end" /\ Intact =>
    /\ answer.server = [ok |-> TRUE, text |-> text]
    /\ raw => answer.tool = answer.server

\* The two recoveries, written twice, accept the same files.
RecoveriesAgree == pc = "end" /\ raw => answer.tool = answer.server

\* Nothing is handed out that the trusted digest does not cover.
NothingUnverified ==
  pc = "end" => \A who \in {"server", "tool"} : answer[who].ok => answer[who].text = digest

\* The old reader alone returns the original, except for a whole number of
\* blocks whose end looks like padding: what the recoveries exist for.
ReaderExact ==
  pc = "end" /\ Intact /\ ~raw =>
    \/ answer.read = [ok |-> TRUE, text |-> text]
    \/ Len(text) % Block = 0 /\ \E n \in 1..Block : EndsInPadding(text, n)
===============================================================================
