------------------------- MODULE EncryptedFileProofs -------------------------
(***************************************************************************)
(* The safety of EncryptedFile, for any number of clients, files and       *)
(* encryptions and whatever the disks do.                                  *)
(***************************************************************************)
EXTENDS EncryptedFile, TLAPS

\* Identifiers drawn by an encryption.
Drawn == 1..(nextId - 1)

\* The encryptions that can be undone, unless the server's disk lost something
\* of them.  A legacy file depends on its sidecars instead.
Sound == LegacyPaths \cup {i \in Drawn : i \in lost \/ Openable(i)}

\* A complete encrypted file is made under a sound identifier.
Fine(f) == f.tag = "enc" => f.data \in Sound

\* Whatever stands on the disk was drawn, and is complete only when sound.
DiskInv ==
  \A p \in Paths : /\ Fine(disk[p])
                   /\ disk[p].tag \in Cuts => disk[p].data \in Drawn

\* The same of the data inside every encryption that was made.
SealedInv == \A i \in Used : Fine(sealed[i])

\* The legacy file of path p has been overwritten.
Replaced(p) == p \in LegacyPaths => disk[p] # Enc(p)

\* What a client holds between the steps of a request: sound data going to the
\* server, a sound identifier of its own coming back, and the true contents.
OpInv(c) ==
  /\ op[c].pc = "encrypt" => Fine(op[c].data)
  /\ op[c].pc \in {"sealed", "writing"} => op[c].id \in Drawn /\ op[c].id \in Sound
  /\ op[c].pc \in {"writing", "cph", "key"} => Replaced(op[c].path)
  /\ op[c].pc = "decrypt" => op[c].id \in Used
  /\ op[c].pc = "opened" => op[c].id \in Used /\ op[c].data = sealed[op[c].id]

\* What a client keeps decrypted is what was sealed.
HeldInv(c) ==
  held[c] # Nothing => held[c].id \in Used /\ held[c].data = sealed[held[c].id]

IInv ==
  /\ DiskInv
  /\ SealedInv
  /\ LegacyKeepsSidecars
  /\ \A c \in Clients : OpInv(c) /\ HeldInv(c)

-----------------------------------------------------------------------------
(* Contents and requests *)

\* The kinds of contents are apart, and each names one encryption.
LEMMA ContentKinds ==
  /\ \A i : Enc(i).tag = "enc" /\ Enc(i).data = i
  /\ \A p : Plain(p).tag = "plain"
  /\ \A i, w : Cut(i, w).tag = w /\ Cut(i, w).data = i
  /\ Garbage.tag = "garbage"
  /\ \A w \in Cuts : w \notin {"enc", "plain", "garbage"}
  BY DEF Enc, Plain, Cut, Garbage, Cuts

\* What the contents of a file are built from.
LEMMA ContentTypes ==
  /\ \A p \in Paths : Plain(p) \in Contents
  /\ \A i \in Ids : Enc(i) \in Contents
  /\ \A i \in Ids, w \in Cuts : Cut(i, w) \in Contents
  /\ Garbage \in Contents
  BY DEF Contents

\* A file whose header names an encryption names one that exists.
LEMMA ContentIds ==
  ASSUME NEW f \in Contents, f.tag = "enc" \/ f.tag \in Cuts
  PROVE  f.data \in Ids
  BY ContentKinds DEF Contents

\* Numbers and paths are never confused.
LEMMA IdKinds ==
  ASSUME TypeOK
  PROVE  /\ Drawn \subseteq 1..MaxId /\ Drawn \subseteq Ids /\ Used \subseteq Ids
         /\ Drawn \subseteq Used /\ LegacyPaths \subseteq Used
         /\ \A i \in Drawn : i \notin Paths /\ i \notin LegacyPaths /\ i # nextId
         /\ \A i \in Used : i # nextId
         /\ nextId \in Nat
  BY FileAssumption DEF TypeOK, Drawn, Used, Ids

\* The fields of a request in each of its states.
LEMMA OpFields ==
  ASSUME TypeOK, NEW c \in Clients
  PROVE  /\ op[c].pc = "encrypt" =>
              op[c].path \in Paths /\ op[c].data \in Contents /\ op[c].meta \in Meta
         /\ op[c].pc \in {"sealed", "writing", "cph", "key"} =>
              /\ op[c].path \in Paths /\ op[c].id \in Ids
              /\ op[c] = [pc |-> op[c].pc, path |-> op[c].path, id |-> op[c].id]
         /\ op[c].pc = "decrypt" =>
              op[c].path \in Paths /\ op[c].id \in Ids /\ op[c].ct \in Contents
         /\ op[c].pc = "opened" =>
              op[c].path \in Paths /\ op[c].id \in Ids /\ op[c].data \in Contents
  <1>1. op[c] \in Ops
    BY DEF TypeOK
  <1> QED BY <1>1 DEF Ops, None

\* The requests the program builds.
LEMMA OpTypes ==
  /\ None \in Ops /\ [pc |-> "failed"] \in Ops
  /\ \A p \in Paths, d \in Contents, m \in Meta :
       [pc |-> "encrypt", path |-> p, data |-> d, meta |-> m] \in Ops
  /\ \A s \in {"sealed", "writing", "cph", "key"}, p \in Paths, i \in Ids :
       [pc |-> s, path |-> p, id |-> i] \in Ops
  /\ \A p \in Paths, i \in Ids, d \in Contents :
       [pc |-> "decrypt", path |-> p, ct |-> d, id |-> i] \in Ops
  /\ \A p \in Paths, i \in Ids, d \in Contents :
       [pc |-> "opened", path |-> p, id |-> i, data |-> d] \in Ops
  BY DEF Ops

\* The fields of a decryption in memory.
LEMMA HeldFields ==
  ASSUME TypeOK, NEW c \in Clients, held[c] # Nothing
  PROVE  held[c].path \in Paths /\ held[c].id \in Ids /\ held[c].data \in Contents
  <1>1. held[c] \in Held
    BY DEF TypeOK
  <1> QED BY <1>1 DEF Held

-----------------------------------------------------------------------------
(* What a step leaves alone *)

\* The server only ever adds: no step touches an encryption that was made.
ServerGrows ==
  /\ nextId' \in Nat /\ nextId <= nextId'
  /\ lost \subseteq lost' /\ keys \subseteq keys' /\ hashes \subseteq hashes'
  /\ \A i \in Used : meta'[i] = meta[i] /\ sealed'[i] = sealed[i]

\* What was drawn stays drawn, and what was sound stays sound.
LEMMA SoundStays ==
  ASSUME TypeOK, ServerGrows
  PROVE  /\ Drawn \subseteq Drawn' /\ Used \subseteq Used'
         /\ \A i : i \in Sound => i \in Sound'
  <1>1. Drawn \subseteq Drawn' /\ Used \subseteq Used'
    BY IdKinds DEF ServerGrows, Drawn, Used
  <1>2. ASSUME NEW i, i \in Sound
        PROVE  i \in Sound'
    <2>1. CASE i \in LegacyPaths
      BY <2>1 DEF Sound
    <2>2. CASE i \in Drawn /\ i \in lost
      BY <1>1, <2>2 DEF Sound, ServerGrows
    <2>3. CASE i \in Drawn /\ Openable(i)
      <3>1. meta'[i] = meta[i]
        BY <2>3, IdKinds DEF ServerGrows
      <3>2. Openable(i)'
        BY <2>3, <3>1 DEF Openable, KeyFound, ServerGrows
      <3> QED BY <1>1, <2>3, <3>2 DEF Sound
    <2> QED BY <1>2, <2>1, <2>2, <2>3 DEF Sound
  <1> QED BY <1>1, <1>2

\* Contents stay fine.
LEMMA FineStays ==
  ASSUME TypeOK, ServerGrows, NEW f, Fine(f)
  PROVE  f.tag = "enc" => f.data \in Sound'
  BY SoundStays DEF Fine

\* A step that leaves the server alone is the simplest case.
LEMMA SameServer ==
  ASSUME TypeOK, UNCHANGED server
  PROVE  ServerGrows
  BY IdKinds DEF ServerGrows, server

\* Sealed contents stay fine when the server stays.
LEMMA SealedStays ==
  ASSUME TypeOK, SealedInv, UNCHANGED server
  PROVE  SealedInv'
  BY DEF SealedInv, Fine, Sound, Used, Drawn, Openable, KeyFound, server

\* The files stay fine when nobody writes them.
LEMMA DiskStays ==
  ASSUME TypeOK, DiskInv, ServerGrows, UNCHANGED disk
  PROVE  DiskInv'
  <1>1. ASSUME NEW p \in Paths
        PROVE  /\ disk[p].tag = "enc" => disk[p].data \in Sound'
               /\ disk[p].tag \in Cuts => disk[p].data \in Drawn'
    BY FineStays, SoundStays DEF DiskInv
  <1> QED BY <1>1 DEF DiskInv, Fine

\* A step of client c concerns another client's request only through the
\* files, and a legacy file that is gone does not come back.
LEMMA OthersStay ==
  ASSUME TypeOK, ServerGrows, NEW d \in Clients, OpInv(d), HeldInv(d),
         op'[d] = op[d], held'[d] = held[d],
         \A p \in Paths : Replaced(p) => Replaced(p)'
  PROVE  OpInv(d)' /\ HeldInv(d)'
  <1>1. /\ op[d].pc = "encrypt" => Fine(op[d].data)'
        /\ op[d].pc \in {"sealed", "writing"} => op[d].id \in Drawn' /\ op[d].id \in Sound'
    BY FineStays, SoundStays DEF OpInv, Fine
  <1>2. op[d].pc \in {"writing", "cph", "key"} => Replaced(op[d].path)'
    BY OpFields DEF OpInv
  <1>3. /\ op[d].pc = "decrypt" => op[d].id \in Used'
        /\ op[d].pc = "opened" => op[d].id \in Used' /\ op[d].data = sealed'[op[d].id]
        /\ held[d] # Nothing => held[d].id \in Used' /\ held[d].data = sealed'[held[d].id]
    BY SoundStays DEF OpInv, HeldInv, ServerGrows
  <1>4. OpInv(d)'
    BY <1>1, <1>2, <1>3 DEF OpInv, Fine, Replaced
  <1>5. HeldInv(d)'
    BY <1>3 DEF HeldInv
  <1> QED BY <1>4, <1>5

\* A step of client c, put together.
LEMMA StepOf ==
  ASSUME TypeOK, IInv, NEW c \in Clients, ServerGrows,
         \A d \in Clients \ {c} : op'[d] = op[d] /\ held'[d] = held[d],
         \A p \in Paths : Replaced(p) => Replaced(p)',
         DiskInv', SealedInv', LegacyKeepsSidecars', OpInv(c)', HeldInv(c)'
  PROVE  IInv'
  BY OthersStay DEF IInv

\* A step of client c that only concerns its own request.
LEMMA RequestStep ==
  ASSUME TypeOK, IInv, NEW c \in Clients, NEW o, op' = [op EXCEPT ![c] = o],
         UNCHANGED <<disk, sidecars, server, held>>, OpInv(c)'
  PROVE  IInv'
  <1>1. /\ \A d \in Clients \ {c} : op'[d] = op[d] /\ held'[d] = held[d]
        /\ held'[c] = held[c] /\ ServerGrows
    BY SameServer DEF TypeOK
  <1>2. \A p \in Paths : Replaced(p) => Replaced(p)'
    BY DEF Replaced
  <1>3. DiskInv' /\ SealedInv'
    BY <1>1, DiskStays, SealedStays DEF IInv
  <1>4. LegacyKeepsSidecars'
    BY DEF IInv, LegacyKeepsSidecars, server, sidecars
  <1>5. HeldInv(c)'
    BY <1>1, SoundStays DEF IInv, HeldInv, ServerGrows
  <1> QED BY <1>1, <1>2, <1>3, <1>4, <1>5, StepOf

-----------------------------------------------------------------------------
(* The steps *)

\* A request put in place of another has its type, and nothing else moves.
LEMMA RequestTypes ==
  ASSUME TypeOK, NEW c \in Clients, NEW o \in Ops, op' = [op EXCEPT ![c] = o],
         UNCHANGED <<disk, sidecars, server, held>>
  PROVE  TypeOK' /\ op'[c] = o
  BY DEF TypeOK, sidecars, server

\* encrypt_file sends what stands on the disk, which is fine.
LEMMA EncryptFileInv ==
  ASSUME TypeOK, IInv, NEW c \in Clients, NEW p \in Paths, NEW m \in Chosen,
         EncryptFile(c, p, m)
  PROVE  TypeOK' /\ IInv'
  <1> DEFINE o == [pc |-> "encrypt", path |-> p, data |-> disk[p], meta |-> m]
  <1>1. /\ op' = [op EXCEPT ![c] = o]
        /\ UNCHANGED <<disk, sidecars, server, held>>
    BY DEF EncryptFile
  <1>2. o \in Ops
    BY OpTypes, FileAssumption DEF TypeOK, Meta, Storages, Ciphers
  <1>3. o.pc = "encrypt" /\ o.data = disk[p]
    OBVIOUS
  <1> HIDE DEF o
  <1>4. TypeOK' /\ op'[c] = o
    BY <1>1, <1>2, RequestTypes
  <1>5. Fine(disk[p])'
    BY <1>1, FineStays, SameServer DEF IInv, DiskInv, Fine
  <1>6. OpInv(c)'
    BY <1>1, <1>3, <1>4, <1>5 DEF OpInv, Fine
  <1> QED BY <1>1, <1>4, <1>6, RequestStep

\* encrypt_data sends what was decrypted, which is fine because it was sealed.
LEMMA EncryptDataInv ==
  ASSUME TypeOK, IInv, NEW c \in Clients, EncryptData(c)
  PROVE  TypeOK' /\ IInv'
  <1> DEFINE old == meta[held[c].id]
             m == [st |-> old.st, cipher |-> IF old.cipher = "gost" THEN "aead" ELSE old.cipher]
             o == [pc |-> "encrypt", path |-> held[c].path, data |-> held[c].data, meta |-> m]
  <1>1. /\ op' = [op EXCEPT ![c] = o]
        /\ UNCHANGED <<disk, sidecars, server, held>>
        /\ held[c] # Nothing
    BY DEF EncryptData
  <1>2. o \in Ops
    <2>1. m \in Meta
      BY <1>1, HeldFields DEF TypeOK, Meta, Storages, Ciphers
    <2> QED BY <1>1, <2>1, HeldFields, OpTypes
  <1>3. o.pc = "encrypt" /\ o.data = held[c].data
    OBVIOUS
  <1> HIDE DEF o
  <1>4. TypeOK' /\ op'[c] = o
    BY <1>1, <1>2, RequestTypes
  <1>5. Fine(held[c].data)
    BY <1>1 DEF IInv, HeldInv, SealedInv
  <1>6. OpInv(c)'
    BY <1>1, <1>3, <1>4, <1>5, FineStays, SameServer DEF OpInv, Fine
  <1> QED BY <1>1, <1>4, <1>6, RequestStep

\* The request ends in an error or is forgotten.
LEMMA RequestEndsInv ==
  ASSUME TypeOK, IInv, NEW c \in Clients,
         RequestLost(c) \/ EncryptRefused(c) \/ ErrorShown(c) \/ OpenFails(c)
  PROVE  TypeOK' /\ IInv'
  <1>1. PICK o \in {None, [pc |-> "failed"]} :
          /\ op' = [op EXCEPT ![c] = o]
          /\ UNCHANGED <<disk, sidecars, server, held>>
    BY DEF RequestLost, EncryptRefused, ErrorShown, OpenFails
  <1>2. o \in Ops /\ o.pc \in {"idle", "failed"}
    BY OpTypes DEF None
  <1>3. TypeOK' /\ op'[c] = o
    BY <1>1, <1>2, RequestTypes
  <1>4. OpInv(c)'
    BY <1>2, <1>3 DEF OpInv
  <1> QED BY <1>1, <1>3, <1>4, RequestStep

\* decrypt_file asks for the encryption that the header, or the path, names.
LEMMA MetadataUsed ==
  ASSUME TypeOK, IInv, NEW p \in Paths, NEW i \in Metadata(p)
  PROVE  i \in Used
  <1>1. CASE i \in HeaderMetadata(disk[p]) /\ Embedded(disk[p])
    <2>1. i = disk[p].data
      BY <1>1 DEF HeaderMetadata
    <2>2. disk[p].tag \in Cuts => i \in Drawn
      BY <2>1 DEF IInv, DiskInv
    <2>3. disk[p].tag = "enc" => i \in LegacyPaths \/ i \in Drawn
      BY <2>1 DEF IInv, DiskInv, Fine, Sound
    <2> QED BY <1>1, <2>2, <2>3, IdKinds DEF Embedded, Cuts
  <1>2. CASE i \in SidecarMetadata(p)
    BY <1>2, IdKinds DEF SidecarMetadata
  <1> QED BY <1>1, <1>2 DEF Metadata

\* decrypt_file sends the file under an identifier in use, or gives up.
LEMMA DecryptFileInv ==
  ASSUME TypeOK, IInv, NEW c \in Clients, NEW p \in Paths, DecryptFile(c, p)
  PROVE  TypeOK' /\ IInv'
  <1> DEFINE i == CHOOSE j \in Metadata(p) : TRUE
             o == IF Metadata(p) = {} THEN [pc |-> "failed"]
                  ELSE [pc |-> "decrypt", path |-> p, ct |-> disk[p], id |-> i]
  <1>1. /\ op' = [op EXCEPT ![c] = o]
        /\ UNCHANGED <<disk, sidecars, server, held>>
    BY DEF DecryptFile
  <1>2. Metadata(p) # {} => i \in Used
    BY MetadataUsed
  <1> HIDE DEF i
  <1>3. o \in Ops
    BY <1>2, OpTypes, IdKinds DEF TypeOK
  <1>4. o.pc \in {"failed", "decrypt"} /\ (o.pc = "decrypt" => o.id \in Used)
    BY <1>2
  <1> HIDE DEF o
  <1>5. TypeOK' /\ op'[c] = o
    BY <1>1, <1>3, RequestTypes
  <1>6. OpInv(c)'
    BY <1>1, <1>4, <1>5, SoundStays, SameServer DEF OpInv
  <1> QED BY <1>1, <1>5, <1>6, RequestStep

\* handle_decrypt answers only with what was sealed.
LEMMA ServerDecryptInv ==
  ASSUME TypeOK, IInv, NEW c \in Clients, ServerDecrypt(c)
  PROVE  TypeOK' /\ IInv'
  <1>1. UNCHANGED <<disk, sidecars, server, held>> /\ op[c].pc = "decrypt"
    BY DEF ServerDecrypt
  <1>2. CASE op' = [op EXCEPT ![c] = [pc |-> "failed"]]
    <2> DEFINE o == [pc |-> "failed"]
    <2>1. o \in Ops /\ o.pc = "failed"
      BY OpTypes
    <2> HIDE DEF o
    <2>2. TypeOK' /\ op'[c] = o
      BY <1>1, <1>2, <2>1, RequestTypes DEF o
    <2>3. OpInv(c)'
      BY <2>1, <2>2 DEF OpInv
    <2> QED BY <1>1, <1>2, <2>2, <2>3, RequestStep
  <1>3. ASSUME NEW data, HashMatches(op[c].id, data),
               op' = [op EXCEPT ![c] = [pc |-> "opened", path |-> op[c].path,
                                        id |-> op[c].id, data |-> data]]
        PROVE  TypeOK' /\ IInv'
    <2> DEFINE o == [pc |-> "opened", path |-> op[c].path, id |-> op[c].id, data |-> data]
    <2>1. data = sealed[op[c].id] /\ op[c].id \in Used
      BY <1>1, <1>3 DEF HashMatches, IInv, OpInv
    <2>2. o \in Ops
      BY <1>1, <2>1, OpFields, OpTypes DEF TypeOK
    <2>3. o.pc = "opened" /\ o.id \in Used /\ o.data = sealed[o.id]
      BY <2>1
    <2>4. op' = [op EXCEPT ![c] = o]
      BY <1>3
    <2> HIDE DEF o
    <2>5. TypeOK' /\ op'[c] = o
      BY <1>1, <2>2, <2>4, RequestTypes
    <2>6. OpInv(c)'
      BY <1>1, <2>3, <2>5, SoundStays, SameServer DEF OpInv, ServerGrows
    <2> QED BY <1>1, <2>4, <2>5, <2>6, RequestStep
  <1> QED BY <1>2, <1>3 DEF ServerDecrypt

\* Steps that change what the client has in memory.
LEMMA MemoryStep ==
  ASSUME TypeOK, IInv, NEW c \in Clients, Decrypted(c) \/ ClientCrash(c)
  PROVE  TypeOK' /\ IInv'
  <1>1. PICK h \in Held :
          /\ held' = [held EXCEPT ![c] = h]
          /\ h # Nothing => h.id \in Used /\ h.data = sealed[h.id]
    <2>1. CASE Decrypted(c)
      <3> DEFINE h == [path |-> op[c].path, id |-> op[c].id, data |-> op[c].data]
      <3>1. op[c].pc = "opened" /\ held' = [held EXCEPT ![c] = h]
        BY <2>1 DEF Decrypted
      <3>2. h \in Held
        BY <3>1, OpFields DEF Held
      <3>3. h.id \in Used /\ h.data = sealed[h.id]
        BY <3>1 DEF IInv, OpInv
      <3> QED BY <3>1, <3>2, <3>3
    <2>2. CASE ClientCrash(c)
      BY <2>2 DEF ClientCrash, Held
    <2> QED BY <2>1, <2>2
  <1>2. op' = [op EXCEPT ![c] = None] /\ UNCHANGED <<disk, sidecars, server>>
    BY DEF Decrypted, ClientCrash
  <1>3. TypeOK'
    BY <1>1, <1>2, OpTypes DEF TypeOK, sidecars, server
  <1>4. /\ \A d \in Clients \ {c} : op'[d] = op[d] /\ held'[d] = held[d]
        /\ held'[c] = h /\ op'[c] = None /\ ServerGrows
    BY <1>1, <1>2, SameServer DEF TypeOK
  <1>5. \A p \in Paths : Replaced(p) => Replaced(p)'
    BY <1>2 DEF Replaced
  <1>6. DiskInv' /\ SealedInv'
    BY <1>2, <1>4, DiskStays, SealedStays DEF IInv
  <1>7. LegacyKeepsSidecars'
    BY <1>2 DEF IInv, LegacyKeepsSidecars, server, sidecars
  <1>8. OpInv(c)'
    BY <1>4 DEF OpInv, None
  <1>9. HeldInv(c)'
    BY <1>1, <1>4, SoundStays DEF HeldInv, ServerGrows
  <1> QED BY <1>3, <1>4, <1>5, <1>6, <1>7, <1>8, <1>9, StepOf

\* write_file puts something made by encryption i, complete or not, in the
\* place of a file.  A legacy file that is overwritten is gone.
LEMMA DiskWrite ==
  ASSUME TypeOK, IInv, NEW p \in Paths, NEW i \in Drawn, i \in Sound, UNCHANGED server,
         NEW f, disk' = [disk EXCEPT ![p] = f],
         f = Enc(i) \/ \E w \in Cuts : f = Cut(i, w)
  PROVE  /\ disk' \in [Paths -> Contents]
         /\ DiskInv'
         /\ \A q \in Paths : Replaced(q) => Replaced(q)'
         /\ Replaced(p)'
         /\ \A q \in LegacyPaths : disk'[q] = Enc(q) => disk[q] = Enc(q)
  <1>1. i \in Ids /\ i \notin LegacyPaths
    BY IdKinds
  <1>2. f \in Contents
    BY <1>1, ContentTypes
  <1>3. /\ f.tag = "enc" \/ f.tag \in Cuts
        /\ f.data = i
        /\ \A q \in LegacyPaths : f # Enc(q)
    BY <1>1, ContentKinds
  <1>4. ServerGrows
    BY SameServer
  <1>5. \A q \in Paths : disk'[q] = IF q = p THEN f ELSE disk[q]
    BY DEF TypeOK
  <1>6. DiskInv'
    <2>1. ASSUME NEW q \in Paths
          PROVE  /\ disk'[q].tag = "enc" => disk'[q].data \in Sound'
                 /\ disk'[q].tag \in Cuts => disk'[q].data \in Drawn'
      BY <1>3, <1>4, <1>5, SoundStays DEF IInv, DiskInv, Fine
    <2> QED BY <2>1 DEF DiskInv, Fine
  <1>7. /\ \A q \in Paths : Replaced(q) => Replaced(q)'
        /\ Replaced(p)'
        /\ \A q \in LegacyPaths : disk'[q] = Enc(q) => disk[q] = Enc(q)
    BY <1>3, <1>5, FileAssumption DEF Replaced
  <1> QED BY <1>2, <1>6, <1>7 DEF TypeOK

\* Moving a request on keeps its path and its identifier.
LEMMA Advance ==
  ASSUME TypeOK, NEW c \in Clients, op[c].pc \in {"sealed", "writing", "cph", "key"},
         NEW s \in {"writing", "cph", "key"}, op' = [op EXCEPT ![c].pc = s]
  PROVE  \E o \in Ops : /\ op' = [op EXCEPT ![c] = o]
                        /\ o.pc = s /\ o.path = op[c].path /\ o.id = op[c].id
  <1> DEFINE r == op[c]
             o == [r EXCEPT !.pc = s]
  <1>1. /\ r.path \in Paths /\ r.id \in Ids
        /\ r = [pc |-> r.pc, path |-> r.path, id |-> r.id]
    BY OpFields
  <1>2. op' = [op EXCEPT ![c] = o]
    OBVIOUS
  <1> HIDE DEF r
  <1>3. o = [pc |-> s, path |-> r.path, id |-> r.id]
    BY <1>1
  <1>4. o \in Ops /\ o.pc = s /\ o.path = r.path /\ o.id = r.id
    BY <1>1, <1>3, OpTypes
  <1> HIDE DEF o
  <1> QED BY <1>2, <1>4 DEF r

\* The steps of write_file.
LEMMA WriteInv ==
  ASSUME TypeOK, IInv, NEW c \in Clients, Truncate(c) \/ WriteFile(c) \/ WriteFails(c)
  PROVE  TypeOK' /\ IInv'
  <1>1. op[c].pc \in {"sealed", "writing"} /\ UNCHANGED <<sidecars, server, held>>
    BY DEF Truncate, WriteFile, WriteFails
  <1>2. PICK p \in Paths, i \in Drawn : p = op[c].path /\ i = op[c].id /\ i \in Sound
    BY <1>1, OpFields DEF IInv, OpInv
  <1>3. PICK f : /\ disk' = [disk EXCEPT ![p] = f]
                 /\ f = Enc(i) \/ \E w \in Cuts : f = Cut(i, w)
    BY <1>2 DEF Truncate, WriteFile, WriteFails, Cuts
  <1>4. PICK o \in Ops : /\ op' = [op EXCEPT ![c] = o]
                         /\ \/ o = None
                            \/ o.pc \in {"writing", "cph"} /\ o.path = p /\ o.id = i
    <2>1. CASE WriteFails(c)
      BY <2>1, OpTypes DEF WriteFails
    <2>2. CASE ~WriteFails(c)
      <3>1. PICK s \in {"writing", "cph"} : op' = [op EXCEPT ![c].pc = s]
        BY <2>2 DEF Truncate, WriteFile
      <3> QED BY <1>1, <1>2, <3>1, Advance
    <2> QED BY <2>1, <2>2
  <1>5. /\ disk' \in [Paths -> Contents]
        /\ DiskInv'
        /\ \A q \in Paths : Replaced(q) => Replaced(q)'
        /\ Replaced(p)'
        /\ \A q \in LegacyPaths : disk'[q] = Enc(q) => disk[q] = Enc(q)
    BY <1>1, <1>2, <1>3, DiskWrite
  <1>6. /\ \A d \in Clients \ {c} : op'[d] = op[d] /\ held'[d] = held[d]
        /\ held'[c] = held[c] /\ op'[c] = o /\ ServerGrows
    BY <1>1, <1>4, SameServer DEF TypeOK
  <1>7. TypeOK'
    BY <1>1, <1>4, <1>5 DEF TypeOK, sidecars, server
  <1>8. SealedInv'
    BY <1>1, SealedStays DEF IInv
  <1>9. LegacyKeepsSidecars'
    BY <1>1, <1>5 DEF IInv, LegacyKeepsSidecars, server, sidecars
  <1>10. HeldInv(c)'
    BY <1>6, SoundStays DEF IInv, HeldInv, ServerGrows
  <1>11. OpInv(c)'
    <2>1. i \in Drawn' /\ i \in Sound'
      BY <1>2, <1>6, SoundStays
    <2>2. CASE o = None
      BY <1>6, <2>2 DEF OpInv, None
    <2>3. CASE o.pc \in {"writing", "cph"} /\ o.path = p /\ o.id = i
      BY <1>5, <1>6, <2>1, <2>3 DEF OpInv, Replaced
    <2> QED BY <1>4, <2>2, <2>3
  <1> QED BY <1>5, <1>6, <1>7, <1>8, <1>9, <1>10, <1>11, StepOf

\* fs::remove of the sidecars, after the legacy file has been overwritten.
LEMMA RemoveInv ==
  ASSUME TypeOK, IInv, NEW c \in Clients, RemoveCph(c) \/ RemoveKey(c)
  PROVE  TypeOK' /\ IInv'
  <1>1. op[c].pc \in {"cph", "key"} /\ UNCHANGED <<disk, server, held>>
    BY DEF RemoveCph, RemoveKey
  <1>2. PICK p \in Paths : p = op[c].path /\ Replaced(p)
    BY <1>1, OpFields DEF IInv, OpInv
  <1>3. /\ cph' \subseteq cph /\ cph \subseteq cph' \cup {p}
        /\ keyFile' \subseteq keyFile /\ keyFile \subseteq keyFile' \cup {p}
    BY <1>2 DEF RemoveCph, RemoveKey
  <1>4. PICK o \in Ops : /\ op' = [op EXCEPT ![c] = o]
                         /\ o = None \/ (o.pc = "key" /\ o.path = p)
    <2>1. CASE RemoveKey(c)
      BY <2>1, OpTypes DEF RemoveKey
    <2>2. CASE RemoveCph(c)
      <3>1. op' = [op EXCEPT ![c].pc = "key"]
        BY <2>2 DEF RemoveCph
      <3> QED BY <1>1, <1>2, <3>1, Advance
    <2> QED BY <2>1, <2>2
  <1>5. /\ \A d \in Clients \ {c} : op'[d] = op[d] /\ held'[d] = held[d]
        /\ held'[c] = held[c] /\ op'[c] = o /\ ServerGrows
    BY <1>1, <1>4, SameServer DEF TypeOK
  <1>6. TypeOK'
    BY <1>1, <1>3, <1>4 DEF TypeOK, server
  <1>7. \A q \in Paths : Replaced(q) => Replaced(q)'
    BY <1>1 DEF Replaced
  <1>8. DiskInv' /\ SealedInv'
    BY <1>1, <1>5, DiskStays, SealedStays DEF IInv
  <1>9. LegacyKeepsSidecars'
    BY <1>1, <1>2, <1>3 DEF IInv, LegacyKeepsSidecars, Replaced, server
  <1>10. HeldInv(c)'
    BY <1>5, SoundStays DEF IInv, HeldInv, ServerGrows
  <1>11. OpInv(c)'
    BY <1>2, <1>4, <1>5, <1>7 DEF OpInv, None, Replaced
  <1> QED BY <1>5, <1>6, <1>7, <1>8, <1>9, <1>10, <1>11, StepOf

\* CryptoEngine::encrypt draws an identifier nobody has: what was made before
\* stays, and the new encryption holds the fine data of the request.
LEMMA SealGrows ==
  ASSUME TypeOK, IInv, NEW c \in Clients, op[c].pc = "encrypt", nextId <= MaxId,
         Seal(nextId, op[c].data, op[c].meta),
         lost \subseteq lost', keys \subseteq keys', hashes \subseteq hashes'
  PROVE  /\ nextId \in 1..MaxId /\ nextId \in Ids /\ nextId \notin LegacyPaths
         /\ nextId' \in 1..(MaxId + 1) /\ nextId \in Drawn'
         /\ meta' \in [Ids -> Meta] /\ sealed' \in [Ids -> Contents]
         /\ meta'[nextId] = op[c].meta
         /\ ServerGrows
         /\ SealedInv'
  <1>1. /\ nextId \in 1..MaxId /\ nextId \in Ids /\ nextId \notin LegacyPaths
        /\ nextId' = nextId + 1 /\ nextId' \in 1..(MaxId + 1)
    BY FileAssumption DEF TypeOK, Seal, Ids
  <1>2. nextId \in Drawn' /\ Used' = Used \cup {nextId}
    BY <1>1 DEF Drawn, Used
  <1>3. op[c].data \in Contents /\ op[c].meta \in Meta /\ Fine(op[c].data)
    BY OpFields DEF IInv, OpInv
  <1>4. meta' = [meta EXCEPT ![nextId] = op[c].meta]
    BY DEF Seal
  <1>5. sealed' = [sealed EXCEPT ![nextId] = op[c].data]
    BY DEF Seal
  <1>6. /\ meta' \in [Ids -> Meta] /\ sealed' \in [Ids -> Contents]
        /\ meta'[nextId] = op[c].meta /\ sealed'[nextId] = op[c].data
        /\ \A i \in Ids \ {nextId} : meta'[i] = meta[i] /\ sealed'[i] = sealed[i]
    BY <1>1, <1>3, <1>4, <1>5 DEF TypeOK
  <1>7. ServerGrows
    <2>1. nextId' \in Nat /\ nextId <= nextId'
      BY <1>1, IdKinds
    <2>2. \A i \in Used : i \in Ids \ {nextId}
      BY IdKinds
    <2> QED BY <1>6, <2>1, <2>2 DEF ServerGrows
  <1>8. SealedInv'
    <2>1. ASSUME NEW i \in Used'
          PROVE  sealed'[i].tag = "enc" => sealed'[i].data \in Sound'
      <3>1. CASE i = nextId
        BY <1>3, <1>6, <1>7, <3>1, FineStays
      <3>2. CASE i \in Used
        BY <1>7, <3>2, FineStays DEF IInv, SealedInv, ServerGrows
      <3> QED BY <1>2, <2>1, <3>1, <3>2
    <2> QED BY <2>1 DEF SealedInv, Fine
  <1> QED BY <1>1, <1>2, <1>6, <1>7, <1>8

\* handle_encrypt seals the data and answers, or fails to store the key.
LEMMA EncryptedInv ==
  ASSUME TypeOK, IInv, NEW c \in Clients, KeyNotStored(c) \/ Encrypted(c)
  PROVE  TypeOK' /\ IInv'
  <1>1. /\ op[c].pc = "encrypt" /\ nextId <= MaxId
        /\ Seal(nextId, op[c].data, op[c].meta)
        /\ UNCHANGED <<disk, sidecars, held>>
    BY DEF KeyNotStored, Encrypted
  <1>2. /\ lost \subseteq lost' /\ keys \subseteq keys' /\ hashes \subseteq hashes'
        /\ lost' \subseteq lost \cup {nextId} /\ keys' \subseteq keys \cup {nextId}
        /\ hashes' \subseteq hashes \cup {nextId}
    BY DEF KeyNotStored, Encrypted
  <1>3. /\ nextId \in 1..MaxId /\ nextId \in Ids /\ nextId \notin LegacyPaths
        /\ nextId' \in 1..(MaxId + 1) /\ nextId \in Drawn'
        /\ meta' \in [Ids -> Meta] /\ sealed' \in [Ids -> Contents]
        /\ meta'[nextId] = op[c].meta
        /\ ServerGrows
        /\ SealedInv'
    BY <1>1, <1>2, SealGrows
  <1>4. PICK n : n = nextId
    OBVIOUS
  <1>5. ASSUME Encrypted(c)
        PROVE  n \in Sound'
    <2>1. PICK key \in BOOLEAN, hash \in BOOLEAN :
            /\ keys' = IF op[c].meta.st = "server" /\ key THEN keys \cup {n} ELSE keys
            /\ hashes' = IF hash THEN hashes \cup {n} ELSE hashes
            /\ lost' = IF (op[c].meta.st = "client" \/ key) /\ hash
                       THEN lost ELSE lost \cup {n}
      BY <1>4, <1>5 DEF Encrypted, Written, HashWritten
    <2>2. op[c].meta.st \in {"server", "client"}
      BY <1>1, OpFields DEF Meta, Storages
    <2>3. n \in lost' \/ (n \in hashes' /\ (meta'[n].st = "client" \/ n \in keys'))
      BY <1>3, <1>4, <2>1, <2>2
    <2> QED BY <1>3, <1>4, <2>3 DEF Sound, Openable, KeyFound
  <1>6. PICK o \in Ops :
          /\ op' = [op EXCEPT ![c] = o]
          /\ o.pc = "failed" \/ (o.pc = "sealed" /\ o.id = n /\ n \in Sound')
    <2>1. CASE KeyNotStored(c)
      BY <2>1, OpTypes DEF KeyNotStored
    <2>2. CASE Encrypted(c)
      <3>1. op' = [op EXCEPT ![c] = [pc |-> "sealed", path |-> op[c].path, id |-> n]]
        BY <1>4, <2>2 DEF Encrypted
      <3>2. [pc |-> "sealed", path |-> op[c].path, id |-> n] \in Ops
        BY <1>1, <1>3, <1>4, OpFields, OpTypes
      <3> QED BY <1>5, <2>2, <3>1, <3>2
    <2> QED BY <2>1, <2>2
  <1>7. /\ \A d \in Clients \ {c} : op'[d] = op[d] /\ held'[d] = held[d]
        /\ held'[c] = held[c] /\ op'[c] = o
    BY <1>1, <1>6 DEF TypeOK
  <1>8. TypeOK'
    <2>1. lost' \subseteq 1..MaxId /\ keys' \subseteq Ids /\ hashes' \subseteq Ids
      BY <1>2, <1>3 DEF TypeOK
    <2> QED BY <1>1, <1>3, <1>6, <2>1 DEF TypeOK, sidecars
  <1>9. \A q \in Paths : Replaced(q) => Replaced(q)'
    BY <1>1 DEF Replaced
  <1>10. DiskInv'
    BY <1>1, <1>3, DiskStays DEF IInv
  <1>11. LegacyKeepsSidecars'
    <2>1. \A p \in LegacyPaths : meta'[p] = meta[p]
      BY <1>3, IdKinds DEF ServerGrows
    <2> QED BY <1>1, <2>1 DEF IInv, LegacyKeepsSidecars, sidecars
  <1>12. HeldInv(c)'
    BY <1>3, <1>7, SoundStays DEF IInv, HeldInv, ServerGrows
  <1>13. OpInv(c)'
    BY <1>3, <1>4, <1>6, <1>7 DEF OpInv
  <1> QED BY <1>3, <1>7, <1>8, <1>9, <1>10, <1>11, <1>12, <1>13, StepOf

-----------------------------------------------------------------------------
(* The theorems *)

\* Nothing was encrypted but the legacy files, which have all they need.
LEMMA InitInv ==
  ASSUME Init
  PROVE  TypeOK /\ IInv
  <1>1. /\ LegacyPaths \subseteq Paths /\ LegacyPaths \subseteq Ids
        /\ nextId = 1 /\ 1 \in 1..(MaxId + 1) /\ Drawn = {} /\ Used = LegacyPaths
    BY FileAssumption DEF Init, Drawn, Used, Ids
  <1>2. /\ disk \in [Paths -> Contents]
        /\ \A p \in Paths : disk[p] = IF p \in LegacyPaths THEN Enc(p) ELSE Plain(p)
    BY <1>1, ContentTypes DEF Init
  <1>3. /\ sealed \in [Ids -> Contents]
        /\ \A i \in LegacyPaths : sealed[i] = Plain(i)
    BY <1>1, ContentTypes DEF Init
  <1>4. /\ op \in [Clients -> Ops] /\ \A c \in Clients : op[c] = None
        /\ held \in [Clients -> Held] /\ \A c \in Clients : held[c] = Nothing
    BY OpTypes DEF Init, Held
  <1>5. TypeOK
    BY <1>1, <1>2, <1>3, <1>4 DEF Init, TypeOK
  <1>6. DiskInv /\ SealedInv
    BY <1>1, <1>2, <1>3, ContentKinds DEF DiskInv, SealedInv, Fine, Sound
  <1>7. LegacyKeepsSidecars
    BY DEF Init, LegacyKeepsSidecars
  <1>8. \A c \in Clients : OpInv(c) /\ HeldInv(c)
    <2>1. None.pc = "idle"
      BY DEF None
    <2> QED BY <1>4, <2>1 DEF OpInv, HeldInv
  <1> QED BY <1>5, <1>6, <1>7, <1>8 DEF IInv

\* Every step preserves the invariant.
LEMMA NextInv ==
  ASSUME TypeOK, IInv, [Next]_vars
  PROVE  TypeOK' /\ IInv'
  <1>1. CASE UNCHANGED vars
    <2>1. TypeOK'
      BY <1>1 DEF vars, TypeOK
    <2>2. ASSUME NEW c \in Clients
          PROVE  IInv'
      <3>1. op' = [op EXCEPT ![c] = op[c]] /\ UNCHANGED <<disk, sidecars, server, held>>
        BY <1>1 DEF vars, sidecars, server, TypeOK
      <3>2. OpInv(c)'
        BY <1>1, OthersStay, SameServer DEF vars, sidecars, server, IInv, Replaced
      <3> QED BY <3>1, <3>2, RequestStep
    <2>3. CASE Clients = {}
      <3>1. UNCHANGED server /\ UNCHANGED disk
        BY <1>1 DEF vars, server
      <3>2. DiskInv' /\ SealedInv'
        BY <3>1, SameServer, DiskStays, SealedStays DEF IInv
      <3>3. LegacyKeepsSidecars'
        BY <1>1 DEF vars, IInv, LegacyKeepsSidecars
      <3> QED BY <2>1, <2>3, <3>2, <3>3 DEF IInv
    <2> QED BY <2>1, <2>2, <2>3
  <1>2. CASE Next
    BY <1>2, EncryptFileInv, EncryptDataInv, RequestEndsInv, DecryptFileInv,
       ServerDecryptInv, MemoryStep, WriteInv, RemoveInv, EncryptedInv
       DEF Next, ClientStep, ServerStep
  <1> QED BY <1>1, <1>2

\* The invariant of the encrypted files: whatever was sealed can be undone
\* unless the server's disk lost something, and nobody works with an
\* identifier that a later encryption could take.
THEOREM InvariantCorrect == Spec => [](TypeOK /\ IInv)
  <1>1. Init => TypeOK /\ IInv
    BY InitInv
  <1>2. (TypeOK /\ IInv) /\ [Next]_vars => (TypeOK /\ IInv)'
    BY NextInv
  <1> QED BY <1>1, <1>2, PTL DEF Spec

\* Every variable keeps its type: in particular every request carries the data
\* its next step needs.
THEOREM TypeCorrect == Spec => []TypeOK
  BY InvariantCorrect, PTL

\* A complete encrypted file, on disk or inside another one, can be opened
\* unless the server's disk lost its key or hash record, and a legacy file
\* keeps its sidecars: the order store, answer, overwrite, remove of
\* handle_encrypt and encrypt_file suffices.
THEOREM FilesStayOpen == Spec => []FilesOpen
  <1>1. TypeOK /\ IInv => FilesOpen
    <2> SUFFICES ASSUME TypeOK, IInv, NEW i \in (1..MaxId) \ lost, Reachable(Enc(i))
                 PROVE  Openable(i)
      BY DEF FilesOpen, IInv
    <2>1. Fine(Enc(i))
      BY DEF Reachable, IInv, DiskInv, SealedInv
    <2>2. i \in Sound
      BY <2>1, ContentKinds DEF Fine
    <2>3. i \notin LegacyPaths
      BY FileAssumption
    <2> QED BY <2>2, <2>3 DEF Sound
  <1> QED BY <1>1, InvariantCorrect, PTL

\* Whatever a client reads from the disk, a decryption that succeeds returns
\* what was encrypted.
THEOREM DecryptionFaithful == Spec => []DecryptFaithful
  <1>1. TypeOK /\ IInv => DecryptFaithful
    BY DEF IInv, OpInv, HeldInv, DecryptFaithful
  <1> QED BY <1>1, InvariantCorrect, PTL
=============================================================================
