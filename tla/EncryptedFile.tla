---------------------------- MODULE EncryptedFile ----------------------------
(***************************************************************************)
(* One encrypted file from the client's disk to the server's key and hash  *)
(* stores and back: ClientCore::encrypt_file, encrypt_data, decrypt_file   *)
(* (client/src/client_core.cpp), handle_encrypt and handle_decrypt         *)
(* (server/src/main.cpp) and CryptoEngine (common/src/crypto.cpp).         *)
(*                                                                         *)
(* Every encryption draws fresh random key, key_id and file_id; one        *)
(* identifier stands for the three.  Ciphertext is symbolic: Enc(i) is a   *)
(* complete file sealed under i, and the history variables sealed[i] and   *)
(* meta[i] say what it holds and how it was made.  A file may be encrypted *)
(* again, so what is sealed may itself be Enc(j).                          *)
(*                                                                         *)
(* The legacy format (raw ciphertext, metadata in <file>.cph, key in       *)
(* <file>.key) is only read by this client; the path of a legacy file      *)
(* serves as the identifier of its encryption.  Who may encrypt or decrypt *)
(* is the subject of ServerSession; here the server may refuse at will.    *)
(***************************************************************************)
EXTENDS Naturals

CONSTANTS
  Clients,        \* client processes working on the same directory
  Paths,          \* files
  LegacyPaths,    \* the files that start in the legacy format
  Chosen,         \* key storages and ciphers that users choose, ever chose
  MaxId,          \* bound: encryptions made in a behaviour
  HashWriteFails, \* the server's disk may fail to take a hash record
  SilentLoss      \* a disk error may show only when a stream is closed

ASSUME FileAssumption ==
  /\ LegacyPaths \subseteq Paths
  /\ Chosen \subseteq [st : {"server", "client"}, cipher : {"aead", "stream", "gost"}]
  /\ MaxId \in Nat
  /\ Paths \cap Nat = {}
  /\ HashWriteFails \in BOOLEAN /\ SilentLoss \in BOOLEAN

VARIABLES
  disk,     \* content of every file
  cph,      \* paths with a <file>.cph next to them
  keyFile,  \* paths with a <file>.key next to them
  keys,     \* identifiers whose key file load_key can read
  hashes,   \* identifiers whose hash record load_hash_record can read
  nextId,   \* first identifier not drawn yet
  meta,     \* history: storage and cipher of each encryption
  sealed,   \* history: the data that each encryption was given
  lost,     \* history: encryptions whose key or hash record the disk did not keep
  op,       \* the request each client is busy with
  held      \* the decryption each client holds in memory

vars == <<disk, cph, keyFile, keys, hashes, nextId, meta, sealed, lost, op, held>>
server == <<keys, hashes, nextId, meta, sealed, lost>>
sidecars == <<cph, keyFile>>

Ids == (1..MaxId) \cup LegacyPaths
Storages == {"server", "client"}
\* CipherSpec: authenticated ("aead", GOST-MGM included), unauthenticated
\* ("stream": CBC, CTR, CFB...), and the old gost.c utility ("gost").
Ciphers == {"aead", "stream", "gost"}
Meta == [st : Storages, cipher : Ciphers]

Plain(d) == [tag |-> "plain", data |-> d]
Enc(i) == [tag |-> "enc", data |-> i]
\* write_file stopped half way: before the magic, in the header, in the data.
Cuts == {"magic", "header", "body"}
Cut(i, where) == [tag |-> where, data |-> i]
Garbage == [tag |-> "garbage", data |-> 0]

Contents == {Plain(p) : p \in Paths} \cup {Enc(i) : i \in Ids}
              \cup {Cut(i, w) : i \in Ids, w \in Cuts} \cup {Garbage}

None == [pc |-> "idle"]
Ops == {None}
  \cup [pc : {"encrypt"}, path : Paths, data : Contents, meta : Meta]
  \cup [pc : {"sealed", "writing", "cph", "key"}, path : Paths, id : Ids]
  \cup [pc : {"decrypt"}, path : Paths, id : Ids, ct : Contents]
  \cup [pc : {"opened"}, path : Paths, id : Ids, data : Contents]
  \cup [pc : {"failed"}]

Nothing == [path |-> "none"]
Held == {Nothing} \cup [path : Paths, id : Ids, data : Contents]

TypeOK ==
  /\ disk \in [Paths -> Contents]
  /\ cph \subseteq Paths /\ keyFile \subseteq Paths
  /\ keys \subseteq Ids /\ hashes \subseteq Ids
  /\ nextId \in 1..(MaxId + 1) /\ lost \subseteq 1..MaxId
  /\ meta \in [Ids -> Meta]
  /\ sealed \in [Ids -> Contents]
  /\ op \in [Clients -> Ops]
  /\ held \in [Clients -> Held]

\* load_key: by key_id from the key store, else the key came in the request.
KeyFound(i) == meta[i].st = "client" \/ i \in keys

Used == LegacyPaths \cup 1..(nextId - 1)
\* A legacy file has its metadata, its key in the store its metadata names,
\* and the hash record that the server wrote when it was encrypted.
Init ==
  /\ disk = [p \in Paths |-> IF p \in LegacyPaths THEN Enc(p) ELSE Plain(p)]
  /\ meta \in [Ids -> Meta]
  /\ \A p \in LegacyPaths : meta[p] \in Chosen
  /\ \A i \in 1..MaxId : meta[i] = [st |-> "server", cipher |-> "aead"]
  /\ sealed = [i \in Ids |-> IF i \in LegacyPaths THEN Plain(i) ELSE Garbage]
  /\ cph = LegacyPaths
  /\ keyFile = {p \in LegacyPaths : meta[p].st = "client"}
  /\ keys = {p \in LegacyPaths : meta[p].st = "server"}
  /\ hashes = LegacyPaths
  /\ nextId = 1 /\ lost = {}
  /\ op = [c \in Clients |-> None]
  /\ held = [c \in Clients |-> Nothing]

-----------------------------------------------------------------------------
(* Encryption, the client's side up to the request. *)

\* encrypt_file: read the file whatever it holds and send it.
EncryptFile(c, p, m) ==
  /\ op[c].pc = "idle"
  /\ m.cipher # "gost"        \* new GOST files are MGM, an authenticated mode
  /\ op' = [op EXCEPT ![c] = [pc |-> "encrypt", path |-> p, data |-> disk[p], meta |-> m]]
  /\ UNCHANGED <<disk, sidecars, server, held>>

\* encrypt_data for a decrypted file: the data comes from memory, cipher and
\* key storage from the decryption (reencryptAll).
EncryptData(c) ==
  /\ op[c].pc = "idle"
  /\ held[c] # Nothing
  /\ LET old == meta[held[c].id] IN
       op' = [op EXCEPT ![c] =
               [pc |-> "encrypt", path |-> held[c].path, data |-> held[c].data,
                meta |-> [st |-> old.st,
                          cipher |-> IF old.cipher = "gost" THEN "aead" ELSE old.cipher]]]
  /\ UNCHANGED <<disk, sidecars, server, held>>

\* send_request failed: no connection, the request or the answer was lost,
\* or the answer does not decode.  The server may have done its part.
RequestLost(c) ==
  /\ op[c].pc \in {"encrypt", "decrypt", "sealed", "opened", "failed"}
  /\ op' = [op EXCEPT ![c] = None]
  /\ UNCHANGED <<disk, sidecars, server, held>>

-----------------------------------------------------------------------------
(* Encryption, the server's side. *)

\* An early return: binding, lock, password, rights, unknown algorithm, a
\* short payload, a failed hash or cipher; nothing is stored.
EncryptRefused(c) ==
  /\ op[c].pc = "encrypt"
  /\ op' = [op EXCEPT ![c] = [pc |-> "failed"]]
  /\ UNCHANGED <<disk, sidecars, server, held>>

\* CryptoEngine::encrypt: a fresh key seals the data.
Seal(i, data, m) ==
  /\ sealed' = [sealed EXCEPT ![i] = data]
  /\ meta' = [meta EXCEPT ![i] = m]
  /\ nextId' = nextId + 1

\* Wrong on purpose: the result of store_key is not looked at.
KeyNotStored_Bug(c) ==
  /\ op[c].pc = "encrypt"
  /\ op[c].meta.st = "server"
  /\ nextId <= MaxId
  /\ Seal(nextId, op[c].data, op[c].meta)
  /\ hashes' = hashes \cup {nextId}
  /\ op' = [op EXCEPT ![c] = [pc |-> "sealed", path |-> op[c].path, id |-> nextId]]
  /\ UNCHANGED <<disk, sidecars, keys, lost, held>>

\* store_key reports a failure: the handler answers "Failed to store key".
KeyNotStored(c) ==
  /\ op[c].pc = "encrypt"
  /\ op[c].meta.st = "server"
  /\ nextId <= MaxId
  /\ Seal(nextId, op[c].data, op[c].meta)
  /\ op' = [op EXCEPT ![c] = [pc |-> "failed"]]
  /\ UNCHANGED <<disk, sidecars, keys, hashes, lost, held>>

\* write_file: TRUE promises the data only if no error shows at close.
Written == IF SilentLoss THEN BOOLEAN ELSE {TRUE}
\* The hash record's write_file: its result is ignored.
HashWritten == IF HashWriteFails \/ SilentLoss THEN BOOLEAN ELSE {TRUE}

Encrypted(c) ==
  /\ op[c].pc = "encrypt"
  /\ nextId <= MaxId
  /\ Seal(nextId, op[c].data, op[c].meta)
  /\ \E key \in Written, hash \in HashWritten :
       /\ keys' = IF op[c].meta.st = "server" /\ key THEN keys \cup {nextId} ELSE keys
       /\ hashes' = IF hash THEN hashes \cup {nextId} ELSE hashes
       /\ lost' = IF (op[c].meta.st = "client" \/ key) /\ hash
                  THEN lost ELSE lost \cup {nextId}
  /\ op' = [op EXCEPT ![c] = [pc |-> "sealed", path |-> op[c].path, id |-> nextId]]
  /\ UNCHANGED <<disk, sidecars, held>>

-----------------------------------------------------------------------------
(* Encryption, the client's side after the answer. *)

\* An error answer, for either request, is shown; nothing else happens.
ErrorShown(c) ==
  /\ op[c].pc = "failed"
  /\ op' = [op EXCEPT ![c] = None]
  /\ UNCHANGED <<disk, sidecars, server, held>>

\* Wrong on purpose: the request is not forgotten.
OpenFails_Bug(c) ==
  /\ op[c].pc = "sealed"
  /\ op' = [op EXCEPT ![c].pc = "idle"]
  /\ UNCHANGED <<disk, sidecars, server, held>>

\* write_embedded_file cannot open the file: it is left as it was.
OpenFails(c) ==
  /\ op[c].pc = "sealed"
  /\ op' = [op EXCEPT ![c] = None]
  /\ UNCHANGED <<disk, sidecars, server, held>>

\* Wrong on purpose: the old sidecar files go before the new file is written.
Truncate_Bug(c) ==
  /\ op[c].pc = "sealed"
  /\ cph' = cph \ {op[c].path}
  /\ keyFile' = keyFile \ {op[c].path}
  /\ op' = [op EXCEPT ![c].pc = "writing"]
  /\ UNCHANGED <<disk, server, held>>

\* write_file opens the user's file itself with trunc.
Truncate(c) ==
  /\ op[c].pc = "sealed"
  /\ disk' = [disk EXCEPT ![op[c].path] = Cut(op[c].id, "magic")]
  /\ op' = [op EXCEPT ![c].pc = "writing"]
  /\ UNCHANGED <<sidecars, server, held>>

\* Two clients that write the same file at once may mix their data.
Alone(c) == \A d \in Clients \ {c} :
              ~ (op[d].pc = "writing" /\ op[d].path = op[c].path)

WriteFile(c) ==
  /\ op[c].pc = "writing"
  /\ \/ disk' = [disk EXCEPT ![op[c].path] = Enc(op[c].id)]
     \/ /\ SilentLoss \/ ~ Alone(c)
        /\ \E w \in Cuts : disk' = [disk EXCEPT ![op[c].path] = Cut(op[c].id, w)]
  /\ op' = [op EXCEPT ![c].pc = "cph"]
  /\ UNCHANGED <<sidecars, server, held>>

\* The stream reports an error: "Failed to write encrypted file".
WriteFails(c) ==
  /\ op[c].pc = "writing"
  /\ \E w \in Cuts : disk' = [disk EXCEPT ![op[c].path] = Cut(op[c].id, w)]
  /\ op' = [op EXCEPT ![c] = None]
  /\ UNCHANGED <<sidecars, server, held>>

\* fs::remove of <file>.cph, then of <file>.key; errors are ignored.
RemoveCph(c) ==
  /\ op[c].pc = "cph"
  /\ \E gone \in BOOLEAN : cph' = IF gone THEN cph \ {op[c].path} ELSE cph
  /\ op' = [op EXCEPT ![c].pc = "key"]
  /\ UNCHANGED <<disk, keyFile, server, held>>

RemoveKey(c) ==
  /\ op[c].pc = "key"
  /\ \E gone \in BOOLEAN : keyFile' = IF gone THEN keyFile \ {op[c].path} ELSE keyFile
  /\ op' = [op EXCEPT ![c] = None]
  /\ UNCHANGED <<disk, cph, server, held>>

-----------------------------------------------------------------------------
(* Decryption. *)

\* read_embedded_file found the magic and a whole header.
Embedded(f) == f.tag = "body" \/ (f.tag = "enc" /\ f.data \notin LegacyPaths)

\* extract_metadata_from_header: a whole header says which encryption it is.
HeaderMetadata(f) == {f.data}

\* read_metadata, and load_key_file where the metadata name a key file.
SidecarMetadata(p) ==
  {i \in LegacyPaths \cap {p} : i \in cph /\ (meta[i].st = "client" => i \in keyFile)}

\* The identifiers under which decryption is requested; none if the file or
\* its sidecars cannot be used.
Metadata(p) ==
  IF disk[p].tag = "header" THEN {}
  ELSE IF Embedded(disk[p]) THEN HeaderMetadata(disk[p])
  ELSE SidecarMetadata(p)

DecryptFile(c, p) ==
  /\ op[c].pc = "idle"
  /\ op' = [op EXCEPT ![c] =
       IF Metadata(p) = {} THEN [pc |-> "failed"]
       ELSE [pc |-> "decrypt", path |-> p, ct |-> disk[p],
             id |-> CHOOSE i \in Metadata(p) : TRUE]]
  /\ UNCHANGED <<disk, sidecars, server, held>>

\* evp_decrypt_cipher: an authenticated mode opens only what it sealed, any
\* other mode turns every input into something.
EvpDecrypt(i, ct) ==
  IF ct = Enc(i) THEN {sealed[i]}
  ELSE IF meta[i].cipher = "aead" THEN {} ELSE {Garbage}

\* recover_legacy_gost: needs the trusted hash record, and the data fits it.
RecoverLegacyGost(i, ct) ==
  IF i \in hashes /\ ct = Enc(i) THEN {sealed[i]} ELSE {}

\* CryptoEngine::decrypt, or the legacy recovery chosen by handle_decrypt.
Decrypt(i, ct) ==
  IF meta[i].cipher = "gost" THEN RecoverLegacyGost(i, ct) ELSE EvpDecrypt(i, ct)

\* Wrong on purpose: that a record exists is taken for a match.
HashMatches_Bug(i, data) == i \in hashes

\* The hash of the result is compared with the record of file_id.
HashMatches(i, data) == i \in hashes /\ data = sealed[i]

\* handle_decrypt: refuse, or answer with data that passed every check.
ServerDecrypt(c) ==
  /\ op[c].pc = "decrypt"
  /\ \/ op' = [op EXCEPT ![c] = [pc |-> "failed"]]
     \/ \E data \in Decrypt(op[c].id, op[c].ct) :
          /\ KeyFound(op[c].id)
          /\ HashMatches(op[c].id, data)
          /\ op' = [op EXCEPT ![c] = [pc |-> "opened", path |-> op[c].path,
                                      id |-> op[c].id, data |-> data]]
  /\ UNCHANGED <<disk, sidecars, server, held>>

\* decrypt_file returns; the window keeps the data in memory.
Decrypted(c) ==
  /\ op[c].pc = "opened"
  /\ held' = [held EXCEPT ![c] = [path |-> op[c].path, id |-> op[c].id, data |-> op[c].data]]
  /\ op' = [op EXCEPT ![c] = None]
  /\ UNCHANGED <<disk, sidecars, server>>

\* The client process ends at any point; its memory is gone.
ClientCrash(c) ==
  /\ op' = [op EXCEPT ![c] = None]
  /\ held' = [held EXCEPT ![c] = Nothing]
  /\ UNCHANGED <<disk, sidecars, server>>

-----------------------------------------------------------------------------
ClientStep(c) ==
  \/ \E p \in Paths, m \in Chosen : EncryptFile(c, p, m)
  \/ EncryptData(c)
  \/ RequestLost(c)
  \/ ErrorShown(c)
  \/ OpenFails(c) \/ Truncate(c) \/ WriteFile(c) \/ WriteFails(c)
  \/ RemoveCph(c) \/ RemoveKey(c)
  \/ \E p \in Paths : DecryptFile(c, p)
  \/ Decrypted(c)
  \/ ClientCrash(c)

ServerStep(c) ==
  \/ EncryptRefused(c) \/ KeyNotStored(c) \/ Encrypted(c)
  \/ ServerDecrypt(c)

Next == \E c \in Clients : ClientStep(c) \/ ServerStep(c)

Spec == Init /\ [][Next]_vars

-----------------------------------------------------------------------------
(* Properties. *)

\* What the server and the file must hold for encryption i to be undone.
Openable(i) == KeyFound(i) /\ i \in hashes

\* Contents that somebody may still want to open: on disk, or sealed inside
\* an encryption that was made.
Reachable(f) == (\E p \in Paths : disk[p] = f) \/ (\E i \in Used : sealed[i] = f)

\* A file in the legacy format keeps the sidecar files it cannot be opened
\* without; they go only after the new file stands (client_core.cpp:571-583).
LegacyKeepsSidecars ==
  \A p \in LegacyPaths : disk[p] = Enc(p) =>
    /\ p \in cph
    /\ meta[p].st = "client" => p \in keyFile

\* A complete encrypted file never exists, on disk or inside another one,
\* whose key or hash record the server does not have: the client writes the
\* file only after an answer that the server gives only after it has stored
\* both (client_core.cpp:571, main.cpp:425).  The exceptions are disk errors
\* that the server does not notice or, for the hash record, ignores
\* (main.cpp:434).  Legacy files keep their sidecars.
FilesOpen ==
  /\ \A i \in (1..MaxId) \ lost : Reachable(Enc(i)) => Openable(i)
  /\ LegacyKeepsSidecars

\* What a decryption returns is exactly what was encrypted, whatever torn,
\* mixed or half replaced file the client read and whichever sidecar it took
\* the key from (main.cpp:649-686).
DecryptFaithful ==
  \A c \in Clients : /\ held[c] # Nothing => held[c].data = sealed[held[c].id]
                     /\ op[c].pc = "opened" => op[c].data = sealed[op[c].id]

=============================================================================
