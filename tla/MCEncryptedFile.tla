--------------------------- MODULE MCEncryptedFile ---------------------------
(***************************************************************************)
(* EncryptedFile for TLC: two client processes on one directory.           *)
(***************************************************************************)
EXTENDS EncryptedFile, TLC

\* The clients run the same program.
ClientSymmetry == Permutations(Clients)

\* Each key storage, and the ciphers that do not notice a damaged file by
\* themselves; an authenticated one comes from encrypting a GOST file again.
MCChosen == { [st |-> "server", cipher |-> "stream"],
              [st |-> "client", cipher |-> "gost"] }

=============================================================================
