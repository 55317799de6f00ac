------------------------------- MODULE Crypt --------------------------------
(***************************************************************************)
(* How packets and keys are encrypted: which cipher and which hash are     *)
(* chosen, and what lengths come out, of which the receiver must make the  *)
(* same choices.  A cipher's output is its key and its length; the ciphers *)
(* themselves are library calls.  Lengths are in bytes.                    *)
(***************************************************************************)
EXTENDS Integers

XorMax == 64             \* longer data is encrypted with AES
Overhead == 12 + 16      \* nonce and tag of AES-GCM
RSABlock == 128          \* bitSize 1024
OAEPMax == RSABlock - 2 * 32 - 2   \* what one block holds with SHA-256
RSASplit == 62

Hashes == {"md5", "sha1", "sha256", "sha512"}

HashLen(h) ==
    CASE h = "md5" -> 16 [] h = "sha1" -> 20 [] h = "sha256" -> 32 [] h = "sha512" -> 64

\* packetKey: the hash that makes the key for data of this length.
PacketKey(len) ==
    CASE len <= 16 -> "md5"
      [] len > 16 /\ len <= 20 -> "sha1"
      [] len > 20 /\ len <= 32 -> "sha256"
      [] len > 32 /\ len <= 64 -> "sha512"
      [] OTHER -> "sha256"

Xor(len) == len <= XorMax

\* encryptPacketData.
CipherLen(len) == IF Xor(len) THEN len ELSE len + Overhead

\* decryptPacketData: what happens to data of this length, that was encrypted
\* with one session key, or with none (none), at an end that has another.
Decrypt(key, mine, none, len) ==
    LET got == IF key = none THEN len ELSE CipherLen(len)
        same == key = mine /\ (key # none => PacketKey(got) = PacketKey(len)
                                             /\ Xor(got) = Xor(len))
    IN  IF same THEN "opened"
        ELSE IF mine # none /\ ~Xor(got) THEN "error" ELSE "garbled"

\* encrypt: blocks for data of a length; decrypt: blocks found in what came out.
Blocks(len, splitby) == (len + splitby - 1) \div splitby
EncryptedLen(len) == Blocks(len, RSASplit) * RSABlock

\* Bytes in block i, counted from 1.
BlockLen(len, i) == IF i * RSASplit <= len THEN RSASplit ELSE len - (i - 1) * RSASplit
=============================================================================
