-------------------------- MODULE EncryptedSession --------------------------
(***************************************************************************)
(* A session and the encryption of the invoices submitted in it: the key   *)
(* and the IV are those the session was opened with, and what SubmitInvoice*)
(* posts must be readable with them (pkg/ksef/invoice/submit.go,           *)
(* pkg/ksef/crypto).                                                       *)
(***************************************************************************)
EXTENDS OnlineSession, Sequences

CONSTANTS
    BlockSize,   \* aes.BlockSize: 16
    KeySize,     \* aesKeySize: 32
    Texts,       \* invoices as byte strings
    Blocks,      \* decrypted byte strings, padded or not
    Secrets,     \* byte strings given as keys and IVs
    KeyPairs     \* RSA key pairs

AES == INSTANCE Encryption

(* pkcs7Pad writes the number of bytes it adds in one byte.                *)
ASSUME BlockSizeFitsAByte == BlockSize \in 1..255
ASSUME KeysAreNotEmpty == KeySize \in Nat \ {0}
ASSUME InputsAreBytes == Texts \cup Blocks \cup Secrets \subseteq Seq(AES!Byte)

Unpads ==
    /\ \A d \in Texts : AES!pkcs7Unpad(AES!pkcs7Pad(d, BlockSize)) = AES!Ok(d)
    /\ \A s \in Blocks :
          LET d == AES!pkcs7Unpad(s)
          IN  Len(s) % BlockSize = 0 /\ d.err = "nil" =>
                 AES!pkcs7Pad(d.value, BlockSize) = s

Envelopes ==
    \A xml \in Texts, aesKey, iv \in Secrets, pair, other \in KeyPairs :
        Len(aesKey) = KeySize /\ Len(iv) = BlockSize =>
            LET out == AES!EncryptInvoice(xml, pair, aesKey, iv)
                read == AES!DecryptInvoice(out.invoice.value, out.key, other)
            IN  IF other = pair THEN read = AES!Ok(xml) ELSE read.err # "nil"

Submissions ==
    \A key, iv \in Secrets, xml \in Texts :
        LET out == AES!SubmitInvoice(key, iv, xml)
        IN  /\ out.err = "nil" <=> Len(key) = KeySize /\ Len(iv) = BlockSize
            /\ out.err = "nil" => /\ AES!Read(out.value, key, iv) = AES!Ok(xml)
                                  /\ AES!Consistent(out.value, xml)

(* When an invoice is submitted, pkcs7Unpad takes off what pkcs7Pad put    *)
(* on, also from a whole block and from bytes that look like padding, and  *)
(* of whole blocks it accepts nothing that was not padded (aes.go:98-131). *)
PaddingIsInverted == pc = "submit" => Unpads

(* The holder of the private key, and nobody else, reads an envelope       *)
(* (rsa.go:12-52).  SubmitInvoice builds a request exactly if the session  *)
(* has a key and an IV of the right lengths, and the server reads the      *)
(* invoice from it with those two, the hashes and sizes being those of     *)
(* what it reads (submit.go:39-71).                                        *)
MessagesAreReadable == pc = "submit" => Envelopes /\ Submissions
=============================================================================
