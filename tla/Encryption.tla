----------------------------- MODULE Encryption -----------------------------
(***************************************************************************)
(* How invoices are encrypted: PKCS#7 padding and AES-256-CBC              *)
(* (pkg/ksef/crypto/aes.go), the envelope with an RSA-wrapped key          *)
(* (pkg/ksef/crypto/rsa.go) and the request that SubmitInvoice builds      *)
(* (pkg/ksef/invoice/submit.go).                                           *)
(*                                                                         *)
(* Byte strings are sequences; the padding is computed byte by byte.  AES, *)
(* RSA-OAEP and SHA-256 are the standard library's and symbolic: a         *)
(* ciphertext remembers what it was made of, and tells it only to the      *)
(* holder of the key.  Base64 of a whole value is left out.  What the code *)
(* draws at random (key, IV) is a parameter.                               *)
(***************************************************************************)
EXTENDS Integers, Sequences

CONSTANTS
    BlockSize,   \* aes.BlockSize: 16
    KeySize      \* aesKeySize: 32

Byte == 0..255

(* A Go result: a value and the error nil, or an error.                    *)
Ok(v)  == [err |-> "nil", value |-> v]
Err(e) == [err |-> e, value |-> <<>>]

-----------------------------------------------------------------------------
(* PKCS#7.                                                                 *)

(* Mutant: whole blocks are left as they are.                              *)
pkcs7Pad_WholeBlocksBare(data, blockSize) ==
    LET padding == (blockSize - (Len(data) % blockSize)) % blockSize
    IN  data \o [i \in 1..padding |-> padding % 256]

(* 1 to blockSize bytes, each the number of bytes added, as a byte.        *)
pkcs7Pad(data, blockSize) ==
    LET padding == blockSize - (Len(data) % blockSize)
    IN  data \o [i \in 1..padding |-> padding % 256]

(* The last byte says how many bytes to drop; all of them must say so.     *)
WellPadded(data) ==
    /\ Len(data) > 0
    /\ data[Len(data)] \in 1..BlockSize
    /\ data[Len(data)] <= Len(data)
    /\ \A i \in Len(data) - data[Len(data)] + 1 .. Len(data) :
          data[i] = data[Len(data)]

pkcs7Unpad(data) ==
    IF WellPadded(data)
    THEN Ok(SubSeq(data, 1, Len(data) - data[Len(data)]))
    ELSE Err("invalidPadding")

-----------------------------------------------------------------------------
(* The standard library's primitives.                                      *)

(* Encryption in CBC mode keeps the length; only the same key and IV give  *)
(* the text back, others some bytes of that length, it is not said which.  *)
CBCEncrypt(text, key, iv) == [text |-> text, key |-> key, iv |-> iv]

CBCDecrypt(cipher, key, iv) ==
    IF cipher.key = key /\ cipher.iv = iv
    THEN cipher.text
    ELSE CHOOSE bytes \in [1..Len(cipher.text) -> Byte] : TRUE

Size(cipher) == Len(cipher.text)

SHA256(x) == [digestOf |-> x]

(* Key pairs are named; OAEP rejects what was wrapped for another pair.    *)
EncryptOAEP(key, pair) == [wrapped |-> key, for |-> pair]

-----------------------------------------------------------------------------
(* AES-256-CBC.                                                            *)

(* Mutant: the length of the IV is left to the cipher.                     *)
EncryptAESCBCWithIV_AnyIV(plaintext, key, iv) ==
    IF Len(key) # KeySize
    THEN Err("badLength")
    ELSE Ok(CBCEncrypt(pkcs7Pad(plaintext, BlockSize), key, iv))

(* The receiver knows the IV.                                              *)
EncryptAESCBCWithIV(plaintext, key, iv) ==
    IF Len(key) # KeySize \/ Len(iv) # BlockSize
    THEN Err("badLength")
    ELSE Ok(CBCEncrypt(pkcs7Pad(plaintext, BlockSize), key, iv))

(* The random IV goes before the ciphertext.                               *)
EncryptAESCBC(plaintext, key, iv) ==
    IF Len(key) # KeySize
    THEN Err("badLength")
    ELSE Ok([iv   |-> iv,
             body |-> CBCEncrypt(pkcs7Pad(plaintext, BlockSize), key, iv)])

DecryptAESCBC(message, key) ==
    IF \/ Len(key) # KeySize
       \/ Len(message.iv) < BlockSize
       \/ Size(message.body) % BlockSize # 0
    THEN Err("badLength")
    ELSE pkcs7Unpad(CBCDecrypt(message.body, key, message.iv))

-----------------------------------------------------------------------------
(* The envelope of rsa.go.                                                 *)

EncryptInvoice(invoiceXML, pair, aesKey, iv) ==
    [invoice |-> EncryptAESCBC(invoiceXML, aesKey, iv),
     key     |-> EncryptOAEP(aesKey, pair)]

decryptAESKey(encryptedKey, pair) ==
    IF encryptedKey.for = pair THEN Ok(encryptedKey.wrapped) ELSE Err("oaep")

DecryptInvoice(encryptedInvoice, encryptedKey, pair) ==
    LET aesKey == decryptAESKey(encryptedKey, pair)
    IN  IF aesKey.err # "nil" THEN aesKey
        ELSE DecryptAESCBC(encryptedInvoice, aesKey.value)

-----------------------------------------------------------------------------
(* SubmitInvoice, up to its POST: the key and the IV are those the session *)
(* was opened with.                                                        *)
SubmitInvoice(AESKey, IV, invoiceXML) ==
    LET encBytes == EncryptAESCBCWithIV(invoiceXML, AESKey, IV)
    IN  IF Len(AESKey) = 0 \/ Len(IV) = 0 THEN Err("missing")
        ELSE IF encBytes.err # "nil" THEN encBytes
        ELSE Ok([InvoiceHash             |-> SHA256(invoiceXML),
                 InvoiceSize             |-> Len(invoiceXML),
                 EncryptedInvoiceHash    |-> SHA256(encBytes.value),
                 EncryptedInvoiceSize    |-> Size(encBytes.value),
                 EncryptedInvoiceContent |-> encBytes.value])

(* The server reads a submission with the session's key and IV.            *)
Read(body, key, iv) ==
    pkcs7Unpad(CBCDecrypt(body.EncryptedInvoiceContent, key, iv))

Consistent(body, invoiceXML) ==
    /\ body.InvoiceHash = SHA256(invoiceXML)
    /\ body.InvoiceSize = Len(invoiceXML)
    /\ body.EncryptedInvoiceHash = SHA256(body.EncryptedInvoiceContent)
    /\ body.EncryptedInvoiceSize = Size(body.EncryptedInvoiceContent)
=============================================================================
