--------------------------- MODULE MCOnlineSession --------------------------
(***************************************************************************)
(* An instance of EncryptedSession for TLC.                                *)
(***************************************************************************)
EXTENDS EncryptedSession, TLC

Documents == Permutations(Invoices)

Strings(bytes, lengths) == UNION {[1..l -> bytes] : l \in lengths}

(* Blocks of three bytes: the padding bytes are 1 to 3, and the bytes 0    *)
(* and 4 are on either side of them.  Texts of less than a block, of one   *)
(* exactly and of more; keys and IVs of right and of wrong lengths.        *)
MCTexts   == Strings(0..4, 0..4)
MCBlocks  == Strings(0..4, {0, 3, 6})
MCSecrets == Strings(0..1, 0..3)
=============================================================================
