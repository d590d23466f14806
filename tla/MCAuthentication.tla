-------------------------- MODULE MCAuthentication --------------------------
(***************************************************************************)
(* The instance of SignedAuthentication for TLC: all texts of up to two    *)
(* characters.                                                             *)
(***************************************************************************)
EXTENDS SignedAuthentication

MCTexts == UNION {[1..l -> XAdES!Char] : l \in 0..2}
=============================================================================
