------------------------ MODULE SignedAuthentication ------------------------
(***************************************************************************)
(* An authentication and the signed AuthTokenRequest that its XAdES flow   *)
(* submits (pkg/ksef/auth/xades.go, pkg/ksef/crypto/xades.go).             *)
(***************************************************************************)
EXTENDS Authentication, Sequences

CONSTANTS
    Texts,   \* challenges and NIPs
    Keys     \* RSA key pairs

XAdES == INSTANCE Signing

ASSUME TextsAreCharacters == Texts \subseteq Seq(XAdES!Char)

NoCR(text)  == \A i \in DOMAIN text : text[i] # "CR"
Legal(text) == \A i \in DOMAIN text : text[i] # "NUL"

(* The signature has an id and a time that are the same in all of its      *)
(* places; which they are does not matter.                                 *)
SignedRequests ==
    \A challenge, nip \in Texts, publicKey, key \in Keys :
        LET cert == [subject |-> nip, publicKey |-> publicKey]
            out  == XAdES!buildAndSign(challenge, nip, cert, key, 1, 0)
        IN  /\ XAdES!Verifies(out) <=>
                  /\ key = publicKey
                  /\ NoCR(challenge) /\ Legal(challenge)
                  /\ NoCR(nip) /\ Legal(nip)
            /\ XAdES!Verifies(out) =>
                  /\ XAdES!ParseText(out.document.Challenge) = challenge
                  /\ XAdES!ParseText(out.document.Nip) = nip

(* When the XAdES flow submits its request, a verifier accepts the         *)
(* signature and reads the challenge and the NIP that were given, exactly  *)
(* if the key is the certificate's, which parseCertAndKey does not         *)
(* compare, and no carriage return and nothing that is illegal in XML is   *)
(* in the text, both of which xmlEscapeText writes as they are: digests of *)
(* the document and of the signed properties are those of the canonical    *)
(* forms in the place where they stand (auth/xades.go:167-214,             *)
(* crypto/xades.go:82-147).                                                *)
SignaturesVerify == kind = "xades" /\ pc = "submit" => SignedRequests
=============================================================================
