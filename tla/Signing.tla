------------------------------- MODULE Signing -------------------------------
(***************************************************************************)
(* The signed AuthTokenRequest of the XAdES flow: the document             *)
(* (pkg/ksef/auth/xades.go) and its enveloped XAdES-BES signature          *)
(* (pkg/ksef/crypto/xades.go).                                             *)
(*                                                                         *)
(* The code writes every element in the canonical form in which a verifier *)
(* is going to digest it: with the namespaces that are in scope where it   *)
(* will stand, and with its text escaped as Canonical XML 1.0 does.        *)
(* Elements are records, "ns" holds the prefixes that an element declares, *)
(* and text is a sequence of characters or of what is written for them.    *)
(* Digests and RSA signatures are symbolic, key pairs are named, and what  *)
(* is drawn at random or read from a clock is a parameter.                 *)
(***************************************************************************)
EXTENDS Sequences

(* "a" is any character with no meaning in XML; CR and LF end lines; NUL   *)
(* is what no XML document may hold: a control character, invalid UTF-8.   *)
Char == {"a", "&", "<", ">", "CR", "LF", "NUL"}

sha256Sum(x) == [digestOf |-> x]

SignPKCS1v15(key, digest) == [by |-> key, signed |-> digest]

-----------------------------------------------------------------------------
(* The document.                                                           *)

(* Mutant: ">" needs no escape to be well-formed.                          *)
xmlEscapeText_GtBare(s) ==
    [i \in DOMAIN s |-> CASE s[i] = "&" -> "&amp;"
                          [] s[i] = "<" -> "&lt;"
                          [] OTHER      -> s[i]]

xmlEscapeText(s) ==
    [i \in DOMAIN s |-> CASE s[i] = "&" -> "&amp;"
                          [] s[i] = "<" -> "&lt;"
                          [] s[i] = ">" -> "&gt;"
                          [] OTHER      -> s[i]]

buildAuthRequestDoc(challenge, nip) ==
    [ns        |-> {"ksef", "xsd", "xsi"},
     Challenge |-> xmlEscapeText(challenge),
     Nip       |-> xmlEscapeText(nip)]

-----------------------------------------------------------------------------
(* The signature.                                                          *)

buildSignedPropsCanon(id, signingTime, certDigest) ==
    [ns          |-> {"ksef", "ds", "xades", "xsd", "xsi"},
     Id          |-> id,
     SigningTime |-> signingTime,
     CertDigest  |-> certDigest]

(* The first reference is to the document without its signature.           *)
buildSignedInfoCanon(docDigest, signedPropsID, signedPropsDigest) ==
    [ns         |-> {"ksef", "ds", "xsd", "xsi"},
     Document   |-> [enveloped |-> TRUE, digest |-> docDigest],
     Properties |-> [URI |-> signedPropsID, digest |-> signedPropsDigest]]

(* SignedProperties stand one level deeper, below a declaration of xades.  *)
buildSignatureElement(id, signedInfoCanon, sigValue, cert, signedPropsCanon) ==
    [ns              |-> {"ds"},
     Id              |-> <<"Signature", id>>,
     SignedInfo      |-> signedInfoCanon,
     SignatureValue  |-> sigValue,
     X509Certificate |-> cert,
     Object          |-> [ns               |-> {"xades"},
                          Target           |-> <<"Signature", id>>,
                          SignedProperties |-> signedPropsCanon]]

(* The signature goes before the closing tag of the document.              *)
SignXML(doc, cert, key, id, signingTime) ==
    LET signedPropsID    == <<"SignedProperties", id>>
        signedPropsCanon ==
            buildSignedPropsCanon(signedPropsID, signingTime, sha256Sum(cert))
        signedInfoCanon  ==
            buildSignedInfoCanon(sha256Sum(doc), signedPropsID,
                                 sha256Sum(signedPropsCanon))
        sigValue         == SignPKCS1v15(key, sha256Sum(signedInfoCanon))
    IN  [document  |-> doc,
         Signature |-> buildSignatureElement(id, signedInfoCanon, sigValue,
                                             cert, signedPropsCanon)]

buildAndSign(challenge, nip, cert, key, id, signingTime) ==
    SignXML(buildAuthRequestDoc(challenge, nip), cert, key, id, signingTime)

-----------------------------------------------------------------------------
(* The verifier: an XML parser, Canonical XML 1.0 and XML Signature.       *)

WellFormed(text) == \A i \in DOMAIN text : text[i] \notin {"&", "<", "NUL"}

(* A parser resolves references and reads a carriage return as a newline.  *)
ParseText(text) ==
    [i \in DOMAIN text |-> CASE text[i] = "&amp;" -> "&"
                             [] text[i] = "&lt;"  -> "<"
                             [] text[i] = "&gt;"  -> ">"
                             [] text[i] = "CR"    -> "LF"
                             [] OTHER             -> text[i]]

CanonicalText(s) ==
    [i \in DOMAIN s |-> CASE s[i] = "&"  -> "&amp;"
                          [] s[i] = "<"  -> "&lt;"
                          [] s[i] = ">"  -> "&gt;"
                          [] s[i] = "CR" -> "&#xD;"
                          [] OTHER       -> s[i]]

CanonicalDocument(doc) ==
    [ns        |-> doc.ns,
     Challenge |-> CanonicalText(ParseText(doc.Challenge)),
     Nip       |-> CanonicalText(ParseText(doc.Nip))]

(* The apex of a canonical subtree declares all that is in scope there.    *)
Canonical(element, inherited) ==
    [element EXCEPT !.ns = element.ns \cup inherited]

Verifies(out) ==
    LET sig   == out.Signature
        scope == out.document.ns \cup sig.ns
        info  == Canonical(sig.SignedInfo, scope)
        props == Canonical(sig.Object.SignedProperties, scope \cup sig.Object.ns)
    IN  /\ WellFormed(out.document.Challenge) /\ WellFormed(out.document.Nip)
        /\ info.Document.enveloped
        /\ info.Document.digest = sha256Sum(CanonicalDocument(out.document))
        /\ info.Properties.URI = props.Id
        /\ info.Properties.digest = sha256Sum(props)
        /\ props.CertDigest = sha256Sum(sig.X509Certificate)
        /\ sig.Object.Target = sig.Id
        /\ sig.SignatureValue =
              SignPKCS1v15(sig.X509Certificate.publicKey, sha256Sum(info))
=============================================================================
