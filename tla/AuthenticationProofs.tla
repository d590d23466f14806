------------------------ MODULE AuthenticationProofs ------------------------
(***************************************************************************)
(* Theorems about an Authenticate call, for every retry budget, polling    *)
(* interval and timeout.                                                   *)
(*                                                                         *)
(* That the tokens returned are the server's rests on the server's state   *)
(* agreeing with the fate of the copies, and on no redemption being sent   *)
(* before a poll reported success; IInv says both.                         *)
(***************************************************************************)
EXTENDS SignedAuthentication, TLAPS

-----------------------------------------------------------------------------
(* The inductive invariant.                                                *)

(* The server and the copies agree: an operation exists if a submission    *)
(* was acted on, and its tokens are gone if a redemption was.              *)
ServerInv ==
    /\ \A i \in Copies : fate["submit"][i] = "applied" => op # "none"
    /\ \A i \in Copies :
          fate["redeem"][i] = "applied" => op = "redeemed" /\ holder = i
    /\ holder # 0 => op = "redeemed"
    /\ op = "redeemed" => \E i \in Copies : fate["redeem"][i] = "applied"

(* What the caller has done and seen when it stands at pc. *)
CallerInv ==
    /\ pc \notin {"redeem", "returned"} =>
          \A i \in Copies : fate["redeem"][i] = "unsent"
    /\ pc \in {"poll", "switch", "sleep"} =>
          op # "none" /\ deadline >= PollTimeout
    /\ pc \in {"parse", "challenge", "prove", "submit"} => seen = "none"
    /\ pc \in {"poll", "sleep"} => seen \in {"none", "100"}
    /\ pc = "switch" => seen \in Answers
    /\ pc = "redeem" => seen = "200"
    /\ pc # "returned" => result = Pending

(* What success, a redemption and a timeout rest on. *)
OutcomeInv ==
    /\ seen = "200" => op \in {"200", "redeemed"}
    /\ RedeemsAfterSuccess
    /\ result.status = "ok" => op = "redeemed" /\ holder = result.copy
    /\ TimesOutLate

IInv == TypeOK /\ ServerInv /\ CallerInv /\ OutcomeInv

-----------------------------------------------------------------------------
LEMMA InitIInv == Init => IInv
  <1> SUFFICES ASSUME Init PROVE IInv
    OBVIOUS
  <1> USE DEF Init, Copies, Posts, Codes, Answers
  <1>1. TypeOK
    <2>1. fate \in [Posts -> [Copies -> {"unsent", "wire", "applied", "rejected"}]]
      OBVIOUS
    <2>2. ctxDone \in BOOLEAN
      OBVIOUS
    <2>3. result \in Results
      BY DEF Pending, Results
    <2> QED
      BY <2>1, <2>2, <2>3, AuthConstants DEF TypeOK
  <1>2. \A p \in Posts, i \in Copies : fate[p][i] = "unsent"
    OBVIOUS
  <1>3. ServerInv /\ CallerInv /\ OutcomeInv
    BY <1>2 DEF ServerInv, CallerInv, OutcomeInv, RedeemsAfterSuccess,
                TimesOutLate, Pending
  <1> QED
    BY <1>1, <1>3 DEF IInv

(* The call returns.                                                       *)
LEMMA ReturnStep ==
    ASSUME IInv,
           \/ BadCredentials \/ CallFails \/ StatusFails \/ AuthenticationFailed
           \/ TimedOut \/ SleepCancelled \/ RedeemReturns
    PROVE  IInv'
  <1>1. TypeOK /\ ServerInv /\ CallerInv /\ OutcomeInv
    BY DEF IInv
  <1>2. PICK s \in {"ok", "error", "timedOut", "notRedeemed"}, i \in Copies \cup {0} :
            /\ Return(s, i)
            /\ s = "ok" => op = "redeemed" /\ holder = i
            /\ s = "timedOut" => clock > PollTimeout
    <2>1. CASE \/ BadCredentials \/ CallFails \/ StatusFails
               \/ AuthenticationFailed \/ SleepCancelled
      BY <2>1 DEF BadCredentials, CallFails, StatusFails, AuthenticationFailed,
                  SleepCancelled
    <2>2. CASE TimedOut
      BY <1>1, <2>2, AuthConstants DEF TimedOut, TypeOK, CallerInv
    <2>3. CASE RedeemReturns
      BY <1>1, <2>3 DEF RedeemReturns, Answered, ServerInv
    <2> QED
      BY <2>1, <2>2, <2>3
  <1>3. UNCHANGED <<kind, credentials, fate, op, holder, clock, deadline,
                    wakeAt, seen, ctxDone>>
    BY <1>2 DEF Return, server, poll
  <1>4. pc' = "returned" /\ result' = [status |-> s, copy |-> i]
    BY <1>2 DEF Return
  <1>5. result' \in Results
    BY <1>4 DEF Results
  <1>6. TypeOK'
    BY <1>1, <1>3, <1>4, <1>5 DEF TypeOK
  <1>7. ServerInv' /\ CallerInv'
    BY <1>1, <1>3, <1>4 DEF ServerInv, CallerInv
  <1>8. OutcomeInv'
    BY <1>1, <1>2, <1>3, <1>4
    DEF OutcomeInv, RedeemsAfterSuccess, TimesOutLate
  <1> QED
    BY <1>6, <1>7, <1>8 DEF IInv

(* The call goes on without touching the copies or the server.             *)
LEMMA GotoStep ==
    ASSUME IInv,
           \/ Parse \/ Prove \/ ChallengeReturns \/ SubmitReturns
           \/ StatusReturns \/ Authenticated \/ KeepPolling \/ TimerFires
    PROVE  IInv'
  <1>1. TypeOK /\ ServerInv /\ CallerInv /\ OutcomeInv
    BY DEF IInv
  <1>2. UNCHANGED <<kind, credentials, fate, op, holder, clock, ctxDone, result>>
    BY DEF Parse, Prove, ChallengeReturns, SubmitReturns, StartPolling,
           StatusReturns, Authenticated, KeepPolling, Sleep, TimerFires, Goto,
           server
  <1>3. ServerInv'
    BY <1>1, <1>2 DEF ServerInv
  <1>4. op \in Codes \/ pc \notin {"poll", "switch", "sleep"}
    BY <1>1 DEF TypeOK, ServerInv, CallerInv
  <1>5. TypeOK' /\ CallerInv' /\ OutcomeInv'
    <2> USE DEF TypeOK, CallerInv, OutcomeInv, RedeemsAfterSuccess, TimesOutLate,
                Goto, Posts, Codes, Answers, poll
    <2>1. CASE Parse \/ Prove
      BY <1>1, <1>2, <2>1 DEF Parse, Prove
    <2>2. CASE ChallengeReturns
      BY <1>1, <1>2, <2>2 DEF ChallengeReturns, Answered
    <2>3. CASE SubmitReturns
      <3>1. op # "none" /\ pc = "submit" /\ pc' = "poll"
        BY <1>1, <2>3 DEF SubmitReturns, StartPolling, Answered, ServerInv
      <3>2. deadline' = clock + PollTimeout /\ UNCHANGED <<wakeAt, seen>>
        BY <2>3 DEF SubmitReturns, StartPolling
      <3>3. deadline' \in Nat /\ deadline' >= PollTimeout
        BY <1>1, <3>2, AuthConstants
      <3> QED
        BY <1>1, <1>2, <3>1, <3>2, <3>3
    <2>4. CASE StatusReturns
      BY <1>1, <1>2, <1>4, <2>4 DEF StatusReturns
    <2>5. CASE Authenticated
      BY <1>1, <1>2, <2>5 DEF Authenticated
    <2>6. CASE KeepPolling
      <3>1. wakeAt' \in Nat
        BY <1>1, <2>6, AuthConstants DEF KeepPolling, Sleep
      <3> QED
        BY <1>1, <1>2, <2>6, <3>1 DEF KeepPolling, Sleep
    <2>7. CASE TimerFires
      BY <1>1, <1>2, <2>7 DEF TimerFires
    <2> QED
      BY <2>1, <2>2, <2>3, <2>4, <2>5, <2>6, <2>7
  <1> QED
    BY <1>3, <1>5 DEF IInv

(* A copy leaves, or is acted on or refused.                               *)
LEMMA CopyStep ==
    ASSUME IInv, NEW p \in Posts, NEW i \in Copies,
           SendCopy(p) \/ ServeChallenge(i) \/ ServeSubmit(i) \/ ServeRedeem(i)
           \/ ServeRefuse(p, i)
    PROVE  IInv'
  <1>1. TypeOK /\ ServerInv /\ CallerInv /\ OutcomeInv
    BY DEF IInv
  <1>2. PICK q \in Posts, j \in Copies, f \in {"wire", "applied", "rejected"} :
            /\ fate' = [fate EXCEPT ![q][j] = f]
            /\ UNCHANGED <<kind, credentials, pc, clock, poll, ctxDone, result>>
            /\ \/ /\ pc = q /\ fate[q][j] = "unsent" /\ f = "wire"
                  /\ UNCHANGED server
               \/ fate[q][j] = "wire" /\ f = "rejected" /\ UNCHANGED server
               \/ /\ fate[q][j] = "wire" /\ f = "applied"
                  /\ \/ q = "challenge" /\ UNCHANGED server
                     \/ q = "submit" /\ op = "none" /\ op' = "100"
                        /\ UNCHANGED holder
                     \/ q = "redeem" /\ op = "200" /\ op' = "redeemed"
                        /\ holder' = j
    <2>1. CASE SendCopy(p)
      <3>1. PICK j \in Copies : /\ fate[p][j] = "unsent" /\ pc = p
                                /\ fate' = [fate EXCEPT ![p][j] = "wire"]
        <4>1. PICK j \in Copies :
                  /\ \A k \in Copies : fate[p][k] = "unsent" <=> k >= j
                  /\ fate' = [fate EXCEPT ![p][j] = "wire"]
          BY <2>1 DEF SendCopy
        <4>2. j >= j
          BY AuthConstants DEF Copies
        <4>3. pc = p
          BY <2>1 DEF SendCopy
        <4> QED
          BY <4>1, <4>2, <4>3
      <3> QED
        BY <2>1, <3>1 DEF SendCopy
    <2>2. CASE ServeChallenge(i)
      BY <2>2 DEF ServeChallenge, Serve, Posts
    <2>3. CASE ServeSubmit(i)
      BY <2>3 DEF ServeSubmit, Serve, Posts
    <2>4. CASE ServeRedeem(i)
      BY <2>4 DEF ServeRedeem, Serve, Posts
    <2>5. CASE ServeRefuse(p, i)
      BY <2>5 DEF ServeRefuse, Serve
    <2> QED
      BY <2>1, <2>2, <2>3, <2>4, <2>5
  <1>3. /\ fate' \in [Posts -> [Copies -> {"unsent", "wire", "applied",
                                           "rejected"}]]
        /\ fate'[q][j] = f
        /\ \A r \in Posts, k \in Copies :
              r # q \/ k # j => fate'[r][k] = fate[r][k]
    BY <1>1, <1>2 DEF TypeOK
  <1>4. TypeOK'
    BY <1>1, <1>2, <1>3 DEF TypeOK, Codes, Answers, server, poll
  <1>5. ServerInv'
    BY <1>1, <1>2, <1>3 DEF ServerInv, TypeOK, Posts, Codes, server
  <1>6. CallerInv'
    BY <1>1, <1>2, <1>3 DEF CallerInv, TypeOK, Posts, server, poll
  <1>7. OutcomeInv'
    BY <1>1, <1>2, <1>3
    DEF OutcomeInv, CallerInv, RedeemsAfterSuccess, TimesOutLate, TypeOK, Posts,
        server, poll
  <1> QED
    BY <1>4, <1>5, <1>6, <1>7 DEF IInv

(* The operation ends, time passes, the caller cancels.                    *)
LEMMA WorldStep ==
    ASSUME IInv, OperationEnds \/ Tick \/ Cancel
    PROVE  IInv'
  <1>1. TypeOK /\ ServerInv /\ CallerInv /\ OutcomeInv
    BY DEF IInv
  <1>2. CASE OperationEnds
    BY <1>1, <1>2
    DEF OperationEnds, IInv, TypeOK, ServerInv, CallerInv, OutcomeInv,
        RedeemsAfterSuccess, TimesOutLate, Codes, Answers, poll
  <1>3. CASE Tick
    <2>1. clock' \in 0..MaxClock /\ result = Pending
      BY <1>1, <1>3, AuthConstants DEF Tick, TypeOK, CallerInv
    <2> QED
      BY <1>1, <1>3, <2>1
      DEF Tick, IInv, TypeOK, ServerInv, CallerInv, OutcomeInv,
          RedeemsAfterSuccess, TimesOutLate, Pending, server, poll
  <1>4. CASE Cancel
    BY <1>1, <1>4
    DEF Cancel, IInv, TypeOK, ServerInv, CallerInv, OutcomeInv,
        RedeemsAfterSuccess, TimesOutLate, server, poll
  <1> QED
    BY <1>2, <1>3, <1>4

LEMMA NextIInv == IInv /\ [Next]_vars => IInv'
  <1> SUFFICES ASSUME IInv, [Next]_vars PROVE IInv'
    OBVIOUS
  <1>1. 1 \in Copies /\ "submit" \in Posts
    BY AuthConstants DEF Copies, Posts
  <1>2. CASE Server \/ \E p \in Posts : SendCopy(p)
    BY <1>1, <1>2, CopyStep, WorldStep DEF Server
  <1>3. CASE UNCHANGED vars
    BY <1>3 DEF vars, server, poll, IInv, TypeOK, ServerInv, CallerInv,
                OutcomeInv, RedeemsAfterSuccess, TimesOutLate
  <1> QED
    BY <1>2, <1>3, ReturnStep, GotoStep, WorldStep DEF Next

LEMMA AlwaysIInv == Spec => []IInv
  BY InitIInv, NextIInv, PTL DEF Spec

-----------------------------------------------------------------------------
(* The theorems.                                                           *)

(* Every variable of a call keeps its type.                                *)
THEOREM TypesAreKept == Spec => []TypeOK
  <1>1. IInv => TypeOK
    BY DEF IInv
  <1> QED
    BY <1>1, AlwaysIInv, PTL

(* The tokens returned are those that the server handed out, to the copy   *)
(* of the redemption that was answered (token.go:94-105, xades.go:82-93).  *)
THEOREM TokensAreRealThm == Spec => []TokensAreReal
  <1>1. IInv => TokensAreReal
    BY DEF IInv, OutcomeInv, ServerInv, TokensAreReal
  <1> QED
    BY <1>1, AlwaysIInv, PTL

(* No redemption is sent before the operation has succeeded                *)
(* (token.go:89-94, 203-207).                                              *)
THEOREM RedeemsAfterSuccessThm == Spec => []RedeemsAfterSuccess
  <1>1. IInv => RedeemsAfterSuccess
    BY DEF IInv, OutcomeInv
  <1> QED
    BY <1>1, AlwaysIInv, PTL

(* A time-out is never early, whatever the interval and the time-out are   *)
(* (token.go:191, 212).                                                    *)
THEOREM TimesOutLateThm == Spec => []TimesOutLate
  <1>1. IInv => TimesOutLate
    BY DEF IInv, OutcomeInv
  <1> QED
    BY <1>1, AlwaysIInv, PTL

(* pollUntilDone implements StatusPolling: it goes on exactly on 100 and   *)
(* succeeds exactly on 200, whatever the deadline and the context say once *)
(* 200 is read (token.go:193-218, xades.go:126-151).                       *)
THEOREM ImplementsStatusPollingThm == Spec => ImplementsStatusPolling
  <1> USE DEF Polling!vars, PollOutcome, Returned, Codes, Answers, Pending, Answers
  <1>1. Init => Polling!Init
    BY DEF Init, Polling!Init, Polling!NoCode
  <1>2. IInv /\ IInv' /\ [Next]_vars => [Polling!Next]_(Polling!vars)
    <2> SUFFICES ASSUME IInv, IInv', [Next]_vars
                 PROVE  Polling!Next \/ UNCHANGED Polling!vars
      OBVIOUS
    <2>1. CallerInv /\ CallerInv'
      BY DEF IInv
    <2> USE DEF CallerInv, Goto, Return, poll
    <2>2. CASE Parse \/ Prove \/ ChallengeReturns \/ SubmitReturns \/ KeepPolling
               \/ TimerFires
      BY <2>1, <2>2
      DEF Parse, Prove, ChallengeReturns, Answered, SubmitReturns, StartPolling,
          KeepPolling, Sleep, TimerFires
    <2>3. CASE StatusReturns
      <3>1. Polling!Ask
        BY <2>1, <2>3 DEF StatusReturns, Polling!Ask
      <3> QED
        BY <3>1 DEF Polling!Next
    <2>4. CASE Authenticated
      <3>1. Polling!Succeed
        BY <2>1, <2>4 DEF Authenticated, Polling!Succeed
      <3> QED
        BY <3>1 DEF Polling!Next
    <2>5. CASE RedeemReturns
      BY <2>1, <2>5 DEF RedeemReturns, Answered
    <2>6. CASE BadCredentials \/ StatusFails \/ AuthenticationFailed \/ TimedOut
               \/ SleepCancelled \/ CallFails
      <3>1. CASE pc = "redeem"
        BY <2>1, <2>6, <3>1
        DEF BadCredentials, StatusFails, AuthenticationFailed, TimedOut,
            SleepCancelled, CallFails
      <3>2. CASE pc # "redeem"
        <4>1. Polling!Fail
          BY <2>1, <2>6, <3>2
          DEF BadCredentials, StatusFails, AuthenticationFailed, TimedOut,
              SleepCancelled, CallFails, Posts, Polling!Fail
        <4> QED
          BY <4>1 DEF Polling!Next
      <3> QED
        BY <3>1, <3>2
    <2>7. CASE Server \/ Tick \/ Cancel \/ \E p \in Posts : SendCopy(p)
      BY <2>7 DEF Server, OperationEnds, ServeChallenge, ServeSubmit,
                  ServeRedeem, ServeRefuse, Serve, Tick, Cancel, SendCopy
    <2>8. CASE UNCHANGED vars
      BY <2>8 DEF vars
    <2> QED
      BY <2>2, <2>3, <2>4, <2>5, <2>6, <2>7, <2>8 DEF Next
  <1> QED
    BY <1>1, <1>2, AlwaysIInv, PTL
    DEF Spec, ImplementsStatusPolling, Polling!Spec

-----------------------------------------------------------------------------
(* Signatures.                                                             *)

(* What xmlEscapeText writes is well-formed if it was legal, is read as it *)
(* was but for carriage returns, and is canonical exactly if there are     *)
(* none (auth/xades.go:200-214).                                           *)
LEMMA EscapedText ==
    ASSUME NEW text \in Seq(XAdES!Char)
    PROVE  /\ XAdES!WellFormed(XAdES!xmlEscapeText(text)) <=> Legal(text)
           /\ NoCR(text) => XAdES!ParseText(XAdES!xmlEscapeText(text)) = text
           /\ XAdES!CanonicalText(XAdES!ParseText(XAdES!xmlEscapeText(text))) = XAdES!xmlEscapeText(text)
                 <=> NoCR(text)
  <1> DEFINE e == XAdES!xmlEscapeText(text)
             p == XAdES!ParseText(e)
             c == XAdES!CanonicalText(p)
  <1>1. /\ DOMAIN e = DOMAIN text /\ DOMAIN p = DOMAIN text
        /\ DOMAIN c = DOMAIN text
    BY DEF XAdES!xmlEscapeText, XAdES!ParseText, XAdES!CanonicalText
  <1>2. ASSUME NEW i \in DOMAIN text
        PROVE  /\ e[i] \notin {"&", "<", "NUL"} <=> text[i] # "NUL"
               /\ text[i] # "CR" => p[i] = text[i] /\ c[i] = e[i]
               /\ text[i] = "CR" => c[i] # e[i]
    <2>1. text[i] \in XAdES!Char
      OBVIOUS
    <2> QED
      BY <2>1 DEF XAdES!xmlEscapeText, XAdES!ParseText, XAdES!CanonicalText, XAdES!Char
  <1>3. text = [i \in DOMAIN text |-> text[i]]
    OBVIOUS
  <1>4. NoCR(text) => p = text
    BY <1>1, <1>2, <1>3 DEF NoCR, XAdES!ParseText
  <1>5. NoCR(text) => c = e
    BY <1>1, <1>2 DEF NoCR, XAdES!CanonicalText, XAdES!xmlEscapeText
  <1> QED
    BY <1>1, <1>2, <1>4, <1>5 DEF NoCR, Legal, XAdES!WellFormed

(* A verifier accepts the signed request exactly if the key is that of the *)
(* certificate and there is neither a carriage return nor anything illegal *)
(* in the challenge and in the NIP, and then it reads what was given       *)
(* (auth/xades.go:167-214, crypto/xades.go:82-147).                        *)
LEMMA SignatureVerifies ==
    ASSUME NEW challenge \in Seq(XAdES!Char), NEW nip \in Seq(XAdES!Char),
           NEW subject, NEW publicKey, NEW key, NEW id, NEW signingTime
    PROVE  LET cert == [subject |-> subject, publicKey |-> publicKey]
               out  == XAdES!buildAndSign(challenge, nip, cert, key, id, signingTime)
           IN  /\ XAdES!Verifies(out) <=>
                     /\ key = publicKey
                     /\ NoCR(challenge) /\ Legal(challenge)
                     /\ NoCR(nip) /\ Legal(nip)
               /\ XAdES!Verifies(out) => /\ XAdES!ParseText(out.document.Challenge) = challenge
                                   /\ XAdES!ParseText(out.document.Nip) = nip
  <1> DEFINE cert == [subject |-> subject, publicKey |-> publicKey]
             doc == XAdES!buildAuthRequestDoc(challenge, nip)
             out == XAdES!buildAndSign(challenge, nip, cert, key, id, signingTime)
             sig == out.Signature
             props == XAdES!buildSignedPropsCanon(<<"SignedProperties", id>>,
                                            signingTime, XAdES!sha256Sum(cert))
             info == XAdES!buildSignedInfoCanon(XAdES!sha256Sum(doc),
                                          <<"SignedProperties", id>>,
                                          XAdES!sha256Sum(props))
             scope == out.document.ns \cup sig.ns
  <1>1. /\ doc.ns = {"ksef", "xsd", "xsi"}
        /\ doc.Challenge = XAdES!xmlEscapeText(challenge)
        /\ doc.Nip = XAdES!xmlEscapeText(nip)
    BY DEF XAdES!buildAuthRequestDoc
  <1>2. /\ out.document = doc
        /\ sig.ns = {"ds"} /\ sig.SignedInfo = info
        /\ sig.X509Certificate = cert /\ sig.Object.Target = sig.Id
        /\ sig.Object.ns = {"xades"} /\ sig.Object.SignedProperties = props
        /\ sig.SignatureValue = XAdES!SignPKCS1v15(key, XAdES!sha256Sum(info))
    BY DEF XAdES!buildAndSign, XAdES!SignXML, XAdES!buildSignatureElement
  <1>3. XAdES!Canonical(sig.SignedInfo, scope) = info
    <2>1. info.ns \cup scope = info.ns
      BY <1>1, <1>2 DEF XAdES!buildSignedInfoCanon
    <2>2. [info EXCEPT !.ns = info.ns] = info
      BY DEF XAdES!buildSignedInfoCanon
    <2> HIDE DEF info
    <2> QED
      BY <1>2, <2>1, <2>2 DEF XAdES!Canonical
  <1>4. XAdES!Canonical(sig.Object.SignedProperties, scope \cup sig.Object.ns) = props
    <2>1. props.ns \cup (scope \cup sig.Object.ns) = props.ns
      BY <1>1, <1>2 DEF XAdES!buildSignedPropsCanon
    <2>2. [props EXCEPT !.ns = props.ns] = props
      BY DEF XAdES!buildSignedPropsCanon
    <2> HIDE DEF props
    <2> QED
      BY <1>2, <2>1, <2>2 DEF XAdES!Canonical
  <1>5. /\ info.Document.enveloped /\ info.Document.digest = XAdES!sha256Sum(doc)
        /\ info.Properties.URI = props.Id
        /\ info.Properties.digest = XAdES!sha256Sum(props)
        /\ props.CertDigest = XAdES!sha256Sum(cert)
    BY DEF XAdES!buildSignedInfoCanon, XAdES!buildSignedPropsCanon
  <1>6. XAdES!sha256Sum(doc) = XAdES!sha256Sum(XAdES!CanonicalDocument(doc))
          <=> NoCR(challenge) /\ NoCR(nip)
    <2>1. XAdES!sha256Sum(doc) = XAdES!sha256Sum(XAdES!CanonicalDocument(doc))
            <=> doc = XAdES!CanonicalDocument(doc)
      BY DEF XAdES!sha256Sum
    <2>2. doc = XAdES!CanonicalDocument(doc)
            <=> /\ XAdES!CanonicalText(XAdES!ParseText(doc.Challenge)) = doc.Challenge
                /\ XAdES!CanonicalText(XAdES!ParseText(doc.Nip)) = doc.Nip
      BY DEF XAdES!CanonicalDocument, XAdES!buildAuthRequestDoc
    <2> QED
      BY <1>1, <2>1, <2>2, EscapedText
  <1>7. XAdES!SignPKCS1v15(key, XAdES!sha256Sum(info)) = XAdES!SignPKCS1v15(publicKey, XAdES!sha256Sum(info))
          <=> key = publicKey
    BY DEF XAdES!SignPKCS1v15
  <1>8. /\ XAdES!WellFormed(doc.Challenge) <=> Legal(challenge)
        /\ XAdES!WellFormed(doc.Nip) <=> Legal(nip)
    BY <1>1, EscapedText
  <1>9. XAdES!Verifies(out) <=> /\ key = publicKey
                                /\ NoCR(challenge) /\ Legal(challenge)
                                /\ NoCR(nip) /\ Legal(nip)
    <2> HIDE DEF doc, props, info
    <2> QED
      BY <1>2, <1>3, <1>4, <1>5, <1>6, <1>7, <1>8 DEF XAdES!Verifies
  <1>10. NoCR(challenge) /\ NoCR(nip) =>
           /\ XAdES!ParseText(out.document.Challenge) = challenge
           /\ XAdES!ParseText(out.document.Nip) = nip
    BY <1>1, <1>2, EscapedText
  <1> QED
    BY <1>9, <1>10

(* The signed request is accepted exactly if key and certificate belong    *)
(* together and neither a carriage return nor anything illegal in XML is   *)
(* in the texts, whichever texts and keys they are (auth/xades.go:167-214, *)
(* crypto/xades.go:82-147).                                                *)
THEOREM SignaturesVerifyThm == Spec => []SignaturesVerify
  <1>1. SignedRequests
    BY TextsAreCharacters, SignatureVerifies DEF SignedRequests
  <1>2. SignaturesVerify
    BY <1>1 DEF SignaturesVerify
  <1> QED
    BY <1>2, PTL
=============================================================================
