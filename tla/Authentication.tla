--------------------------- MODULE Authentication ---------------------------
(***************************************************************************)
(* One Authenticate call of TokenAuthenticator or XAdESAuthenticator       *)
(* (pkg/ksef/auth): challenge, proof of identity, polling, redemption.     *)
(* Both authenticators are immutable and run the same four requests; they  *)
(* differ in where bad credentials stop them.                              *)
(*                                                                         *)
(* The three POSTs are calls of internal/httpclient and behave as HttpCall *)
(* says; the GET of the polling loop has no effect.  The KSeF server takes *)
(* each challenge once and hands out the tokens of an operation once, so   *)
(* of several copies of a request only one can be acted on.                *)
(***************************************************************************)
EXTENDS Integers

CONSTANTS
    MaxCopies,      \* retry budget of one call: MaxRetries + 1
    PollInterval,   \* 1 s
    PollTimeout,    \* 30 s
    MaxClock        \* bound: no tick beyond this time

ASSUME AuthConstants ==
    /\ MaxCopies \in Nat \ {0}
    /\ PollInterval \in Nat /\ PollTimeout \in Nat /\ MaxClock \in Nat

VARIABLES
    kind,         \* which authenticator
    credentials,  \* usable, or broken in a way the client notices
    pc,           \* step of Authenticate
    fate,         \* copies of each POST
    op,           \* server: state of the authentication operation
    holder,       \* server: copy of the redemption that got the tokens
    clock,        \* time
    deadline,     \* deadline of pollUntilDone
    wakeAt,       \* time at which the current timer fires
    seen,         \* status the last poll reported
    ctxDone,      \* the caller's context is cancelled
    result        \* what Authenticate returned

server == <<op, holder>>
poll   == <<deadline, wakeAt, seen>>
vars   == <<kind, credentials, pc, fate, server, clock, poll, ctxDone, result>>

-----------------------------------------------------------------------------
Posts  == {"challenge", "submit", "redeem"}
Copies == 1..MaxCopies

(* 100: in progress; 200: done; any other code: failed.                    *)
Codes == {"100", "200", "failed"}

(* What an answer says: "noCode" is 0, from a body without a status.       *)
Answers == Codes \cup {"noCode"}

(* A result is the copy of the redemption that was answered, or an error,  *)
(* which says what failed: the wait for the deadline, the redemption, or   *)
(* anything else.                                                          *)
Pending == [status |-> "pending", copy |-> 0]
Results == [status : {"pending", "ok", "error", "timedOut", "notRedeemed"},
            copy : Copies \cup {0}]

Returned == pc = "returned"

TypeOK ==
    /\ kind \in {"token", "xades"}
    /\ credentials \in {"good", "bad"}
    /\ pc \in Posts \cup {"parse", "prove", "poll", "switch", "sleep",
                          "returned"}
    /\ fate \in [Posts -> [Copies -> {"unsent", "wire", "applied", "rejected"}]]
    /\ op \in {"none", "redeemed"} \cup Codes
    /\ holder \in Copies \cup {0}
    /\ clock \in 0..MaxClock
    /\ deadline \in Nat /\ wakeAt \in Nat
    /\ seen \in Answers \cup {"none"}
    /\ ctxDone \in BOOLEAN
    /\ result \in Results

Init ==
    /\ kind \in {"token", "xades"}
    /\ credentials \in {"good", "bad"}
    /\ pc = "parse"
    /\ fate = [p \in Posts |-> [i \in Copies |-> "unsent"]]
    /\ op = "none" /\ holder = 0
    /\ clock = 0
    /\ deadline = 0 /\ wakeAt = 0 /\ seen = "none"
    /\ ctxDone = FALSE
    /\ result = Pending

-----------------------------------------------------------------------------
(* Steps of Authenticate.                                                  *)

Goto(to) ==
    /\ pc' = to
    /\ UNCHANGED <<kind, credentials, fate, server, clock, ctxDone, result>>

Return(s, i) ==
    /\ pc' = "returned"
    /\ result' = [status |-> s, copy |-> i]
    /\ UNCHANGED <<kind, credentials, fate, server, clock, poll, ctxDone>>

(* parseCertAndKey comes first, in the XAdES flow only.                    *)
Parse ==
    /\ pc = "parse"
    /\ kind = "xades" => credentials = "good"
    /\ Goto("challenge") /\ UNCHANGED poll

(* encryptToken, or buildAndSign, once the challenge is known.             *)
Prove ==
    /\ pc = "prove"
    /\ credentials = "good"
    /\ Goto("submit") /\ UNCHANGED poll

BadCredentials ==
    /\ credentials = "bad"
    /\ pc = IF kind = "xades" THEN "parse" ELSE "prove"
    /\ Return("error", 0)

(* The copy of p that left last.                                           *)
IsLast(p, i) ==
    /\ fate[p][i] # "unsent"
    /\ \A j \in Copies : j > i => fate[p][j] = "unsent"

SendCopy(p) ==
    /\ pc = p
    /\ \E i \in Copies :
          /\ \A j \in Copies : fate[p][j] = "unsent" <=> j >= i
          /\ fate' = [fate EXCEPT ![p][i] = "wire"]
    /\ UNCHANGED <<kind, credentials, pc, server, clock, poll, ctxDone, result>>

(* Copy i was answered 2xx.                                                *)
Answered(p, i) == pc = p /\ IsLast(p, i) /\ fate[p][i] = "applied"

(* The call failed, or its response could not be decoded.                  *)
CallFails ==
    /\ pc \in Posts
    /\ Return(IF pc = "redeem" THEN "notRedeemed" ELSE "error", 0)

ChallengeReturns ==
    \E i \in Copies :
        Answered("challenge", i) /\ Goto("prove") /\ UNCHANGED poll

StartPolling(until) ==
    /\ \E i \in Copies : Answered("submit", i)
    /\ Goto("poll")
    /\ deadline' = until
    /\ UNCHANGED <<wakeAt, seen>>

(* Mutant: the timeout is subtracted.                                      *)
SubmitReturns_DeadlinePast == StartPolling(clock - PollTimeout)

(* pollUntilDone begins: the deadline runs from here.                      *)
SubmitReturns == StartPolling(clock + PollTimeout)

(* Mutant: the error of the redemption is ignored.                         *)
RedeemReturns_ErrorIgnored ==
    \E i \in Copies : pc = "redeem" /\ IsLast("redeem", i) /\ Return("ok", i)

(* The tokens returned are those of the copy that was answered.            *)
RedeemReturns ==
    \E i \in Copies : Answered("redeem", i) /\ Return("ok", i)

-----------------------------------------------------------------------------
(* pollUntilDone.                                                          *)

(* The status of the operation, or an answer without one, as from a path   *)
(* that ends in an empty reference number.                                 *)
StatusReturns ==
    /\ pc = "poll"
    /\ seen' \in {op, "noCode"}
    /\ Goto("switch") /\ UNCHANGED <<deadline, wakeAt>>

StatusFails == pc = "poll" /\ Return("error", 0)

(* Mutant: an operation still in progress passes for done.                 *)
Authenticated_InProgress ==
    /\ pc = "switch" /\ seen \in {"100", "200"}
    /\ Goto("redeem") /\ UNCHANGED poll

Authenticated ==
    /\ pc = "switch" /\ seen = "200"
    /\ Goto("redeem") /\ UNCHANGED poll

AuthenticationFailed ==
    pc = "switch" /\ seen \notin {"100", "200"} /\ Return("error", 0)

(* Mutant: the deadline is compared the wrong way round.                   *)
TimedOut_Reversed ==
    pc = "switch" /\ seen = "100" /\ clock <= deadline /\ Return("timedOut", 0)

(* Mutant: the deadline is looked at before the status.                    *)
TimedOut_First ==
    pc = "switch" /\ clock > deadline /\ Return("timedOut", 0)

TimedOut ==
    pc = "switch" /\ seen = "100" /\ clock > deadline /\ Return("timedOut", 0)

Sleep ==
    /\ pc = "switch"
    /\ wakeAt' = clock + PollInterval
    /\ Goto("sleep") /\ UNCHANGED <<deadline, seen>>

(* Mutant: the deadline is not checked.                                    *)
KeepPolling_NoDeadline == seen = "100" /\ Sleep

KeepPolling == seen = "100" /\ clock <= deadline /\ Sleep

TimerFires ==
    pc = "sleep" /\ clock >= wakeAt /\ Goto("poll") /\ UNCHANGED poll

SleepCancelled == pc = "sleep" /\ ctxDone /\ Return("error", 0)

-----------------------------------------------------------------------------
(* The server, the clock and the caller's context.                         *)

Serve(p, i, f) ==
    /\ fate[p][i] = "wire"
    /\ fate' = [fate EXCEPT ![p][i] = f]
    /\ UNCHANGED <<kind, credentials, pc, clock, poll, ctxDone, result>>

(* Every copy of the challenge request gets a challenge of its own.        *)
ServeChallenge(i) == Serve("challenge", i, "applied") /\ UNCHANGED server

(* A challenge is good for one operation.                                  *)
ServeSubmit(i) ==
    op = "none" /\ Serve("submit", i, "applied") /\ op' = "100"
    /\ UNCHANGED holder

(* Tokens are handed out once.                                             *)
ServeRedeem(i) ==
    op = "200" /\ Serve("redeem", i, "applied")
    /\ op' = "redeemed" /\ holder' = i

ServeRefuse(p, i) == Serve(p, i, "rejected") /\ UNCHANGED server

OperationEnds ==
    /\ op = "100"
    /\ op' \in {"200", "failed"}
    /\ UNCHANGED <<kind, credentials, pc, fate, holder, clock, poll, ctxDone,
                   result>>

Server ==
    \/ OperationEnds
    \/ \E i \in Copies :
          \/ ServeChallenge(i) \/ ServeSubmit(i) \/ ServeRedeem(i)
          \/ \E p \in Posts : ServeRefuse(p, i)

(* Time is observed only by pollUntilDone.                                 *)
Tick ==
    /\ pc \in {"poll", "switch", "sleep"} /\ clock < MaxClock
    /\ clock' = clock + 1
    /\ UNCHANGED <<kind, credentials, pc, fate, server, poll, ctxDone, result>>

Cancel ==
    /\ ~ctxDone /\ ~Returned /\ ctxDone' = TRUE
    /\ UNCHANGED <<kind, credentials, pc, fate, server, clock, poll, result>>

Next ==
    \/ Parse \/ Prove \/ BadCredentials
    \/ \E p \in Posts : SendCopy(p)
    \/ ChallengeReturns \/ SubmitReturns \/ RedeemReturns \/ CallFails
    \/ StatusReturns \/ StatusFails
    \/ Authenticated \/ AuthenticationFailed \/ TimedOut \/ KeepPolling
    \/ TimerFires \/ SleepCancelled
    \/ Server \/ Tick \/ Cancel

(* Calls of the HTTP client return (CallReturns of HttpClient), the        *)
(* goroutine runs and time passes.  The server need not do anything.       *)
Fairness ==
    /\ WF_vars(Parse \/ Prove \/ BadCredentials)
    /\ WF_vars(ChallengeReturns \/ SubmitReturns \/ RedeemReturns \/ CallFails)
    /\ WF_vars(StatusReturns \/ StatusFails)
    /\ WF_vars(Authenticated \/ AuthenticationFailed \/ TimedOut \/ KeepPolling)
    /\ WF_vars(TimerFires \/ SleepCancelled)
    /\ WF_vars(Tick)

Spec == Init /\ [][Next]_vars /\ Fairness

-----------------------------------------------------------------------------
(* Properties.                                                             *)

(* An AuthResult holds the tokens the server handed out, in the answer to  *)
(* the copy of the redemption that got them, never in that to another copy *)
(* (token.go:94-105, xades.go:82-93).                                      *)
TokensAreReal ==
    /\ result.status = "ok" => op = "redeemed" /\ holder = result.copy
    /\ holder # 0 => op = "redeemed"

(* No redemption leaves before the operation has succeeded: the one chance *)
(* to collect the tokens is not wasted (token.go:89-94, 203-207).          *)
RedeemsAfterSuccess ==
    (\E i \in Copies : fate["redeem"][i] # "unsent") => op \in {"200", "redeemed"}

(* Polling is not given up before pollTimeout has passed (token.go:191,    *)
(* 212).                                                                   *)
TimesOutLate == result.status = "timedOut" => clock > PollTimeout

(* Authenticate returns even if the operation stays in progress for ever   *)
(* and the caller's context has no deadline (token.go:191, 212).           *)
AuthenticateReturns == <>Returned

(* What pollUntilDone told Authenticate.                                   *)
PollOutcome ==
    IF pc = "redeem" \/ result.status \in {"ok", "notRedeemed"} THEN "ok"
    ELSE IF Returned THEN "error" ELSE "polling"

Polling == INSTANCE StatusPolling
              WITH Codes <- Answers,
                   Success <- {"200"}, Failure <- {"failed", "noCode"},
                   outcome <- PollOutcome

(* pollUntilDone succeeds exactly on 200, also if 200 was read after the   *)
(* deadline or under a cancelled context; it fails on every code but 100   *)
(* and does not ask again after either (token.go:193-218, xades.go:126-    *)
(* 151).                                                                   *)
ImplementsStatusPolling == Polling!Spec
=============================================================================
