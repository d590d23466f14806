----------------------------- MODULE HttpClient -----------------------------
(***************************************************************************)
(* One call of the SDK's HTTP client: do() and execute() of                *)
(* internal/httpclient/client.go with the helpers of retry.go, running     *)
(* against a network and a server that may lose, delay or half-deliver     *)
(* what it sends.                                                          *)
(*                                                                         *)
(* The Client struct is never written after New, so calls that share a     *)
(* Client do not interact and one call is the unit of the model.  Every    *)
(* module of this project that issues a request does so through such a     *)
(* call; what it may rely on is HttpCall, which this module implements.    *)
(*                                                                         *)
(* Time passes only where the code waits on it (sleepContext): one tick is *)
(* the unit in which BaseDelay and Retry-After are given.                  *)
(***************************************************************************)
EXTENDS Integers

CONSTANTS
    MaxRetries,    \* retry.MaxRetries: not validated, may be negative
    BaseDelay,     \* retry.BaseDelay
    MaxDuration,   \* largest time.Duration
    Statuses,      \* response status codes of the instance
    RetryAfters    \* Retry-After values; 0: absent or not a number

Attempts == 0..MaxRetries

backoffDelay[n \in Nat] ==
    IF n <= 1 THEN BaseDelay ELSE 2 * backoffDelay[n - 1]

ASSUME RetriesAreInteger == MaxRetries \in Int
ASSUME BaseDelayIsInteger == BaseDelay \in Int
ASSUME StatusesAreCodes == Statuses \subseteq 200..599

ASSUME RetryAftersAreIntegers ==
    /\ MaxDuration \in Nat
    /\ RetryAfters \subseteq Int

(* No doubling of the base delay leaves int64: BaseDelay = 500 ms overflows *)
(* only at the 36th retry, after several centuries of waiting.             *)
ASSUME BackoffFits ==
    \A n \in 1..MaxRetries : backoffDelay[n] \in 0..MaxDuration

VARIABLES
    input,       \* what the caller passes in, and whether it can be sent
    hasTimeout,  \* the wrapped *http.Client has a Timeout
    pc,          \* where the call stands
    attempt,     \* loop counter of execute
    resp,        \* response of this iteration
    respBody,    \* attempt whose response body respBody holds, or Nil
    lastErr,     \* lastErr of execute
    remaining,   \* ticks left until the timer of sleepContext fires
    result,      \* what the caller got back
    ctxDone,     \* ctx is cancelled or past its deadline
    fate,        \* what became of the request of each attempt
    answer,      \* history: what the client learned from each attempt
    slept        \* history: ticks slept since the last answer

config  == <<input, hasTimeout>>
loop    == <<attempt, resp, respBody, lastErr, remaining>>
env     == <<ctxDone, fate>>
history == <<answer, slept>>
vars    == <<config, pc, loop, result, env, history>>

-----------------------------------------------------------------------------
(* Values.                                                                 *)

Nil == -1

NoResp == [status |-> 0, retryAfter |-> 0]
Responses == [status : Statuses, retryAfter : RetryAfters]

NoErr == [kind |-> "none", of |-> Nil]
ErrKinds == {"none", "marshal", "build", "network", "read", "cancelled",
             "authentication", "rateLimit", "ksef"}

Pending == [body |-> Nil, err |-> [kind |-> "pending", of |-> Nil]]

Err(k) == [kind |-> k, of |-> attempt]     \* error met in this iteration
SetupErr(k) == [kind |-> k, of |-> Nil]    \* error met before any request

Returned == pc = "returned"

(* return body, err *)
Return(b, e) ==
    /\ pc' = "returned"
    /\ result' = [body |-> b, err |-> e]

isSuccess(s) == s >= 200 /\ s < 300

shouldRetry(s) == s = 429 \/ s >= 500

(* A response with status 401, 403 or 429 gets a typed error of its own.   *)
parseError(r) ==
    Err(CASE r.status \in {401, 403} -> "authentication"
          [] r.status = 429          -> "rateLimit"
          [] OTHER                   -> "ksef")

(* How long a timer set to secs waits.  Converting a float64 beyond int64  *)
(* is left open by Go: amd64 yields the most negative duration, for which  *)
(* a timer fires at once, arm64 the largest.                               *)
Duration(secs) == IF secs <= MaxDuration THEN {secs} ELSE {0, MaxDuration}

(* Mutant: Retry-After is ignored.                                         *)
retryAfterDelay_Ignored(r, base) == {base}

(* Mutant: the header is used although it is not positive.                 *)
retryAfterDelay_Unchecked(r, base) ==
    IF r.retryAfter # 0 THEN Duration(r.retryAfter) ELSE {base}

(* The delays that the header may lead to.                                 *)
retryAfterDelay(r, base) ==
    IF r.retryAfter > 0 THEN Duration(r.retryAfter) ELSE {base}

(* 429: the Retry-After header; 5xx: exponential back-off.                 *)
retryDelay(r) ==
    IF r.status = 429
    THEN retryAfterDelay(r, backoffDelay[attempt + 1])
    ELSE {backoffDelay[attempt + 1]}

(* What the client learns from a response it has read completely.          *)
AnswerOf(s) ==
    CASE isSuccess(s) -> "success"
      [] s = 429      -> "throttled"
      [] s >= 500     -> "serverError"
      [] OTHER        -> "refused"

Answers == {"none", "network", "read", "success", "throttled", "serverError",
            "refused"}

TypeOK ==
    /\ input \in {"sendable", "unmarshalable", "badURL"}
    /\ hasTimeout \in BOOLEAN
    /\ pc \in {"do", "loop", "inflight", "reading", "sleep", "returned"}
    /\ attempt \in Nat
    /\ resp \in Responses \cup {NoResp}
    /\ respBody \in Attempts \cup {Nil}
    /\ lastErr \in [kind : ErrKinds, of : Attempts \cup {Nil}]
    /\ remaining \in 0..MaxDuration
    /\ result \in [body : Attempts \cup {Nil},
                   err : [kind : ErrKinds \cup {"pending"},
                          of : Attempts \cup {Nil}]]
    /\ ctxDone \in BOOLEAN
    /\ fate \in [Attempts -> {"unsent", "wire", "applied", "rejected"}]
    /\ answer \in [Attempts -> Answers]
    /\ slept \in Nat

-----------------------------------------------------------------------------
(* The call.                                                               *)

Init ==
    /\ input \in {"sendable", "unmarshalable", "badURL"}
    /\ hasTimeout \in BOOLEAN
    /\ pc = "do"
    /\ attempt = 0
    /\ resp = NoResp
    /\ respBody = Nil
    /\ lastErr = NoErr
    /\ remaining = 0
    /\ result = Pending
    /\ ctxDone = FALSE
    /\ fate = [i \in Attempts |-> "unsent"]
    /\ answer = [i \in Attempts |-> "none"]
    /\ slept = 0

(* Return with body b and error e.                                         *)
Leave(b, e) ==
    /\ Return(b, e)
    /\ UNCHANGED <<config, loop, env, history>>

(* do: encode the body, or fail before anything is sent.  PostRaw skips it. *)
Marshal ==
    /\ pc = "do" /\ input # "unmarshalable"
    /\ pc' = "loop"
    /\ UNCHANGED <<config, loop, result, env, history>>

MarshalFails ==
    pc = "do" /\ input = "unmarshalable" /\ Leave(Nil, SetupErr("marshal"))

(* http.NewRequestWithContext rejects the URL.                             *)
BuildFails ==
    /\ pc = "loop" /\ attempt <= MaxRetries /\ input = "badURL"
    /\ Leave(Nil, SetupErr("build"))

(* c.httpClient.Do(req) puts the request on the wire.                      *)
Send ==
    /\ pc = "loop" /\ attempt <= MaxRetries
    /\ input # "badURL" /\ ~ctxDone
    /\ pc' = "inflight"
    /\ fate' = [fate EXCEPT ![attempt] = "wire"]
    /\ UNCHANGED <<config, loop, result, ctxDone, history>>

(* Do returned an error e: sleep and try again, or leave the iteration.    *)
FailAttempt(e, again) ==
    /\ lastErr' = e
    /\ answer' = [answer EXCEPT ![attempt] = "network"]
    /\ slept' = 0
    /\ resp' = NoResp
    /\ IF again
       THEN /\ pc' = "sleep"
            /\ remaining' = backoffDelay[attempt + 1]
            /\ UNCHANGED attempt
       ELSE /\ pc' = "loop"
            /\ attempt' = attempt + 1
            /\ UNCHANGED remaining
    /\ UNCHANGED <<config, respBody, result, ctxDone>>

(* Mutant: an earlier error is kept.                                       *)
NetworkError_FirstErrorKept ==
    FailAttempt(IF lastErr = NoErr THEN Err("network") ELSE lastErr,
                attempt < MaxRetries)

NetworkError == FailAttempt(Err("network"), attempt < MaxRetries)

(* With a context that is already done Do fails without sending.           *)
SendRefusedByContext ==
    /\ pc = "loop" /\ attempt <= MaxRetries
    /\ input # "badURL" /\ ctxDone
    /\ NetworkError /\ UNCHANGED fate

(* The transport fails: the server may or may not have seen the request.   *)
ConnectionFails == pc = "inflight" /\ NetworkError /\ UNCHANGED fate

(* Do gives the request up on the client's Timeout or on ctx.Done().       *)
DoGivesUp == (hasTimeout \/ ctxDone) /\ ConnectionFails

(* Do returned a response: io.ReadAll(resp.Body) is next.                  *)
ResponseArrives(r) ==
    /\ pc = "inflight"
    /\ isSuccess(r.status) => fate[attempt] = "applied"
    /\ AnswerOf(r.status) \in {"throttled", "refused"}
          => fate[attempt] = "rejected"
    /\ pc' = "reading"
    /\ resp' = r
    /\ UNCHANGED <<config, attempt, respBody, lastErr, remaining, result,
                   env, history>>

(* The body breaks off: no retry, whatever the status was.                 *)
ReadFails ==
    /\ pc = "reading"
    /\ Return(Nil, Err("read"))
    /\ answer' = [answer EXCEPT ![attempt] = "read"]
    /\ UNCHANGED <<config, loop, env, slept>>

(* The whole body is read: return it, return a typed error if the attempt  *)
(* is the final one, or sleep.                                             *)
FinishRead(final) ==
    /\ pc = "reading"
    /\ respBody' = attempt
    /\ answer' = [answer EXCEPT ![attempt] = AnswerOf(resp.status)]
    /\ slept' = 0
    /\ IF isSuccess(resp.status)
       THEN Return(respBody', NoErr) /\ UNCHANGED remaining
       ELSE IF final
       THEN Return(respBody', parseError(resp)) /\ UNCHANGED remaining
       ELSE /\ pc' = "sleep"
            /\ remaining' \in retryDelay(resp)
            /\ UNCHANGED result
    /\ UNCHANGED <<config, attempt, resp, lastErr, env>>

(* Mutant: every error status is retried while budget remains.             *)
ReadBody_RetriesAll == FinishRead(attempt = MaxRetries)

(* Mutant: the last retry is given up.                                     *)
ReadBody_StopsEarly ==
    FinishRead(~shouldRetry(resp.status) \/ attempt >= MaxRetries - 1)

ReadBody == FinishRead(~shouldRetry(resp.status) \/ attempt = MaxRetries)

(* sleepContext: time passes while the call waits for its timer.           *)
SleepTick ==
    /\ pc = "sleep"
    /\ remaining > 0
    /\ remaining' = remaining - 1
    /\ slept' = slept + 1
    /\ UNCHANGED <<config, pc, attempt, resp, respBody, lastErr, result,
                   env, answer>>

(* The timer fires and the loop goes on with attempt n.  select may take   *)
(* this branch although ctx is done too.  After a response the error is    *)
(* remembered only now (lastErr = apiErr).                                 *)
WakeUp(n) ==
    /\ pc = "sleep"
    /\ remaining <= 0
    /\ lastErr' = IF resp = NoResp THEN lastErr ELSE parseError(resp)
    /\ pc' = "loop"
    /\ attempt' = n
    /\ UNCHANGED <<config, resp, respBody, remaining, result, env, history>>

(* Mutant: the retry is not counted.                                       *)
TimerFires_NotCounted == WakeUp(attempt)

TimerFires == WakeUp(attempt + 1)

(* Mutant: a cancelled sleep is not reported.                              *)
SleepCancelled_NilError == pc = "sleep" /\ ctxDone /\ Leave(Nil, NoErr)

(* ctx.Done() wins the select: body and error of the attempt are dropped.  *)
SleepCancelled == pc = "sleep" /\ ctxDone /\ Leave(Nil, Err("cancelled"))

(* Mutant: the error of the last attempt is not returned.                  *)
LoopEnds_ErrorLost ==
    pc = "loop" /\ attempt > MaxRetries /\ Leave(respBody, NoErr)

(* The loop is left: return respBody, lastErr.  With MaxRetries < 0 it was *)
(* never entered and lastErr is nil.                                       *)
LoopEnds == pc = "loop" /\ attempt > MaxRetries /\ Leave(respBody, lastErr)

-----------------------------------------------------------------------------
(* The environment: the caller's context and the server.                   *)

CancelContext ==
    /\ ~ctxDone
    /\ ctxDone' = TRUE
    /\ UNCHANGED <<config, pc, loop, result, fate, history>>

(* The server acts on a request or refuses it, at any time after it left.  *)
ServerHandles ==
    /\ \E i \in Attempts, f \in {"applied", "rejected"} :
          /\ fate[i] = "wire"
          /\ fate' = [fate EXCEPT ![i] = f]
    /\ UNCHANGED <<config, pc, loop, result, ctxDone, history>>

Respond == \E r \in Responses : ResponseArrives(r)

Next ==
    \/ Marshal \/ MarshalFails \/ BuildFails
    \/ Send \/ SendRefusedByContext \/ ConnectionFails
    \/ Respond \/ ReadFails \/ ReadBody
    \/ SleepTick \/ TimerFires \/ SleepCancelled
    \/ LoopEnds
    \/ CancelContext \/ ServerHandles

SafeSpec == Init /\ [][Next]_vars

(* The goroutine runs, timers fire, and a transport with a Timeout or with *)
(* a done context fails instead of waiting.  Nothing is assumed of the     *)
(* server, the network or the caller's context.                            *)
ClientStep ==
    \/ Marshal \/ MarshalFails \/ BuildFails
    \/ Send \/ SendRefusedByContext
    \/ DoGivesUp
    \/ (hasTimeout \/ ctxDone) /\ (ReadFails \/ ReadBody)
    \/ SleepTick \/ TimerFires \/ SleepCancelled
    \/ LoopEnds

Spec == SafeSpec /\ WF_vars(ClientStep)

-----------------------------------------------------------------------------
(* Properties.                                                             *)

ApiErrors == {"authentication", "rateLimit", "ksef"}

(* A nil error means the server acted on the last request and the body is  *)
(* the one it answered that request with: execute never reports success    *)
(* out of a stale response or without a request (client.go:142, 169-172).  *)
SuccessIsReal ==
    Returned /\ result.err = NoErr =>
        \E i \in Attempts :
            /\ result.body = i
            /\ fate[i] = "applied" /\ answer[i] = "success"
            /\ \A j \in Attempts : j > i => fate[j] = "unsent"

(* The whole retry budget is spent before a failure that is worth retrying *)
(* is reported (client.go:126, 149).                                       *)
BudgetSpentBeforeGivingUp ==
    Returned /\ \/ result.err.kind = "network"
                \/ /\ result.err.kind \in ApiErrors
                   /\ answer[result.err.of] \in {"throttled", "serverError"}
    => \A i \in Attempts : answer[i] \in {"network", "throttled", "serverError"}

(* Two copies of one request are on their way to the server only if the    *)
(* client could not know better: every attempt but the last ended in a     *)
(* network error, a 429 or a 5xx, and a copy that a 429 answered did       *)
(* nothing (client.go:122-149).  It is the most a caller of a              *)
(* non-idempotent POST can rely on.                                        *)
RepeatsAreUnavoidable ==
    \A i, j \in Attempts : i < j /\ fate[j] # "unsent" =>
        \/ answer[i] \in {"network", "serverError"}
        \/ answer[i] = "throttled" /\ fate[i] = "rejected"

(* The returned error is about the last attempt made, and a body returned  *)
(* next to an API error is that of the same response; only after a network *)
(* error may the body be older (client.go:124, 150, 166-170).              *)
ErrorIsAboutLastAttempt ==
    Returned /\ result.err.kind \in ApiErrors \cup {"network", "read"} =>
        /\ \A j \in Attempts : j > result.err.of =>
              fate[j] = "unsent" /\ answer[j] = "none"
        /\ result.err.kind = "network" <=> answer[result.err.of] = "network"
        /\ result.err.kind \in ApiErrors => result.body = result.err.of
        /\ result.body # Nil => answer[result.body]
              \in {"throttled", "serverError", "refused"}

(* No retry leaves earlier than the server asked for with Retry-After in a *)
(* 429, nor earlier than base delay * 2^(retry - 1) otherwise              *)
(* (client.go:155-160, README "Rate limits").  Only one that is too long   *)
(* for a time.Duration may not be awaited (retry.go:47-48).                *)
RetriesArePaced ==
    pc = "inflight" /\ attempt > 0 =>
        IF resp.status = 429 /\ resp.retryAfter > 0
        THEN slept >= resp.retryAfter \/ resp.retryAfter > MaxDuration
        ELSE slept >= BaseDelay * 2^(attempt - 1)

(* "Get performs an HTTP GET", "Post performs an HTTP POST": a call that    *)
(* reports no error has sent its request (client.go:43, 48).               *)
SuccessMeansPerformed ==
    Returned /\ result.err = NoErr => \E i \in Attempts : fate[i] # "unsent"

(* A call with a Timeout, or whose context is cancelled, returns, even if  *)
(* the server never answers: whichever branches the selects of             *)
(* sleepContext take (client.go:99, retry.go:54-61).                       *)
CallReturns == (hasTimeout \/ ctxDone) ~> Returned

-----------------------------------------------------------------------------
(* HttpClient implements the contract of HttpCall.                         *)

outcome ==
    CASE ~Returned -> "pending"
      [] Returned /\ result.err = NoErr -> "done"
      [] Returned /\ result.err.kind \in ApiErrors
                  /\ answer[result.err.of] \in {"throttled", "refused"} ->
            "refused"
      [] OTHER -> "unknown"

Call == INSTANCE HttpCall

(* Every step of execute is a step of the contract its callers rely on, or *)
(* invisible to them (client.go:91-173).                                   *)
ImplementsHttpCall == Call!Spec
=============================================================================
