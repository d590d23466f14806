-------------------------- MODULE HttpClientProofs --------------------------
(***************************************************************************)
(* Theorems about one call of the HTTP client, for every retry budget,     *)
(* base delay, set of status codes and set of Retry-After values.          *)
(*                                                                         *)
(* The invariants that HttpClient states about a returned call are not     *)
(* inductive.  IInv adds what execute knows while it is still looping:     *)
(* attempts in the future are untouched, attempts in the past ended in     *)
(* something worth retrying, and lastErr is about the attempt just left.   *)
(***************************************************************************)
EXTENDS HttpClient, NaturalLemmas

-----------------------------------------------------------------------------
(* The inductive invariant.                                                *)

(* Where the loop counter may stand at each point of execute. *)
CounterInv ==
    /\ pc = "do" => attempt = 0
    /\ pc \in {"inflight", "reading"} => attempt \in Attempts
    /\ pc = "sleep" => attempt + 1 \in Attempts
    /\ pc = "loop" => attempt = 0 \/ attempt - 1 \in Attempts
    /\ pc # "returned" => result = Pending
    /\ pc = "reading" => resp \in Responses

(* Attempts that have not begun have left no trace. *)
FutureInv ==
    \A j \in Attempts :
        \/ j > attempt
        \/ j = attempt /\ pc \in {"do", "loop"}
        => fate[j] = "unsent" /\ answer[j] = "none"

(* What a retry after attempt j rests on. *)
WorthRetrying(j) ==
    \/ answer[j] \in {"network", "serverError"}
    \/ answer[j] = "throttled" /\ fate[j] = "rejected"

PastInv ==
    \A j \in Attempts :
        j < attempt \/ (j = attempt /\ pc = "sleep") => WorthRetrying(j)

(* A response in hand tells what the server did with its request. *)
ResponseInv ==
    pc = "reading" =>
        /\ isSuccess(resp.status) => fate[attempt] = "applied"
        /\ AnswerOf(resp.status) \in {"throttled", "refused"}
              => fate[attempt] = "rejected"

(* The loop is left only after a network error of its last attempt. *)
LastErrInv ==
    /\ pc \in {"do", "loop"} /\ attempt = 0 => lastErr = NoErr
    /\ pc = "loop" /\ attempt > MaxRetries /\ attempt > 0 =>
          /\ lastErr = [kind |-> "network", of |-> MaxRetries]
          /\ answer[MaxRetries] = "network"

(* What a returned call rests on. *)
ResultInv ==
    pc = "returned" =>
        /\ result.err.kind # "pending"
        /\ result.err = NoErr /\ MaxRetries >= 0 =>
              /\ attempt \in Attempts
              /\ result.body = attempt
              /\ answer[attempt] = "success" /\ fate[attempt] = "applied"
        /\ result.err.kind \in ApiErrors =>
              /\ attempt \in Attempts
              /\ result.err.of = attempt
              /\ answer[attempt] \in {"throttled", "serverError", "refused"}
              /\ answer[attempt] \in {"throttled", "refused"}
                    => fate[attempt] = "rejected"
              /\ answer[attempt] \in {"throttled", "serverError"}
                    => attempt = MaxRetries
        /\ result.err.kind = "network" =>
              /\ attempt = MaxRetries + 1
              /\ \A j \in Attempts : WorthRetrying(j)

IInv ==
    /\ TypeOK
    /\ CounterInv
    /\ FutureInv
    /\ PastInv
    /\ ResponseInv
    /\ LastErrInv
    /\ ResultInv

-----------------------------------------------------------------------------
(* Helpers of execute.                                                     *)

(* Every backed-off delay and every accepted Retry-After is a duration.    *)
LEMMA DelayInRange ==
    ASSUME NEW r \in Responses, NEW b \in 0..MaxDuration
    PROVE  retryAfterDelay(r, b) \subseteq 0..MaxDuration
<1>1. r.retryAfter \in RetryAfters
  BY DEF Responses
<1>2. r.retryAfter \in Int
  BY <1>1, RetryAftersAreIntegers
<1>3. MaxDuration \in Nat
  BY RetryAftersAreIntegers
<1> QED
  BY <1>2, <1>3 DEF retryAfterDelay, Duration

(* A response gets an answer of its class and an API error.                *)
LEMMA ResponseClasses ==
    ASSUME NEW r \in Responses
    PROVE  /\ AnswerOf(r.status) \in Answers
           /\ AnswerOf(r.status) = "success" <=> isSuccess(r.status)
           /\ AnswerOf(r.status) \in {"throttled", "serverError"}
                 <=> shouldRetry(r.status)
           /\ AnswerOf(r.status) \in {"success", "throttled", "serverError",
                                      "refused"}
           /\ parseError(r).kind \in ApiErrors
           /\ parseError(r).of = attempt
           /\ parseError(r) = [kind |-> parseError(r).kind, of |-> attempt]
<1> r.status \in 200..599
  BY StatusesAreCodes DEF Responses
<1> QED
  BY DEF AnswerOf, isSuccess, shouldRetry, parseError, ApiErrors, Err, Answers

-----------------------------------------------------------------------------
(* Initially.                                                              *)

LEMMA InitIInv == Init => IInv
<1> SUFFICES ASSUME Init PROVE IInv
  OBVIOUS
<1>1. TypeOK
  <2>1. /\ fate \in [Attempts -> {"unsent", "wire", "applied", "rejected"}]
        /\ answer \in [Attempts -> Answers]
    BY DEF Init, Answers
  <2>2. /\ lastErr \in [kind : ErrKinds, of : Attempts \cup {Nil}]
        /\ result \in [body : Attempts \cup {Nil},
                       err : [kind : ErrKinds \cup {"pending"},
                              of : Attempts \cup {Nil}]]
    BY DEF Init, NoErr, ErrKinds, Pending
  <2>3. remaining \in 0..MaxDuration
    BY RetryAftersAreIntegers DEF Init
  <2> QED
    BY <2>1, <2>2, <2>3 DEF Init, TypeOK
<1>2. CounterInv /\ FutureInv /\ PastInv
  BY RetriesAreInteger DEF Init, CounterInv, FutureInv, PastInv, Attempts
<1>3. ResponseInv /\ LastErrInv /\ ResultInv
  BY DEF Init, ResponseInv, LastErrInv, ResultInv
<1> QED
  BY <1>1, <1>2, <1>3 DEF IInv

-----------------------------------------------------------------------------
(* One lemma per action.                                                   *)

LEMMA MarshalStep ==
    ASSUME IInv, Marshal PROVE IInv'
<1> USE DEF Marshal, config, loop, env, history
<1>1. TypeOK'
  BY DEF IInv, TypeOK
<1>2. CounterInv' /\ LastErrInv'
  BY DEF IInv, CounterInv, LastErrInv
<1>3. FutureInv' /\ PastInv'
  BY DEF IInv, FutureInv, PastInv, WorthRetrying
<1>4. ResponseInv' /\ ResultInv'
  BY DEF IInv, ResponseInv, ResultInv
<1> QED
  BY <1>1, <1>2, <1>3, <1>4 DEF IInv

(* A call that fails before its first request returns no body.             *)
LEMMA SetupFailsStep ==
    ASSUME IInv, MarshalFails \/ BuildFails PROVE IInv'
<1> PICK k \in {"marshal", "build"} : pc \in {"do", "loop"} /\ Leave(Nil, SetupErr(k))
  BY DEF MarshalFails, BuildFails
<1> USE DEF Leave, Return, SetupErr, config, loop, env, history
<1>1. TypeOK'
  BY DEF IInv, TypeOK, ErrKinds, Nil
<1>2. CounterInv' /\ LastErrInv' /\ ResponseInv'
  BY DEF CounterInv, LastErrInv, ResponseInv
<1>3. FutureInv' /\ PastInv'
  BY DEF IInv, FutureInv, PastInv, WorthRetrying
<1>4. ResultInv'
  BY DEF ResultInv, NoErr, ApiErrors
<1> QED
  BY <1>1, <1>2, <1>3, <1>4 DEF IInv

LEMMA SendStep ==
    ASSUME IInv, Send PROVE IInv'
<1> USE DEF Send, config, loop, history
<1>1. attempt \in Attempts
  BY RetriesAreInteger DEF IInv, TypeOK, Attempts
<1>2. TypeOK'
  BY <1>1 DEF IInv, TypeOK
<1>3. CounterInv' /\ LastErrInv' /\ ResponseInv' /\ ResultInv'
  BY <1>1 DEF IInv, CounterInv, LastErrInv, ResponseInv, ResultInv
<1>4. FutureInv'
  BY <1>1 DEF IInv, TypeOK, FutureInv, Attempts
<1>5. PastInv'
  BY <1>1 DEF IInv, TypeOK, PastInv, WorthRetrying, Attempts
<1> QED
  BY <1>2, <1>3, <1>4, <1>5 DEF IInv

(* Whatever made Do fail, the attempt is recorded as a network error.      *)
LEMMA NetworkErrorStep ==
    ASSUME IInv, SendRefusedByContext \/ ConnectionFails PROVE IInv'
<1> USE DEF NetworkError, FailAttempt, config, Err
<1>0. /\ NetworkError /\ UNCHANGED fate
      /\ pc \in {"loop", "inflight"}
  BY DEF SendRefusedByContext, ConnectionFails
<1>1. attempt \in Attempts /\ attempt \in Nat /\ MaxRetries \in Int
  BY RetriesAreInteger
  DEF IInv, TypeOK, Attempts, CounterInv, SendRefusedByContext, ConnectionFails
<1>2. attempt < MaxRetries => backoffDelay[attempt + 1] \in 0..MaxDuration
  BY <1>1, BackoffFits
<1>3. TypeOK'
  BY <1>0, <1>1, <1>2 DEF IInv, TypeOK, ErrKinds, Answers, NoResp
<1>4. CounterInv'
  BY <1>0, <1>1 DEF IInv, CounterInv, Attempts
<1>5. FutureInv'
  BY <1>0, <1>1 DEF IInv, TypeOK, FutureInv, Attempts
<1>6. PastInv'
  BY <1>0, <1>1 DEF IInv, TypeOK, PastInv, WorthRetrying, Attempts
<1>7. ResponseInv' /\ ResultInv'
  BY <1>0 DEF ResponseInv, ResultInv
<1>8. LastErrInv'
  BY <1>0, <1>1 DEF IInv, TypeOK, LastErrInv, Attempts
<1> QED
  BY <1>3, <1>4, <1>5, <1>6, <1>7, <1>8 DEF IInv

LEMMA RespondStep ==
    ASSUME IInv, Respond PROVE IInv'
<1> PICK r \in Responses : ResponseArrives(r)
  BY DEF Respond
<1> USE DEF ResponseArrives, config, env, history
<1>1. TypeOK'
  BY DEF IInv, TypeOK
<1>2. CounterInv' /\ LastErrInv' /\ ResultInv'
  BY DEF IInv, CounterInv, LastErrInv, ResultInv
<1>3. FutureInv' /\ PastInv'
  BY DEF IInv, FutureInv, PastInv, WorthRetrying
<1>4. ResponseInv'
  BY DEF ResponseInv
<1> QED
  BY <1>1, <1>2, <1>3, <1>4 DEF IInv

LEMMA ReadFailsStep ==
    ASSUME IInv, ReadFails PROVE IInv'
<1> USE DEF ReadFails, Return, Err, config, loop, env
<1>1. attempt \in Attempts
  BY DEF IInv, CounterInv
<1>2. TypeOK'
  BY <1>1 DEF IInv, TypeOK, ErrKinds, Answers, Nil
<1>3. CounterInv' /\ LastErrInv' /\ ResponseInv'
  BY DEF CounterInv, LastErrInv, ResponseInv
<1>4. FutureInv' /\ PastInv'
  BY <1>1 DEF IInv, TypeOK, FutureInv, PastInv, WorthRetrying
<1>5. ResultInv'
  BY DEF ResultInv, NoErr, ApiErrors
<1> QED
  BY <1>2, <1>3, <1>4, <1>5 DEF IInv

(* A fully read response ends the call or, if it is worth retrying and     *)
(* budget remains, puts it to sleep.                                       *)
LEMMA ReadBodyStep ==
    ASSUME IInv, ReadBody PROVE IInv'
<1> DEFINE final == ~shouldRetry(resp.status) \/ attempt = MaxRetries
<1> USE DEF ReadBody, FinishRead, Return, config, env
<1>1. /\ attempt \in Attempts /\ attempt \in Nat /\ MaxRetries \in Int
      /\ resp \in Responses
      /\ pc = "reading" /\ result = Pending
  BY RetriesAreInteger DEF IInv, TypeOK, CounterInv
<1>2. /\ AnswerOf(resp.status) \in {"success", "throttled", "serverError",
                                    "refused"}
      /\ AnswerOf(resp.status) = "success" <=> isSuccess(resp.status)
      /\ AnswerOf(resp.status) \in {"throttled", "serverError"}
            <=> shouldRetry(resp.status)
      /\ parseError(resp) = [kind |-> parseError(resp).kind, of |-> attempt]
      /\ parseError(resp).kind \in ApiErrors
  BY <1>1, ResponseClasses
<1>3. answer'[attempt] = AnswerOf(resp.status)
  BY <1>1 DEF IInv, TypeOK
<1>4. \A j \in Attempts : j # attempt => answer'[j] = answer[j]
  BY DEF IInv, TypeOK
<1>a. CASE isSuccess(resp.status)
  <2> result' = [body |-> attempt, err |-> NoErr] /\ pc' = "returned"
    BY <1>a
  <2>1. TypeOK'
    BY <1>a, <1>1, <1>2 DEF IInv, TypeOK, NoErr, ErrKinds, Answers
  <2>2. ResultInv'
    BY <1>a, <1>1, <1>2, <1>3 DEF IInv, ResponseInv, ResultInv, NoErr, ApiErrors
  <2>3. CounterInv' /\ LastErrInv' /\ ResponseInv'
    BY DEF CounterInv, LastErrInv, ResponseInv
  <2>4. FutureInv' /\ PastInv'
    BY <1>1, <1>4 DEF IInv, TypeOK, FutureInv, PastInv, WorthRetrying, Attempts
  <2> QED
    BY <2>1, <2>2, <2>3, <2>4 DEF IInv
<1>b. CASE ~isSuccess(resp.status) /\ final
  <2> result' = [body |-> attempt, err |-> parseError(resp)] /\ pc' = "returned"
    BY <1>b
  <2>1. TypeOK'
    BY <1>b, <1>1, <1>2 DEF IInv, TypeOK, ErrKinds, Answers, ApiErrors
  <2>2. ResultInv'
    BY <1>b, <1>1, <1>2, <1>3 DEF IInv, ResponseInv, ResultInv, NoErr, ApiErrors
  <2>3. CounterInv' /\ LastErrInv' /\ ResponseInv'
    BY DEF CounterInv, LastErrInv, ResponseInv
  <2>4. FutureInv' /\ PastInv'
    BY <1>1, <1>4 DEF IInv, TypeOK, FutureInv, PastInv, WorthRetrying, Attempts
  <2> QED
    BY <2>1, <2>2, <2>3, <2>4 DEF IInv
<1>c. CASE ~isSuccess(resp.status) /\ ~final
  <2> /\ pc' = "sleep" /\ result' = result
      /\ remaining' \in retryDelay(resp)
    BY <1>c
  <2>1. attempt + 1 \in Attempts /\ attempt < MaxRetries
    BY <1>c, <1>1 DEF Attempts
  <2>2. remaining' \in 0..MaxDuration
    <3>1. backoffDelay[attempt + 1] \in 0..MaxDuration
      BY <2>1, <1>1, BackoffFits
    <3> QED
      BY <3>1, <1>1, DelayInRange DEF retryDelay
  <2>3. TypeOK'
    BY <1>1, <1>2, <2>2 DEF IInv, TypeOK, Answers
  <2>4. CounterInv' /\ LastErrInv' /\ ResponseInv' /\ ResultInv'
    BY <1>1, <2>1 DEF CounterInv, LastErrInv, ResponseInv, ResultInv
  <2>5. FutureInv'
    <3> SUFFICES ASSUME NEW j \in Attempts,
                        j > attempt
                 PROVE  fate[j] = "unsent" /\ answer'[j] = "none"
      BY DEF FutureInv
    <3>1. j # attempt /\ answer'[j] = answer[j]
      BY <1>1, <1>4 DEF Attempts
    <3> QED
      BY <3>1 DEF IInv, FutureInv
  <2>6. PastInv'
    BY <1>c, <1>1, <1>2, <1>3, <1>4
    DEF IInv, TypeOK, PastInv, ResponseInv, WorthRetrying, Attempts
  <2> QED
    BY <2>3, <2>4, <2>5, <2>6 DEF IInv
<1> QED
  BY <1>a, <1>b, <1>c

LEMMA SleepTickStep ==
    ASSUME IInv, SleepTick PROVE IInv'
<1> USE DEF SleepTick, config, env
<1>1. TypeOK'
  BY RetryAftersAreIntegers DEF IInv, TypeOK
<1>2. CounterInv' /\ LastErrInv' /\ ResponseInv' /\ ResultInv'
  BY DEF IInv, CounterInv, LastErrInv, ResponseInv, ResultInv
<1>3. FutureInv' /\ PastInv'
  BY DEF IInv, FutureInv, PastInv, WorthRetrying
<1> QED
  BY <1>1, <1>2, <1>3 DEF IInv

LEMMA TimerFiresStep ==
    ASSUME IInv, TimerFires PROVE IInv'
<1> USE DEF TimerFires, WakeUp, config, env, history
<1>1. /\ attempt \in Nat /\ MaxRetries \in Int /\ attempt + 1 \in Attempts
      /\ attempt \in Attempts /\ attempt' = attempt + 1
  BY RetriesAreInteger DEF IInv, TypeOK, CounterInv, Attempts
<1>2. lastErr' \in [kind : ErrKinds, of : Attempts \cup {Nil}]
  <2>1. CASE resp = NoResp
    BY <2>1 DEF IInv, TypeOK
  <2>2. CASE resp # NoResp
    <3>1. resp \in Responses
      BY <2>2 DEF IInv, TypeOK
    <3> QED
      BY <2>2, <3>1, <1>1, ResponseClasses DEF ApiErrors, ErrKinds
  <2> QED
    BY <2>1, <2>2
<1>3. TypeOK'
  BY <1>1, <1>2 DEF IInv, TypeOK
<1>4. CounterInv' /\ LastErrInv' /\ ResponseInv' /\ ResultInv'
  BY <1>1 DEF IInv, CounterInv, LastErrInv, ResponseInv, ResultInv, Attempts
<1>5. FutureInv' /\ PastInv'
  BY <1>1 DEF IInv, FutureInv, PastInv, WorthRetrying, Attempts
<1> QED
  BY <1>3, <1>4, <1>5 DEF IInv

LEMMA SleepCancelledStep ==
    ASSUME IInv, SleepCancelled PROVE IInv'
<1> USE DEF SleepCancelled, Leave, Return, Err, config, loop, env, history
<1>1. attempt \in Attempts
  BY RetriesAreInteger DEF IInv, TypeOK, CounterInv, Attempts
<1>2. TypeOK'
  BY <1>1 DEF IInv, TypeOK, ErrKinds
<1>3. CounterInv' /\ LastErrInv' /\ ResponseInv'
  BY DEF CounterInv, LastErrInv, ResponseInv
<1>4. ResultInv'
  BY DEF ResultInv, NoErr, ApiErrors
<1>5. FutureInv' /\ PastInv'
  BY DEF IInv, FutureInv, PastInv, WorthRetrying
<1> QED
  BY <1>2, <1>3, <1>4, <1>5 DEF IInv

(* With a budget of at least one request the loop ends on a network error. *)
LEMMA LoopEndsStep ==
    ASSUME IInv, LoopEnds PROVE IInv'
<1> USE DEF LoopEnds, Leave, Return, config, loop, env, history
<1>1. attempt \in Nat /\ MaxRetries \in Int
  BY RetriesAreInteger DEF IInv, TypeOK
<1>2. TypeOK'
  BY DEF IInv, TypeOK
<1>3. CounterInv' /\ LastErrInv' /\ ResponseInv'
  BY DEF CounterInv, LastErrInv, ResponseInv
<1>4. FutureInv' /\ PastInv'
  BY <1>1 DEF IInv, FutureInv, PastInv, WorthRetrying
<1>5. ResultInv'
  <2>1. CASE attempt = 0
    BY <1>1, <2>1 DEF IInv, LastErrInv, ResultInv, ApiErrors, NoErr
  <2>2. CASE attempt # 0
    <3>1. /\ lastErr = [kind |-> "network", of |-> MaxRetries]
          /\ attempt - 1 \in Attempts
      BY <1>1, <2>2 DEF IInv, LastErrInv, CounterInv
    <3>2. \A j \in Attempts : WorthRetrying(j)
      BY <1>1 DEF IInv, PastInv, Attempts
    <3> QED
      BY <1>1, <3>1, <3>2 DEF ResultInv, NoErr, ApiErrors, Attempts, WorthRetrying
  <2> QED
    BY <2>1, <2>2
<1> QED
  BY <1>2, <1>3, <1>4, <1>5 DEF IInv

LEMMA CancelContextStep ==
    ASSUME IInv, CancelContext PROVE IInv'
<1> USE DEF CancelContext, config, loop, history
<1>1. TypeOK'
  BY DEF IInv, TypeOK
<1>2. CounterInv' /\ LastErrInv' /\ ResponseInv' /\ ResultInv'
  BY DEF IInv, CounterInv, LastErrInv, ResponseInv, ResultInv, WorthRetrying
<1>3. FutureInv' /\ PastInv'
  BY DEF IInv, FutureInv, PastInv, WorthRetrying
<1> QED
  BY <1>1, <1>2, <1>3 DEF IInv

(* The server changes only copies that are on the wire, so what a response *)
(* in hand says about its own request stays true.                          *)
LEMMA ServerHandlesStep ==
    ASSUME IInv, ServerHandles PROVE IInv'
<1> USE DEF ServerHandles, config, loop, history
<1>1. \A j \in Attempts : fate[j] # "wire" => fate'[j] = fate[j]
  BY DEF IInv, TypeOK
<1>2. TypeOK'
  BY DEF IInv, TypeOK
<1>3. CounterInv' /\ LastErrInv'
  BY DEF IInv, CounterInv, LastErrInv
<1>4. FutureInv' /\ PastInv'
  BY <1>1 DEF IInv, FutureInv, PastInv, WorthRetrying
<1>5. ResponseInv'
  BY <1>1 DEF IInv, ResponseInv, CounterInv
<1>6. ResultInv'
  BY <1>1 DEF IInv, ResultInv, WorthRetrying
<1> QED
  BY <1>2, <1>3, <1>4, <1>5, <1>6 DEF IInv

(* IInv is inductive. *)
LEMMA StepIInv == IInv /\ [Next]_vars => IInv'
<1> SUFFICES ASSUME IInv, [Next]_vars PROVE IInv'
  OBVIOUS
<1>1. CASE UNCHANGED vars
  <2> USE <1>1 DEF vars, config, loop, env, history
  <2>1. TypeOK'
    BY DEF IInv, TypeOK
  <2>2. CounterInv' /\ LastErrInv' /\ ResponseInv' /\ ResultInv'
    BY DEF IInv, CounterInv, LastErrInv, ResponseInv, ResultInv, WorthRetrying
  <2>3. FutureInv' /\ PastInv'
    BY DEF IInv, FutureInv, PastInv, WorthRetrying
  <2> QED
    BY <2>1, <2>2, <2>3 DEF IInv
<1>2. CASE Marshal \/ MarshalFails \/ BuildFails \/ Send
  BY <1>2, MarshalStep, SetupFailsStep, SendStep
<1>3. CASE SendRefusedByContext \/ ConnectionFails \/ Respond
  BY <1>3, NetworkErrorStep, RespondStep
<1>4. CASE ReadFails \/ ReadBody \/ SleepTick \/ TimerFires
  BY <1>4, ReadFailsStep, ReadBodyStep, SleepTickStep, TimerFiresStep
<1>5. CASE SleepCancelled \/ LoopEnds \/ CancelContext \/ ServerHandles
  BY <1>5, SleepCancelledStep, LoopEndsStep, CancelContextStep,
     ServerHandlesStep
<1> QED
  BY <1>1, <1>2, <1>3, <1>4, <1>5 DEF Next

LEMMA AlwaysIInv == Spec => []IInv
<1>1. Init /\ [][Next]_vars => []IInv
  BY InitIInv, StepIInv, PTL
<1> QED
  BY <1>1, PTL DEF Spec, SafeSpec

-----------------------------------------------------------------------------
(* Safety.                                                                 *)

(* Every variable of execute stays in its range: in particular no timer    *)
(* waits longer than a time.Duration, whatever Retry-After says, and no    *)
(* attempt is made beyond the budget.                                      *)
THEOREM TypeCorrect == Spec => []TypeOK
<1>1. IInv => TypeOK
  BY DEF IInv
<1> QED
  BY <1>1, AlwaysIInv, PTL

(* A call that reports success was answered 2xx on its last request and    *)
(* returns that answer, for every non-negative MaxRetries.  (For a         *)
(* negative one the run neg_retries shows the opposite.)                   *)
THEOREM SuccessIsRealThm ==
    ASSUME MaxRetries >= 0
    PROVE  Spec => []SuccessIsReal
<1>1. IInv => SuccessIsReal
  <2> SUFFICES ASSUME IInv, Returned, result.err = NoErr
               PROVE  \E i \in Attempts :
                        /\ result.body = i
                        /\ fate[i] = "applied" /\ answer[i] = "success"
                        /\ \A j \in Attempts : j > i => fate[j] = "unsent"
    BY DEF SuccessIsReal
  <2>1. /\ attempt \in Attempts /\ result.body = attempt
        /\ answer[attempt] = "success" /\ fate[attempt] = "applied"
    BY DEF IInv, ResultInv, Returned
  <2>2. \A j \in Attempts : j > attempt => fate[j] = "unsent"
    BY DEF IInv, FutureInv
  <2> QED
    BY <2>1, <2>2
<1> QED
  BY <1>1, AlwaysIInv, PTL

(* The boundary of what the run neg_retries refutes: with a retry budget   *)
(* that is not negative, a call that reports no error has sent its request *)
(* (client.go:43, 48, 94).                                                 *)
THEOREM SuccessMeansPerformedThm ==
    ASSUME MaxRetries >= 0
    PROVE  Spec => []SuccessMeansPerformed
<1>1. SuccessIsReal => SuccessMeansPerformed
  BY DEF SuccessIsReal, SuccessMeansPerformed
<1> QED
  BY <1>1, SuccessIsRealThm, PTL

(* A failure that is worth retrying is reported only when every attempt of *)
(* the budget has ended in such a failure.                                 *)
THEOREM BudgetSpentThm == Spec => []BudgetSpentBeforeGivingUp
<1>1. IInv => BudgetSpentBeforeGivingUp
  <2> SUFFICES ASSUME IInv, Returned,
                      \/ result.err.kind = "network"
                      \/ /\ result.err.kind \in ApiErrors
                         /\ answer[result.err.of] \in {"throttled", "serverError"},
                      NEW i \in Attempts
               PROVE  answer[i] \in {"network", "throttled", "serverError"}
    BY DEF BudgetSpentBeforeGivingUp
  <2>1. CASE result.err.kind = "network"
    BY <2>1 DEF IInv, ResultInv, Returned, WorthRetrying
  <2>2. CASE result.err.kind \in ApiErrors
    <3>1. attempt = MaxRetries /\ answer[attempt] \in {"throttled", "serverError"}
      BY <2>2 DEF IInv, ResultInv, Returned, ApiErrors
    <3>2. i < attempt => WorthRetrying(i)
      BY DEF IInv, PastInv
    <3> QED
      BY <3>1, <3>2, RetriesAreInteger DEF WorthRetrying, Attempts
  <2> QED
    BY <2>1, <2>2
<1> QED
  BY <1>1, AlwaysIInv, PTL

(* The server sees a second copy of a request only after an attempt whose  *)
(* effect the client could not know, or that the server had refused.       *)
THEOREM RepeatsAreUnavoidableThm == Spec => []RepeatsAreUnavoidable
<1>1. IInv => RepeatsAreUnavoidable
  <2> SUFFICES ASSUME IInv, NEW i \in Attempts, NEW j \in Attempts,
                      i < j, fate[j] # "unsent"
               PROVE  WorthRetrying(i)
    BY DEF RepeatsAreUnavoidable, WorthRetrying
  <2>1. j <= attempt
    BY RetriesAreInteger DEF IInv, FutureInv, TypeOK, Attempts
  <2>2. i < attempt
    BY <2>1, RetriesAreInteger DEF IInv, TypeOK, Attempts
  <2> QED
    BY <2>2 DEF IInv, PastInv
<1> QED
  BY <1>1, AlwaysIInv, PTL

-----------------------------------------------------------------------------
(* The returned error.                                                     *)

(* Until the call returns, the body that execute holds is that of an       *)
(* earlier response which was worth retrying.                              *)
BodyInv ==
    pc # "returned" /\ respBody # Nil =>
        /\ respBody \in Attempts
        /\ respBody < attempt \/ (respBody = attempt /\ pc = "sleep")
        /\ answer[respBody] \in {"throttled", "serverError"}

(* What the error and the body of a returned call are about.               *)
LastAttemptInv ==
    pc = "returned" =>
        /\ result.err.kind = "network" =>
              /\ MaxRetries \in Attempts
              /\ result.err.of = MaxRetries /\ answer[MaxRetries] = "network"
              /\ result.body # Nil =>
                    answer[result.body] \in {"throttled", "serverError"}
        /\ result.err.kind = "read" =>
              /\ attempt \in Attempts
              /\ result.err.of = attempt /\ answer[attempt] = "read"
              /\ result.body = Nil
        /\ result.err.kind \in ApiErrors => result.body = attempt

LEMMA InitError == Init => BodyInv /\ LastAttemptInv
  BY DEF Init, BodyInv, LastAttemptInv

(* The two are inductive relative to IInv.                                 *)
LEMMA StepError ==
    IInv /\ BodyInv /\ LastAttemptInv /\ [Next]_vars => BodyInv' /\ LastAttemptInv'
<1> SUFFICES ASSUME IInv, BodyInv, LastAttemptInv, [Next]_vars
             PROVE  BodyInv' /\ LastAttemptInv'
  OBVIOUS
<1> USE DEF config, loop, env, history
<1>1. /\ attempt \in Nat /\ MaxRetries \in Int
      /\ respBody \in Attempts \cup {Nil}
      /\ answer \in [Attempts -> Answers]
      /\ Nil \notin Attempts
  BY RetriesAreInteger DEF IInv, TypeOK, Attempts, Nil
<1>2. CASE \/ Marshal \/ Send \/ Respond \/ SleepTick \/ CancelContext
           \/ ServerHandles \/ UNCHANGED vars
  <2>1. UNCHANGED <<attempt, respBody, result, answer>>
    BY <1>2 DEF Marshal, Send, Respond, ResponseArrives, SleepTick,
                CancelContext, ServerHandles, vars
  <2>2. pc' # pc => pc \notin {"sleep", "returned"} /\ pc' # "returned"
    BY <1>2 DEF Marshal, Send, Respond, ResponseArrives, SleepTick,
                CancelContext, ServerHandles, vars
  <2> QED
    BY <2>1, <2>2 DEF BodyInv, LastAttemptInv
<1>3. CASE MarshalFails \/ BuildFails \/ SleepCancelled
  <2>1. /\ pc' = "returned"
        /\ result'.err.kind \in {"marshal", "build", "cancelled"}
    BY <1>3 DEF MarshalFails, BuildFails, SleepCancelled, Leave, Return,
                SetupErr, Err
  <2> QED
    BY <2>1 DEF BodyInv, LastAttemptInv, ApiErrors
<1>4. CASE SendRefusedByContext \/ ConnectionFails
  <2>1. /\ NetworkError /\ pc \in {"loop", "inflight"} /\ attempt \in Attempts
    BY <1>4, <1>1 DEF SendRefusedByContext, ConnectionFails, Attempts, IInv,
                      CounterInv
  <2>2. /\ respBody' = respBody
        /\ answer' = [answer EXCEPT ![attempt] = "network"]
        /\ \/ pc' = "sleep" /\ attempt' = attempt
           \/ pc' = "loop" /\ attempt' = attempt + 1
    <3>1. CASE attempt < MaxRetries
      BY <2>1, <3>1 DEF NetworkError, FailAttempt
    <3>2. CASE ~(attempt < MaxRetries)
      BY <2>1, <3>2 DEF NetworkError, FailAttempt
    <3> QED
      BY <3>1, <3>2
  <2>3. respBody # Nil => respBody < attempt /\ answer'[respBody] = answer[respBody]
    BY <1>1, <2>1, <2>2 DEF BodyInv
  <2> QED
    BY <1>1, <2>1, <2>2, <2>3 DEF BodyInv, LastAttemptInv
<1>5. CASE ReadFails
  <2>1. /\ pc' = "returned" /\ result' = [body |-> Nil, err |-> Err("read")]
        /\ attempt' = attempt /\ attempt \in Attempts
        /\ answer' = [answer EXCEPT ![attempt] = "read"]
    BY <1>5 DEF ReadFails, Return, IInv, CounterInv
  <2> QED
    BY <1>1, <2>1 DEF BodyInv, LastAttemptInv, ApiErrors, Err
<1>6. CASE ReadBody
  <2>1. /\ pc = "reading" /\ attempt \in Attempts /\ resp \in Responses
        /\ respBody' = attempt /\ attempt' = attempt
        /\ answer' = [answer EXCEPT ![attempt] = AnswerOf(resp.status)]
    BY <1>6 DEF ReadBody, FinishRead, IInv, CounterInv
  <2>2. CASE pc' = "returned"
    <3>1. /\ result'.body = attempt
          /\ result'.err = NoErr \/ result'.err = parseError(resp)
      BY <1>6, <2>1, <2>2 DEF ReadBody, FinishRead, Return
    <3>2. result'.err.kind \in ApiErrors \cup {"none"}
      BY <3>1, <2>1, ResponseClasses DEF NoErr
    <3> QED
      BY <2>1, <2>2, <3>1, <3>2 DEF BodyInv, LastAttemptInv, ApiErrors
  <2>3. CASE pc' # "returned"
    <3>1. pc' = "sleep" /\ shouldRetry(resp.status)
      BY <1>6, <2>3 DEF ReadBody, FinishRead, Return
    <3>2. AnswerOf(resp.status) \in {"throttled", "serverError"}
      BY <2>1, <3>1, ResponseClasses
    <3> QED
      BY <1>1, <2>1, <3>1, <3>2 DEF BodyInv, LastAttemptInv
  <2> QED
    BY <2>2, <2>3
<1>7. CASE TimerFires
  <2>1. /\ pc = "sleep" /\ pc' = "loop" /\ attempt' = attempt + 1
        /\ UNCHANGED <<respBody, answer>>
    BY <1>7 DEF TimerFires, WakeUp
  <2>2. respBody # Nil => /\ respBody \in Attempts /\ respBody < attempt + 1
                          /\ answer[respBody] \in {"throttled", "serverError"}
    <3> SUFFICES ASSUME respBody # Nil
                 PROVE  /\ respBody \in Attempts /\ respBody < attempt + 1
                        /\ answer[respBody] \in {"throttled", "serverError"}
      OBVIOUS
    <3>1. respBody \in Attempts /\ respBody \in Int
      BY <1>1 DEF Attempts
    <3> QED
      BY <1>1, <2>1, <3>1 DEF BodyInv
  <2> QED
    BY <2>1, <2>2 DEF BodyInv, LastAttemptInv
<1>8. CASE LoopEnds
  <2>1. /\ pc = "loop" /\ attempt > MaxRetries /\ pc' = "returned"
        /\ result' = [body |-> respBody, err |-> lastErr]
        /\ UNCHANGED <<attempt, answer>>
    BY <1>8 DEF LoopEnds, Leave, Return
  <2>2. CASE attempt = 0
    <3>1. result'.err.kind = "none"
      BY <2>1, <2>2 DEF IInv, LastErrInv, NoErr
    <3> QED
      BY <2>1, <3>1 DEF BodyInv, LastAttemptInv, ApiErrors
  <2>3. CASE attempt # 0
    <3>1. /\ lastErr = [kind |-> "network", of |-> MaxRetries]
          /\ answer[MaxRetries] = "network" /\ MaxRetries \in Attempts
      BY <1>1, <2>1, <2>3 DEF IInv, LastErrInv, CounterInv, Attempts
    <3> QED
      BY <2>1, <3>1 DEF BodyInv, LastAttemptInv, ApiErrors
  <2> QED
    BY <2>2, <2>3
<1> QED
  BY <1>2, <1>3, <1>4, <1>5, <1>6, <1>7, <1>8 DEF Next

(* The error that a call returns is about its last attempt, and only a     *)
(* network error may come with the body of an older response               *)
(* (client.go:124, 150, 166-170).                                          *)
THEOREM ErrorIsAboutLastAttemptThm == Spec => []ErrorIsAboutLastAttempt
<1>1. Spec => [](BodyInv /\ LastAttemptInv)
  BY InitError, StepError, AlwaysIInv, PTL DEF Spec, SafeSpec
<1>2. IInv /\ LastAttemptInv => ErrorIsAboutLastAttempt
  <2> SUFFICES ASSUME IInv, LastAttemptInv, Returned,
                      result.err.kind \in ApiErrors \cup {"network", "read"}
               PROVE  /\ \A j \in Attempts : j > result.err.of =>
                            fate[j] = "unsent" /\ answer[j] = "none"
                      /\ result.err.kind = "network"
                            <=> answer[result.err.of] = "network"
                      /\ result.err.kind \in ApiErrors
                            => result.body = result.err.of
                      /\ result.body # Nil => answer[result.body]
                            \in {"throttled", "serverError", "refused"}
    BY DEF ErrorIsAboutLastAttempt
  <2>1. CASE result.err.kind = "network"
    <3>1. /\ result.err.of = MaxRetries /\ answer[MaxRetries] = "network"
          /\ result.body # Nil =>
                answer[result.body] \in {"throttled", "serverError"}
      BY <2>1 DEF LastAttemptInv, Returned
    <3>2. \A j \in Attempts : ~(j > MaxRetries)
      BY RetriesAreInteger DEF Attempts
    <3> QED
      BY <2>1, <3>1, <3>2 DEF ApiErrors
  <2>2. CASE result.err.kind # "network"
    <3>1. /\ result.err.of = attempt
          /\ answer[attempt] \in {"throttled", "serverError", "refused", "read"}
          /\ result.body = IF result.err.kind = "read" THEN Nil ELSE attempt
          /\ result.err.kind # "read" =>
                answer[attempt] \in {"throttled", "serverError", "refused"}
      BY <2>2 DEF LastAttemptInv, IInv, ResultInv, Returned, ApiErrors
    <3>2. \A j \in Attempts :
              j > attempt => fate[j] = "unsent" /\ answer[j] = "none"
      BY DEF IInv, FutureInv
    <3> QED
      BY <2>2, <3>1, <3>2 DEF ApiErrors
  <2> QED
    BY <2>1, <2>2
<1> QED
  BY <1>1, <1>2, AlwaysIInv, PTL

-----------------------------------------------------------------------------
(* Pacing.                                                                 *)

(* Every retry waits twice as long as the one before (retry.go:26-31).     *)
LEMMA BackoffDoubles ==
    /\ backoffDelay[1] = BaseDelay
    /\ \A n \in Nat : n >= 1 => backoffDelay[n + 1] = 2 * backoffDelay[n]
<1> DEFINE step == [p \in Nat \X Int |->
                       IF p[1] = 0 THEN BaseDelay ELSE 2 * p[2]]
           body(f) == [n \in Nat |-> IF n <= 1 THEN BaseDelay ELSE 2 * f[n - 1]]
<1>0. PICK f : Recursive(f, Int, BaseDelay, step)
  <2>1. step \in [Nat \X Int -> Int]
    BY BaseDelayIsInteger
  <2> HIDE DEF step
  <2> QED
    BY <2>1, BaseDelayIsInteger, PrimitiveRecursion
<1>1. /\ f \in [Nat -> Int] /\ f[0] = BaseDelay
      /\ \A n \in Nat : f[n + 1] = step[<<n, f[n]>>]
  BY <1>0 DEF Recursive
<1>2. f = body(f)
  <2>1. ASSUME NEW n \in Nat PROVE f[n] = body(f)[n]
    <3>1. CASE n = 0
      BY <1>1, <3>1
    <3>2. CASE n # 0
      <4>1. n - 1 \in Nat /\ (n - 1) + 1 = n
        BY <3>2
      <4>2. f[n] = step[<<n - 1, f[n - 1]>>] /\ f[n - 1] \in Int
        BY <1>1, <4>1
      <4> QED
        BY <3>2, <4>1, <4>2
    <3> QED
      BY <3>1, <3>2
  <2> QED
    BY <1>1, <2>1
<1>3. backoffDelay = body(backoffDelay)
  BY <1>2 DEF backoffDelay
<1>4. \A n \in Nat : backoffDelay[n] = body(backoffDelay)[n]
  BY <1>3
<1> QED
  BY <1>4

(* The delay before the n-th retry is BaseDelay * 2^(n - 1).               *)
LEMMA BackoffIsExponential ==
    \A n \in Nat : backoffDelay[n + 1] = BaseDelay * 2^n
<1> DEFINE S == {n \in Nat : backoffDelay[n + 1] = BaseDelay * 2^n}
<1>1. 0 \in S
  BY BackoffDoubles, PowersOfTwo, BaseDelayIsInteger
<1>2. ASSUME NEW n \in Nat, n \in S PROVE n + 1 \in S
  <2>1. backoffDelay[(n + 1) + 1] = 2 * backoffDelay[n + 1]
    BY BackoffDoubles
  <2>2. 2^n \in Nat /\ 2^(n + 1) = 2 * 2^n
    BY PowersOfTwo
  <2>3. backoffDelay[n + 1] = BaseDelay * 2^n
    BY <1>2
  <2>4. 2 * (BaseDelay * 2^n) = BaseDelay * (2 * 2^n)
    BY <2>2, BaseDelayIsInteger
  <2> QED
    BY <2>1, <2>2, <2>3, <2>4
<1> HIDE DEF S
<1>3. \A n \in Nat : n \in S
  BY <1>1, <1>2, InductionOnSet
<1> QED
  BY <1>3 DEF S

(* d ticks are enough before the n-th retry.                               *)
Paced(n, d) ==
    IF resp.status = 429 /\ resp.retryAfter > 0
    THEN d >= resp.retryAfter \/ resp.retryAfter > MaxDuration
    ELSE d >= backoffDelay[n]

(* The timer is set for what is owed, and what has been slept counts.      *)
PaceInv ==
    /\ pc = "sleep" => Paced(attempt + 1, slept + remaining)
    /\ pc \in {"loop", "inflight"} /\ attempt > 0 /\ attempt <= MaxRetries =>
          Paced(attempt, slept)

(* Whatever the response, the delay that the code computes is enough.      *)
LEMMA DelayIsPaced ==
    ASSUME resp \in Responses, NEW d \in retryDelay(resp), d \in Int,
           backoffDelay[attempt + 1] \in Int
    PROVE  Paced(attempt + 1, d)
<1>1. resp.retryAfter \in Int /\ MaxDuration \in Nat
  BY RetryAftersAreIntegers DEF Responses
<1> QED
  BY <1>1 DEF Paced, retryDelay, retryAfterDelay, Duration

LEMMA StepPaced == IInv /\ PaceInv /\ [Next]_vars => PaceInv'
<1> SUFFICES ASSUME IInv, PaceInv, [Next]_vars PROVE PaceInv'
  OBVIOUS
<1> USE DEF config, loop, env, history
<1>1. /\ attempt \in Nat /\ MaxRetries \in Int /\ slept \in Nat
      /\ remaining \in 0..MaxDuration /\ MaxDuration \in Nat
  BY RetriesAreInteger, RetryAftersAreIntegers DEF IInv, TypeOK
<1>2. CASE Marshal \/ Send \/ CancelContext \/ ServerHandles \/ UNCHANGED vars
  <2>1. UNCHANGED <<attempt, resp, remaining, slept>>
    BY <1>2 DEF Marshal, Send, CancelContext, ServerHandles, vars
  <2>2. \/ pc' = pc
        \/ pc = "do" /\ attempt = 0 /\ pc' = "loop"
        \/ pc = "loop" /\ pc' = "inflight"
    BY <1>2 DEF Marshal, Send, CancelContext, ServerHandles, vars, IInv,
                CounterInv
  <2> QED
    BY <1>1, <2>1, <2>2 DEF PaceInv, Paced
<1>3. CASE \/ MarshalFails \/ BuildFails \/ SleepCancelled \/ LoopEnds
           \/ Respond \/ ReadFails
  <2>1. pc' \in {"returned", "reading"}
    BY <1>3 DEF MarshalFails, BuildFails, SleepCancelled, LoopEnds, ReadFails,
                Leave, Return, Respond, ResponseArrives
  <2> QED
    BY <2>1 DEF PaceInv
<1>4. CASE SendRefusedByContext \/ ConnectionFails
  <2>1. NetworkError
    BY <1>4 DEF SendRefusedByContext, ConnectionFails
  <2>2. resp'.status = 0 /\ slept' = 0
    BY <2>1 DEF NetworkError, FailAttempt, NoResp
  <2>3. CASE attempt < MaxRetries
    <3>1. /\ pc' = "sleep" /\ attempt' = attempt
          /\ remaining' = backoffDelay[attempt + 1]
      BY <2>1, <2>3 DEF NetworkError, FailAttempt
    <3>2. backoffDelay[attempt + 1] \in 0..MaxDuration
      BY <1>1, <2>3, BackoffFits
    <3> QED
      BY <1>1, <2>2, <3>1, <3>2 DEF PaceInv, Paced
  <2>4. CASE ~(attempt < MaxRetries)
    <3>1. pc' = "loop" /\ attempt' = attempt + 1
      BY <2>1, <2>4 DEF NetworkError, FailAttempt
    <3> QED
      BY <1>1, <2>4, <3>1 DEF PaceInv
  <2> QED
    BY <2>3, <2>4
<1>5. CASE ReadBody
  <2>1. /\ attempt' = attempt /\ resp' = resp /\ resp \in Responses
        /\ slept' = 0 /\ attempt \in Attempts
        /\ pc' # "returned" => /\ pc' = "sleep" /\ attempt # MaxRetries
                               /\ remaining' \in retryDelay(resp)
    BY <1>5 DEF ReadBody, FinishRead, Return, IInv, CounterInv
  <2>2. CASE pc' = "returned"
    BY <2>2 DEF PaceInv
  <2>3. CASE pc' # "returned"
    <3>1. backoffDelay[attempt + 1] \in 0..MaxDuration
      BY <1>1, <2>1, <2>3, BackoffFits DEF Attempts
    <3>2. remaining' \in 0..MaxDuration
      BY <2>1, <2>3, <3>1, DelayInRange DEF retryDelay
    <3>3. Paced(attempt + 1, remaining')
      BY <1>1, <2>1, <2>3, <3>1, <3>2, DelayIsPaced
    <3> QED
      BY <1>1, <2>1, <2>3, <3>2, <3>3 DEF PaceInv, Paced
  <2> QED
    BY <2>2, <2>3
<1>6. CASE SleepTick
  <2>1. /\ pc' = "sleep" /\ pc = "sleep" /\ UNCHANGED <<attempt, resp>>
        /\ slept' + remaining' = slept + remaining
    BY <1>1, <1>6 DEF SleepTick
  <2> QED
    BY <1>1, <2>1 DEF PaceInv, Paced
<1>7. CASE TimerFires
  <2>1. /\ pc = "sleep" /\ pc' = "loop" /\ attempt' = attempt + 1
        /\ UNCHANGED <<resp, slept>> /\ slept + remaining = slept
    BY <1>1, <1>7 DEF TimerFires, WakeUp
  <2> QED
    BY <1>1, <2>1 DEF PaceInv, Paced
<1> QED
  BY <1>2, <1>3, <1>4, <1>5, <1>6, <1>7 DEF Next

(* No retry leaves before the server's Retry-After or, without one, before *)
(* BaseDelay * 2^(retry - 1) has passed (client.go:155-160).               *)
THEOREM RetriesArePacedThm == Spec => []RetriesArePaced
<1>1. Init => PaceInv
  BY DEF Init, PaceInv
<1>2. Spec => []PaceInv
  BY <1>1, StepPaced, AlwaysIInv, PTL DEF Spec, SafeSpec
<1>3. IInv /\ PaceInv => RetriesArePaced
  <2> SUFFICES ASSUME IInv, PaceInv, pc = "inflight", attempt > 0
               PROVE  IF resp.status = 429 /\ resp.retryAfter > 0
                      THEN \/ slept >= resp.retryAfter
                           \/ resp.retryAfter > MaxDuration
                      ELSE slept >= BaseDelay * 2^(attempt - 1)
    BY DEF RetriesArePaced
  <2>1. attempt \in Nat /\ attempt <= MaxRetries
    BY RetriesAreInteger DEF IInv, TypeOK, CounterInv, Attempts
  <2>2. Paced(attempt, slept)
    BY <2>1 DEF PaceInv
  <2>3. attempt - 1 \in Nat /\ (attempt - 1) + 1 = attempt
    BY <2>1
  <2>4. backoffDelay[attempt] = BaseDelay * 2^(attempt - 1)
    BY <2>3, BackoffIsExponential
  <2> QED
    BY <2>2, <2>4 DEF Paced
<1> QED
  BY <1>2, <1>3, AlwaysIInv, PTL

-----------------------------------------------------------------------------
(* Refinement of the contract.                                             *)

(* Leaving execute shows the caller an outcome the contract allows.        *)
LEMMA ReturnRefines ==
    ASSUME IInv, IInv', MaxRetries >= 0, ~Returned, Returned',
           UNCHANGED <<fate, attempt>>
    PROVE  Call!Next
<1> USE DEF Call!Attempts, Attempts
<1>1. outcome = "pending" /\ outcome' \in {"done", "refused", "unknown"}
  BY DEF outcome
<1>2. \A j \in Attempts : j > attempt /\ pc # "returned" => fate[j] = "unsent"
  BY DEF IInv, FutureInv
<1>3. CASE outcome' = "done"
  <2>1. result'.err = NoErr
    BY <1>3 DEF outcome
  <2>2. attempt \in Attempts /\ fate[attempt] = "applied"
    BY <2>1 DEF IInv, ResultInv, Returned
  <2>3. Call!IsLast(attempt)
    BY <2>2, <1>2 DEF Call!IsLast, Returned
  <2> QED
    BY <1>1, <1>3, <2>2, <2>3 DEF Call!Next, Call!ReturnDone
<1>4. CASE outcome' = "refused"
  <2>1. /\ result'.err.kind \in ApiErrors
        /\ answer'[result'.err.of] \in {"throttled", "refused"}
    BY <1>4 DEF outcome
  <2>2. attempt \in Attempts /\ fate[attempt] = "rejected"
    BY <2>1 DEF IInv, ResultInv, Returned
  <2>3. Call!IsLast(attempt)
    BY <2>2, <1>2 DEF Call!IsLast, Returned
  <2> QED
    BY <1>1, <1>4, <2>2, <2>3 DEF Call!Next, Call!ReturnRefused
<1>5. CASE outcome' = "unknown"
  BY <1>1, <1>5 DEF Call!Next, Call!ReturnUnknown
<1> QED
  BY <1>1, <1>3, <1>4, <1>5

(* A step that neither returns nor touches a copy is invisible.            *)
LEMMA InvisibleStep ==
    ASSUME UNCHANGED fate, ~Returned, ~Returned'
    PROVE  UNCHANGED Call!vars
BY DEF Call!vars, outcome

LEMMA RefinementStep ==
    ASSUME MaxRetries >= 0
    PROVE  IInv /\ IInv' /\ [Next]_vars => [Call!Next]_(Call!vars)
<1> SUFFICES ASSUME IInv, IInv', [Next]_vars
             PROVE  Call!Next \/ UNCHANGED Call!vars
  OBVIOUS
<1> USE DEF config, loop, env, history, Returned
<1>1. CASE UNCHANGED vars
  BY <1>1 DEF vars, Call!vars, outcome
<1>2. CASE MarshalFails \/ BuildFails \/ ReadFails \/ SleepCancelled \/ LoopEnds
  BY <1>2, ReturnRefines
  DEF MarshalFails, BuildFails, ReadFails, SleepCancelled, LoopEnds, Leave,
      Return
<1>3. CASE Marshal \/ SendRefusedByContext \/ ConnectionFails \/ Respond
           \/ SleepTick \/ TimerFires
  <2>1. UNCHANGED fate /\ ~Returned /\ ~Returned'
    BY <1>3
    DEF Marshal, SendRefusedByContext, ConnectionFails, NetworkError,
        FailAttempt, Respond, ResponseArrives, SleepTick, TimerFires, WakeUp
  <2> QED
    BY <2>1, InvisibleStep
<1>4. CASE ReadBody
  <2>1. UNCHANGED <<fate, attempt>> /\ ~Returned
    BY <1>4 DEF ReadBody, FinishRead
  <2>2. CASE Returned'
    BY <2>1, <2>2, ReturnRefines
  <2>3. CASE ~Returned'
    BY <2>1, <2>3, InvisibleStep
  <2> QED
    BY <2>2, <2>3
<1>5. CASE Send
  <2>1. attempt \in Attempts
    BY <1>5, RetriesAreInteger DEF Send, IInv, TypeOK, Attempts
  <2>2. \A j \in Attempts : j >= attempt => fate[j] = "unsent"
    BY <1>5, RetriesAreInteger DEF Send, IInv, TypeOK, FutureInv, Attempts
  <2>3. outcome = "pending" /\ outcome' = "pending"
    BY <1>5 DEF Send, outcome
  <2>4. fate' = [fate EXCEPT ![attempt] = "wire"]
    BY <1>5 DEF Send
  <2> QED
    BY <2>1, <2>2, <2>3, <2>4
    DEF Call!Next, Call!Issue, Call!Attempts, Attempts
<1>6. CASE CancelContext
  BY <1>6 DEF CancelContext, Call!vars, outcome
<1>7. CASE ServerHandles
  <2>1. UNCHANGED outcome
    BY <1>7 DEF ServerHandles, outcome
  <2> QED
    BY <1>7, <2>1
    DEF ServerHandles, Call!Next, Call!Serve, Call!Attempts, Attempts
<1> QED
  BY <1>1, <1>2, <1>3, <1>4, <1>5, <1>6, <1>7 DEF Next

(* What execute does is allowed by the contract HttpCall that the session, *)
(* invoice and authentication packages rely on, for every non-negative     *)
(* retry budget: at most MaxRetries + 1 copies one after the other, none   *)
(* after the call has returned, and a definite outcome only when the last  *)
(* copy was definitely acted on or definitely refused.                     *)
THEOREM ImplementsHttpCallThm ==
    ASSUME MaxRetries >= 0
    PROVE  Spec => ImplementsHttpCall
<1>1. Init => Call!Init
  BY DEF Init, Call!Init, Call!Attempts, Attempts, outcome, Returned
<1>2. IInv /\ IInv' /\ [Next]_vars => [Call!Next]_(Call!vars)
  BY RefinementStep
<1> QED
  BY <1>1, <1>2, AlwaysIInv, PTL
  DEF Spec, SafeSpec, ImplementsHttpCall, Call!Spec

-----------------------------------------------------------------------------
(* Termination: liveness itself is left to TLC, its measure is not.        *)

(* A step of the call, as opposed to one of its context or of the server.  *)
CallStep ==
    \/ Marshal \/ MarshalFails \/ BuildFails
    \/ Send \/ SendRefusedByContext \/ ConnectionFails
    \/ Respond \/ ReadFails \/ ReadBody
    \/ SleepTick \/ TimerFires \/ SleepCancelled
    \/ LoopEnds

(* The steps of one iteration that sleeps for the longest duration.        *)
Iteration == MaxDuration + 5

IterationsLeft == IF attempt <= MaxRetries THEN MaxRetries + 1 - attempt ELSE 0

(* An upper bound on the steps that a call still takes.                    *)
StepsLeft ==
    CASE pc = "do"       -> IterationsLeft * Iteration + 2
      [] pc = "loop"     -> IterationsLeft * Iteration + 1
      [] pc = "inflight" -> IterationsLeft * Iteration
      [] pc = "reading"  -> IterationsLeft * Iteration - 1
      [] pc = "sleep"    -> (IterationsLeft - 1) * Iteration + remaining + 2
      [] OTHER           -> 0

LEMMA IterationsCount ==
    ASSUME IInv
    PROVE  /\ Iteration \in Nat /\ IterationsLeft \in Nat
           /\ IterationsLeft * Iteration \in Nat
           /\ IterationsLeft > 0 =>
                 /\ (IterationsLeft - 1) * Iteration \in Nat
                 /\ IterationsLeft * Iteration
                       = (IterationsLeft - 1) * Iteration + MaxDuration + 5
           /\ attempt \in Attempts => IterationsLeft > 0
           /\ pc \in {"inflight", "reading", "sleep"} => attempt \in Attempts
<1>1. /\ attempt \in Nat /\ MaxRetries \in Int /\ MaxDuration \in Nat
  BY RetriesAreInteger, RetryAftersAreIntegers DEF IInv, TypeOK
<1>2. /\ Iteration \in Nat /\ IterationsLeft \in Nat
      /\ Iteration = MaxDuration + 5
  BY <1>1 DEF Iteration, IterationsLeft
<1>3. \A m, k \in Nat : m * k \in Nat
  OBVIOUS
<1>4. \A m, k \in Nat : m > 0 => m * k = (m - 1) * k + k
  OBVIOUS
<1>5. IterationsLeft > 0 =>
        /\ (IterationsLeft - 1) * Iteration \in Nat
        /\ IterationsLeft * Iteration
              = (IterationsLeft - 1) * Iteration + Iteration
  <2>1. IterationsLeft > 0 => IterationsLeft - 1 \in Nat
    BY <1>2
  <2> QED
    BY <1>2, <1>3, <1>4, <2>1
<1>6. IterationsLeft > 0 =>
        IterationsLeft * Iteration
          = (IterationsLeft - 1) * Iteration + MaxDuration + 5
  BY <1>1, <1>2, <1>5
<1>7. attempt \in Attempts => IterationsLeft > 0
  BY <1>1 DEF Attempts, IterationsLeft
<1>8. pc \in {"inflight", "reading", "sleep"} => attempt \in Attempts
  BY <1>1 DEF IInv, CounterInv, Attempts
<1> QED
  BY <1>2, <1>3, <1>5, <1>6, <1>7, <1>8

(* After attempt comes attempt + 1, with one iteration less.               *)
LEMMA NextIteration ==
    ASSUME IInv, attempt \in Attempts, attempt' = attempt + 1
    PROVE  IterationsLeft' = IterationsLeft - 1
<1> attempt \in Nat /\ MaxRetries \in Int
  BY RetriesAreInteger DEF IInv, TypeOK
<1> QED
  BY DEF IterationsLeft, Attempts

LEMMA StepProgress ==
    ASSUME IInv, IInv', [Next]_vars
    PROVE  /\ CallStep => StepsLeft' < StepsLeft
           /\ ~CallStep => StepsLeft' = StepsLeft
<1>0. /\ MaxDuration \in Nat /\ remaining \in 0..MaxDuration
      /\ remaining' \in 0..MaxDuration
      /\ Iteration' = Iteration
  BY RetryAftersAreIntegers DEF IInv, TypeOK, Iteration
<1> DEFINE total == IterationsLeft * Iteration
           rest  == (IterationsLeft - 1) * Iteration
<1>1. /\ total \in Nat
      /\ IterationsLeft > 0 => rest \in Nat /\ total = rest + MaxDuration + 5
      /\ attempt \in Attempts => IterationsLeft > 0
      /\ pc \in {"inflight", "reading", "sleep"} => attempt \in Attempts
  BY IterationsCount
<1>2. UNCHANGED attempt =>
        IterationsLeft' = IterationsLeft /\ total' = total /\ rest' = rest
  BY <1>0 DEF IterationsLeft
<1>3. attempt \in Attempts /\ attempt' = attempt + 1 => total' = rest
  BY <1>0, NextIteration
<1> HIDE DEF total, rest
<1>4. StepsLeft = CASE pc = "do"       -> total + 2
                    [] pc = "loop"     -> total + 1
                    [] pc = "inflight" -> total
                    [] pc = "reading"  -> total - 1
                    [] pc = "sleep"    -> rest + remaining + 2
                    [] OTHER           -> 0
  BY DEF StepsLeft, total, rest
<1>5. StepsLeft' = CASE pc' = "do"       -> total' + 2
                     [] pc' = "loop"     -> total' + 1
                     [] pc' = "inflight" -> total'
                     [] pc' = "reading"  -> total' - 1
                     [] pc' = "sleep"    -> rest' + remaining' + 2
                     [] OTHER            -> 0
  BY DEF StepsLeft, total, rest
<1>6. CASE Marshal \/ Send \/ Respond
  <2>1. UNCHANGED attempt /\ CallStep
    BY <1>6 DEF Marshal, Send, Respond, ResponseArrives, loop, CallStep
  <2>2. \/ pc = "do" /\ pc' = "loop"
        \/ pc = "loop" /\ pc' = "inflight"
        \/ pc = "inflight" /\ pc' = "reading"
    BY <1>6 DEF Marshal, Send, Respond, ResponseArrives
  <2> QED
    BY <2>1, <2>2, <1>1, <1>2, <1>4, <1>5
<1>7. CASE MarshalFails \/ BuildFails \/ ReadFails \/ SleepCancelled \/ LoopEnds
  <2>1. CallStep /\ pc' = "returned"
    BY <1>7 DEF MarshalFails, BuildFails, ReadFails, SleepCancelled, LoopEnds,
                Leave, Return, CallStep
  <2>2. pc \in {"do", "loop", "reading", "sleep"}
    BY <1>7 DEF MarshalFails, BuildFails, ReadFails, SleepCancelled, LoopEnds
  <2> QED
    BY <2>1, <2>2, <1>0, <1>1, <1>4, <1>5
<1>8. CASE SendRefusedByContext \/ ConnectionFails
  <2>1. CallStep /\ attempt \in Attempts
    BY <1>8, RetriesAreInteger
    DEF SendRefusedByContext, ConnectionFails, CallStep, IInv, TypeOK,
        CounterInv, Attempts
  <2>2. /\ pc \in {"loop", "inflight"}
        /\ \/ pc' = "sleep" /\ UNCHANGED attempt
           \/ pc' = "loop" /\ attempt' = attempt + 1
    BY <1>8 DEF SendRefusedByContext, ConnectionFails, NetworkError, FailAttempt
  <2> QED
    BY <2>1, <2>2, <1>0, <1>1, <1>2, <1>3, <1>4, <1>5
<1>9. CASE ReadBody
  <2>1. CallStep /\ attempt \in Attempts /\ UNCHANGED attempt /\ pc = "reading"
        /\ pc' \in {"sleep", "returned"}
    BY <1>9, <1>1 DEF ReadBody, FinishRead, Return, CallStep
  <2> QED
    BY <2>1, <1>0, <1>1, <1>2, <1>4, <1>5
<1>10. CASE SleepTick
  <2>1. /\ CallStep /\ UNCHANGED attempt /\ pc = "sleep" /\ pc' = "sleep"
        /\ remaining' = remaining - 1
    BY <1>10 DEF SleepTick, CallStep
  <2> QED
    BY <2>1, <1>0, <1>1, <1>2, <1>4, <1>5
<1>11. CASE TimerFires
  <2>1. /\ CallStep /\ attempt' = attempt + 1 /\ pc = "sleep" /\ pc' = "loop"
        /\ attempt \in Attempts
    BY <1>11, <1>1 DEF TimerFires, WakeUp, CallStep
  <2> QED
    BY <2>1, <1>0, <1>1, <1>3, <1>4, <1>5
<1>12. CASE ~CallStep
  <2>1. CancelContext \/ ServerHandles \/ UNCHANGED vars
    BY <1>12 DEF Next, CallStep
  <2>2. UNCHANGED <<pc, attempt, remaining>>
    BY <2>1 DEF CancelContext, ServerHandles, vars, loop
  <2> QED
    BY <1>12, <2>2, <1>2, <1>4, <1>5
<1> QED
  BY <1>6, <1>7, <1>8, <1>9, <1>10, <1>11, <1>12 DEF CallStep

(* A call never runs in circles: every step it takes, whatever the server  *)
(* answers and whichever branch a select takes, brings it closer to its    *)
(* return, and nothing its caller or the server does sets it back.  So it  *)
(* returns within (MaxRetries + 1) * (MaxDuration + 5) + 2 steps of its    *)
(* own; that it takes these steps is CallReturns (client.go:94-173).       *)
THEOREM CallMakesProgress ==
    Spec => [][/\ StepsLeft \in Nat
               /\ CallStep => StepsLeft' < StepsLeft
               /\ ~CallStep => StepsLeft' = StepsLeft]_vars
<1>1. IInv => StepsLeft \in Nat
  <2> SUFFICES ASSUME IInv PROVE StepsLeft \in Nat
    OBVIOUS
  <2>1. MaxDuration \in Nat /\ remaining \in 0..MaxDuration
    BY RetryAftersAreIntegers DEF IInv, TypeOK
  <2> DEFINE total == IterationsLeft * Iteration
             rest  == (IterationsLeft - 1) * Iteration
  <2>2. /\ total \in Nat
        /\ pc \in {"reading", "sleep"} =>
              rest \in Nat /\ total = rest + MaxDuration + 5
    BY IterationsCount
  <2> HIDE DEF total, rest
  <2>3. StepsLeft = CASE pc = "do"       -> total + 2
                      [] pc = "loop"     -> total + 1
                      [] pc = "inflight" -> total
                      [] pc = "reading"  -> total - 1
                      [] pc = "sleep"    -> rest + remaining + 2
                      [] OTHER           -> 0
    BY DEF StepsLeft, total, rest
  <2> QED
    BY <2>1, <2>2, <2>3
<1>2. IInv /\ IInv' /\ [Next]_vars =>
        /\ CallStep => StepsLeft' < StepsLeft
        /\ ~CallStep => StepsLeft' = StepsLeft
  BY StepProgress
<1> QED
  BY <1>1, <1>2, AlwaysIInv, PTL DEF Spec, SafeSpec
=============================================================================
