---------------------------- MODULE PollingLoops ----------------------------
(***************************************************************************)
(* The two polling loops with growing delays, with their clock:            *)
(* OnlineSession.WaitUntilActive (pkg/ksef/session/online.go) polls until  *)
(* the session is open, at most MaxRetries more times after the first,     *)
(* under a deadline of its own; Manager.PollUntilProcessed                 *)
(* (pkg/ksef/invoice/status.go) polls until the invoice has a terminal     *)
(* status, for as long as the caller's context lasts.                      *)
(*                                                                         *)
(* A status request is a call of internal/httpclient: it takes any time,   *)
(* may fail at any time and fails when the context is done.  The code may  *)
(* be late at every step, so the clock may tick anywhere.                  *)
(***************************************************************************)
EXTENDS Integers, FiniteSetsExt

CONSTANTS
    MaxRetries,    \* 5
    BaseDelay,     \* 200 ms
    TotalTimeout,  \* 10 s
    MaxDelay,      \* 30 s
    Intervals,     \* intervals that callers of PollUntilProcessed pass
    MaxPolls,      \* bound: repeated polls that are counted
    MaxClock,      \* bound: no tick beyond this time while waiting
    MaxPollClock   \* bound: no tick beyond this time while polling

ASSUME LoopConstants ==
    /\ MaxRetries \in Nat
    /\ BaseDelay \in Nat \ {0} /\ TotalTimeout \in Nat
    /\ MaxDelay \in Nat /\ Intervals \subseteq Nat
    /\ MaxPolls \in Nat /\ MaxRetries <= MaxPolls
    /\ MaxClock \in Nat /\ MaxPollClock \in Nat

VARIABLES
    loop,       \* which of the two loops runs
    interval,   \* its first delay
    code,       \* server: status of the session or of the invoice
    clock,      \* time since the call
    cancelled,  \* the caller's context is done
    pc,         \* where the loop stands
    attempt,    \* sleeps begun
    delay,      \* delay of the next sleep
    wakeAt,     \* time at which the current timer fires
    seen,       \* status the last poll reported
    result      \* what the caller got back

input == <<loop, interval>>
world == <<code, clock, cancelled>>
vars  == <<input, world, pc, attempt, delay, wakeAt, seen, result>>

-----------------------------------------------------------------------------
(* Opened 100, Closed 170, ProcessedOK 200, DecryptionError 415, Cancelled *)
(* 440, ValidationError 445; "preparing": any code without a constant.     *)
SessionCodes == {"preparing", "opened", "closed", "processed",
                 "undecryptable", "cancelled", "invalid"}
BadSessionCodes == {"undecryptable", "cancelled", "invalid"}

(* Received 100, Processing 150, Accepted 200; "rejected": the other codes *)
(* of the API; "noCode": 0, from an answer that has no status in it.       *)
InvoiceCodes == {"received", "processing", "accepted", "rejected", "noCode"}

(* Mutant: 150 is forgotten among the codes that are not final.            *)
IsTerminal_Processing(c) == c \in InvoiceCodes \ {"received"}

(* Every code but 100 and 150.                                             *)
IsTerminal(c) == c \in InvoiceCodes \ {"received", "processing"}

Codes   == SessionCodes \cup InvoiceCodes
CodesOf == IF loop = "session" THEN SessionCodes ELSE InvoiceCodes

Horizon == IF loop = "session" THEN MaxClock ELSE MaxPollClock

(* Only WaitUntilActive has a budget of repeated polls.                    *)
Budget == IF loop = "session" THEN MaxRetries ELSE MaxPolls

Returned == pc = "returned"

(* Mutant: only the caller's context is watched.                           *)
ctxDone_ParentOnly == cancelled

(* WaitUntilActive derives a context with a deadline from the caller's.    *)
ctxDone == cancelled \/ (loop = "session" /\ clock >= TotalTimeout)

TypeOK ==
    /\ loop \in {"session", "invoice"}
    /\ interval \in Intervals \cup {BaseDelay}
    /\ code \in CodesOf
    /\ clock \in 0..Horizon
    /\ cancelled \in BOOLEAN
    /\ pc \in {"request", "switch", "sleep", "returned"}
    /\ attempt \in 0..Budget
    /\ delay \in Nat
    /\ wakeAt \in Nat
    /\ seen \in CodesOf \cup {"none"}
    /\ result \in {"pending", "active", "processed", "terminalState",
                   "statusFailed", "ctxDone", "notReady"}

Init ==
    /\ \/ loop = "session" /\ interval = BaseDelay /\ code = "preparing"
       \/ loop = "invoice" /\ interval \in Intervals /\ code = "received"
    /\ clock = 0
    /\ cancelled = FALSE
    /\ pc = "request"
    /\ attempt = 0
    /\ delay = interval
    /\ wakeAt = 0
    /\ seen = "none"
    /\ result = "pending"

Return(r) ==
    /\ pc' = "returned"
    /\ result' = r
    /\ UNCHANGED <<input, world, attempt, delay, wakeAt, seen>>

-----------------------------------------------------------------------------
(* Status and GetInvoiceStatus report the status at the server; an answer  *)
(* without a status decodes to code 0, which the session loop has no case  *)
(* for.                                                                    *)
StatusReturns ==
    /\ pc = "request"
    /\ ~ctxDone
    /\ seen' \in {code, IF loop = "session" THEN "preparing" ELSE "noCode"}
    /\ pc' = "switch"
    /\ UNCHANGED <<input, world, attempt, delay, wakeAt, result>>

StatusFails == pc = "request" /\ Return("statusFailed")

Active == pc = "switch" /\ seen = "opened" /\ Return("active")

InTerminalState ==
    pc = "switch" /\ seen \in BadSessionCodes /\ Return("terminalState")

(* The status is returned whatever it says: accepted or not.               *)
Processed == pc = "switch" /\ IsTerminal(seen) /\ Return("processed")

(* The loop goes on: sleep delay, and d the next time.                     *)
Sleep(d) ==
    /\ pc = "switch"
    /\ attempt' = Min({attempt + 1, MaxPolls})
    /\ wakeAt' = clock + delay
    /\ delay' = d
    /\ pc' = "sleep"
    /\ UNCHANGED <<input, world, seen, result>>

NotActive == seen \in SessionCodes \ (BadSessionCodes \cup {"opened"})

(* Mutant: the budget is not checked.                                      *)
KeepWaiting_Forever == NotActive /\ Sleep(2 * delay)

KeepWaiting == NotActive /\ attempt < MaxRetries /\ Sleep(2 * delay)

(* Mutant: the delay falls back to the interval at the cap.                *)
KeepPolling_Restart ==
    /\ seen \in InvoiceCodes /\ ~IsTerminal(seen)
    /\ Sleep(IF 2 * delay > MaxDelay THEN interval ELSE 2 * delay)

(* Doubled, and then at most MaxDelay: also if interval was longer.        *)
KeepPolling ==
    /\ seen \in InvoiceCodes /\ ~IsTerminal(seen)
    /\ Sleep(Min({2 * delay, MaxDelay}))

NotReady ==
    pc = "switch" /\ NotActive /\ attempt = MaxRetries /\ Return("notReady")

(* select: either branch when both are ready.                              *)
TimerFires ==
    /\ pc = "sleep" /\ clock >= wakeAt
    /\ pc' = "request"
    /\ UNCHANGED <<input, world, attempt, delay, wakeAt, seen, result>>

SleepCancelled == pc = "sleep" /\ ctxDone /\ Return("ctxDone")

-----------------------------------------------------------------------------
(* The clock, the caller and the server.                                   *)

Elsewhere ==
    /\ ~Returned
    /\ UNCHANGED <<input, pc, attempt, delay, wakeAt, seen, result>>

Tick ==
    /\ Elsewhere
    /\ clock < Horizon /\ clock' = clock + 1
    /\ UNCHANGED <<code, cancelled>>

Cancel ==
    /\ Elsewhere
    /\ ~cancelled /\ cancelled' = TRUE
    /\ UNCHANGED <<code, clock>>

(* The session settles, and may be closed or time out under another hand.  *)
NextCodes ==
    CASE code = "preparing"  -> {"opened", "undecryptable"}
      [] code = "opened"     -> {"closed", "cancelled"}
      [] code = "closed"     -> {"processed", "invalid"}
      [] code = "received"   -> {"processing", "rejected"}
      [] code = "processing" -> {"accepted", "rejected"}
      [] OTHER               -> {}

ServerStep ==
    /\ Elsewhere
    /\ code' \in NextCodes
    /\ UNCHANGED <<clock, cancelled>>

Switch ==
    Active \/ InTerminalState \/ Processed \/ KeepWaiting \/ KeepPolling
    \/ NotReady

Next ==
    \/ StatusReturns \/ StatusFails \/ Switch \/ TimerFires \/ SleepCancelled
    \/ Tick \/ Cancel \/ ServerStep

(* The goroutine runs; a request under a done context fails; time passes.  *)
Fairness ==
    /\ WF_vars(ctxDone /\ StatusFails)
    /\ WF_vars(Switch)
    /\ WF_vars(TimerFires \/ SleepCancelled)
    /\ WF_vars(Tick)

Spec == Init /\ [][Next]_vars /\ Fairness

-----------------------------------------------------------------------------
(* Properties.                                                             *)

(* The pause before the k-th repeated poll, by the two doc comments.       *)
Pause(k) ==
    LET doubled == interval * 2^(k - 1)
    IN  IF loop = "session" \/ k = 1 THEN doubled ELSE Min({doubled, MaxDelay})

Pauses[k \in Nat] == IF k = 0 THEN 0 ELSE Pauses[k - 1] + Pause(k)

(* No poll leaves before the whole series of delays that precede it has    *)
(* passed, however late the earlier polls were answered: each is the       *)
(* double of the one before, up to MaxDelay for an invoice.  A wait that   *)
(* is given up as not ready has had all of them (online.go:154-179,        *)
(* status.go:35-38, 43-65).                                                *)
PollsArePaced ==
    pc \in {"request", "switch"} \/ result = "notReady" =>
        clock >= Pauses[attempt]

(* Waiting for a session ends, also when the caller set no deadline and no *)
(* status request is answered; polling an invoice ends once the caller's   *)
(* context is done (online.go:151, status.go:56-60).                       *)
LoopReturns == (loop = "session" \/ cancelled) ~> Returned

outcome ==
    CASE result = "pending"                 -> "polling"
      [] result \in {"active", "processed"} -> "ok"
      [] OTHER                              -> "error"

(* The statuses that the documentation of the loops names: the session is  *)
(* open; the invoice is accepted or in an error state.                     *)
Polling ==
    INSTANCE StatusPolling
        WITH Success <- {"opened", "accepted", "rejected"},
             Failure <- BadSessionCodes

HasStatus == seen # "noCode"

(* As long as answers have a status in them, the session loop succeeds     *)
(* exactly on 100, fails on 415, 440 and 445 and asks again on every other *)
(* code; the invoice loop succeeds exactly on 200 and the error codes and  *)
(* asks again on 100 and 150 (online.go:165-176, status.go:47-54).  What   *)
(* becomes of an invoice whose answer has no status is ProcessedIsFinal.   *)
ImplementsStatusPolling ==
    Polling!Init
    /\ [][HasStatus /\ HasStatus' => Polling!Next]_(Polling!vars)

(* "Returns the final [InvoiceStatus] when a terminal state is reached"    *)
(* (status.go:40), "one in which no further status changes will occur"     *)
(* (types.go:47-48): when PollUntilProcessed returns a status, the server  *)
(* is done with the invoice.                                               *)
ProcessedIsFinal == result = "processed" => code \in {"accepted", "rejected"}

(* "It returns an error if the session enters a terminal error state or    *)
(* the 10-second deadline is exceeded" (online.go:139-140): a wait that    *)
(* reports the session not ready has waited that long.                     *)
GivesUpAtDeadline == result = "notReady" => clock >= TotalTimeout
=============================================================================
