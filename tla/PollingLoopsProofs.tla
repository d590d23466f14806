------------------------- MODULE PollingLoopsProofs -------------------------
(***************************************************************************)
(* Theorems about the two polling loops, for every retry budget, delay,    *)
(* timeout and polling interval.                                           *)
(*                                                                         *)
(* That a loop implements StatusPolling rests on what it knows while it is *)
(* about to ask again: the last answer, if there was one, settled nothing. *)
(***************************************************************************)
EXTENDS PollingLoops, NaturalLemmas

-----------------------------------------------------------------------------
LEMMA Smaller ==
    ASSUME NEW x \in Nat, NEW y \in Nat
    PROVE  /\ Min({x, y}) \in Nat /\ Min({x, y}) \in {x, y}
           /\ Min({x, y}) <= x /\ Min({x, y}) <= y
  <1>1. \E z \in {x, y} : \A w \in {x, y} : z <= w
    OBVIOUS
  <1> QED
    BY <1>1 DEF Min

LEMMA InitTypes == Init => TypeOK
  <1> SUFFICES ASSUME Init PROVE TypeOK
    OBVIOUS
  <1>1. cancelled \in BOOLEAN
    BY DEF Init
  <1>2. interval \in Nat /\ delay \in Nat
    BY LoopConstants DEF Init
  <1> QED
    BY <1>1, <1>2, LoopConstants
    DEF Init, TypeOK, CodesOf, SessionCodes, InvoiceCodes, Horizon, Budget

(* Every variable of the loops keeps its type: an invoice's delay doubles  *)
(* and is capped, a session's attempts stay within the budget.             *)
THEOREM TypesAreKept == Spec => []TypeOK
  <1>1. TypeOK /\ [Next]_vars => TypeOK'
    <2> SUFFICES ASSUME TypeOK, [Next]_vars PROVE TypeOK'
      OBVIOUS
    <2> USE LoopConstants
        DEF TypeOK, CodesOf, SessionCodes, InvoiceCodes, Horizon, Budget, input,
            world
    <2>1. CASE StatusReturns
      BY <2>1 DEF StatusReturns
    <2>2. CASE StatusFails \/ Active \/ InTerminalState \/ Processed \/ NotReady
               \/ SleepCancelled
      BY <2>2 DEF StatusFails, Active, InTerminalState, Processed, NotReady,
                  SleepCancelled, Return
    <2>3. ASSUME NEW d \in Nat, Sleep(d), loop = "session" => attempt < MaxRetries
          PROVE  TypeOK'
      <3>1. attempt' \in 0..Budget
        BY <2>3, Smaller DEF Sleep
      <3> QED
        BY <2>3, <3>1 DEF Sleep
    <2>4. CASE KeepWaiting
      BY <2>3, <2>4 DEF KeepWaiting
    <2>5. CASE KeepPolling
      <3>1. loop = "invoice" /\ \E d \in Nat : Sleep(d)
        BY <2>5, Smaller DEF KeepPolling
      <3> QED
        BY <2>3, <3>1
    <2>6. CASE TimerFires
      BY <2>6 DEF TimerFires
    <2>7. CASE Tick \/ Cancel \/ ServerStep
      <3>1. code' \in CodesOf
        BY <2>7 DEF Tick, Cancel, ServerStep, NextCodes, Elsewhere
      <3>2. clock' \in 0..Horizon
        BY <2>7 DEF Tick, Cancel, ServerStep, Elsewhere
      <3>3. cancelled' \in BOOLEAN
        BY <2>7 DEF Tick, Cancel, ServerStep, Elsewhere
      <3>4. UNCHANGED <<input, pc, attempt, delay, wakeAt, seen, result>>
        BY <2>7 DEF Tick, Cancel, ServerStep, Elsewhere
      <3> QED
        BY <3>1, <3>2, <3>3, <3>4
    <2>8. CASE UNCHANGED vars
      BY <2>8 DEF vars
    <2> QED
      BY <2>1, <2>2, <2>4, <2>5, <2>6, <2>7, <2>8 DEF Next, Switch
  <1> QED
    BY InitTypes, <1>1, PTL DEF Spec

-----------------------------------------------------------------------------
(* What the loops know about the last answer.                              *)

AnswerInv ==
    /\ pc \in {"request", "sleep"} => seen \notin BadSessionCodes \cup {"opened"}
                                      /\ ~IsTerminal(seen)
    /\ pc = "returned" <=> result # "pending"

LEMMA AnswersAreKnown == Spec => []AnswerInv
  <1>1. Init => AnswerInv
    BY DEF Init, AnswerInv, IsTerminal, InvoiceCodes, BadSessionCodes
  <1>2. TypeOK /\ AnswerInv /\ [Next]_vars => AnswerInv'
    <2> SUFFICES ASSUME TypeOK, AnswerInv, [Next]_vars PROVE AnswerInv'
      OBVIOUS
    <2> USE DEF AnswerInv, IsTerminal, InvoiceCodes, SessionCodes,
                BadSessionCodes, NotActive
    <2>1. CASE StatusReturns
      BY <2>1 DEF StatusReturns
    <2>2. CASE StatusFails \/ Active \/ InTerminalState \/ Processed \/ NotReady
               \/ SleepCancelled
      BY <2>2 DEF StatusFails, Active, InTerminalState, Processed, NotReady,
                  SleepCancelled, Return
    <2>3. CASE KeepWaiting \/ KeepPolling
      BY <2>3 DEF KeepWaiting, KeepPolling, Sleep
    <2>4. CASE TimerFires
      BY <2>4 DEF TimerFires
    <2>5. CASE Tick \/ Cancel \/ ServerStep
      BY <2>5 DEF Tick, Cancel, ServerStep, Elsewhere
    <2>6. CASE UNCHANGED vars
      BY <2>6 DEF vars
    <2> QED
      BY <2>1, <2>2, <2>3, <2>4, <2>5, <2>6 DEF Next, Switch
  <1> QED
    BY <1>1, <1>2, TypesAreKept, PTL DEF Spec

(* WaitUntilActive succeeds exactly on 100 and never asks again after an   *)
(* error status; PollUntilProcessed succeeds exactly on 200 and the error  *)
(* codes and asks again on 100 and 150, as long as the answers have a      *)
(* status: for all delays, budgets and timeouts, each implements           *)
(* StatusPolling (online.go:153-179, status.go:43-65, types.go:48-52).     *)
THEOREM ImplementsStatusPollingThm == Spec => ImplementsStatusPolling
  <1> USE DEF Polling!vars, outcome, IsTerminal, InvoiceCodes, SessionCodes,
              BadSessionCodes, Codes, CodesOf
  <1>1. Init => Polling!Init
    BY DEF Init, Polling!Init, Polling!NoCode
  <1>2. TypeOK /\ AnswerInv /\ [Next]_vars =>
          [HasStatus /\ HasStatus' => Polling!Next]_(Polling!vars)
    <2> SUFFICES ASSUME TypeOK, AnswerInv, [Next]_vars, HasStatus, HasStatus'
                 PROVE  Polling!Next \/ UNCHANGED Polling!vars
      OBVIOUS
    <2> USE DEF AnswerInv, TypeOK, HasStatus
    <2>1. CASE StatusReturns
      <3>1. seen' \in Codes /\ outcome = "polling" /\ UNCHANGED outcome
        BY <2>1 DEF StatusReturns
      <3>2. seen \notin {"opened", "accepted", "rejected"} \cup BadSessionCodes
        BY <2>1 DEF StatusReturns
      <3>3. Polling!Ask
        BY <3>1, <3>2 DEF Polling!Ask
      <3> QED
        BY <3>3 DEF Polling!Next
    <2>2. CASE StatusFails \/ InTerminalState \/ NotReady \/ SleepCancelled
      <3>1. Polling!Fail
        BY <2>2 DEF StatusFails, InTerminalState, NotReady, NotActive,
                    SleepCancelled, Return, Polling!Fail
      <3> QED
        BY <3>1 DEF Polling!Next
    <2>3. CASE Active \/ Processed
      <3>1. Polling!Succeed
        BY <2>3 DEF Active, Processed, Return, Polling!Succeed
      <3> QED
        BY <3>1 DEF Polling!Next
    <2>4. CASE KeepWaiting \/ KeepPolling
      BY <2>4 DEF KeepWaiting, KeepPolling, Sleep
    <2>5. CASE TimerFires
      BY <2>5 DEF TimerFires
    <2>6. CASE Tick \/ Cancel \/ ServerStep
      BY <2>6 DEF Tick, Cancel, ServerStep, Elsewhere
    <2>7. CASE UNCHANGED vars
      BY <2>7 DEF vars
    <2> QED
      BY <2>1, <2>2, <2>3, <2>4, <2>5, <2>6, <2>7 DEF Next, Switch
  <1> QED
    BY <1>1, <1>2, TypesAreKept, AnswersAreKnown, PTL
    DEF Spec, ImplementsStatusPolling

-----------------------------------------------------------------------------
(* Pacing.                                                                 *)

(* The pauses of a call do not change while it runs.                       *)
LEMMA PausesStay ==
    ASSUME UNCHANGED <<loop, interval>>
    PROVE  UNCHANGED Pauses /\ \A k \in Nat : Pause(k)' = Pause(k)
  BY DEF Pauses, Pause

(* Each pause is the double of the one before, an invoice's up to MaxDelay. *)
LEMMA PausesDouble ==
    ASSUME TypeOK, NEW k \in Nat
    PROVE  /\ Pause(k + 1) \in Nat
           /\ Pause(k + 2) <= 2 * Pause(k + 1)
           /\ loop = "invoice" => Pause(k + 2) <= MaxDelay
           /\ Pause(1) = interval
  <1>1. interval \in Nat /\ MaxDelay \in Nat
    BY LoopConstants DEF TypeOK
  <1>2. /\ (k + 1) - 1 = k /\ (k + 2) - 1 = k + 1 /\ k + 2 # 1
        /\ 2^k \in Nat /\ 2^(k + 1) \in Nat /\ 2^(k + 1) = 2 * 2^k
        /\ 2^(1 - 1) = 1
    BY PowersOfTwo
  <1> DEFINE d == interval * 2^k
             e == interval * 2^(k + 1)
  <1>3. d \in Nat /\ e = 2 * d
    BY <1>1, <1>2
  <1>4. interval * 2^(1 - 1) = interval
    BY <1>1, <1>2
  <1>5. /\ Pause(k + 1) \in {d, Min({d, MaxDelay})}
        /\ loop = "session" \/ k = 0 => Pause(k + 1) = d
        /\ loop # "session" /\ k # 0 => Pause(k + 1) = Min({d, MaxDelay})
    BY <1>2 DEF Pause
  <1>6. /\ loop = "session" => Pause(k + 2) = e
        /\ loop # "session" => Pause(k + 2) = Min({e, MaxDelay})
    BY <1>2 DEF Pause
  <1>7. Pause(1) = interval
    BY <1>4 DEF Pause
  <1> HIDE DEF d, e
  <1>8. /\ Min({d, MaxDelay}) \in Nat /\ Min({d, MaxDelay}) \in {d, MaxDelay}
        /\ Min({e, MaxDelay}) \in Nat
        /\ Min({e, MaxDelay}) <= e /\ Min({e, MaxDelay}) <= MaxDelay
    BY <1>1, <1>3, Smaller
  <1>9. loop \in {"session", "invoice"}
    BY DEF TypeOK
  <1> QED
    BY <1>1, <1>3, <1>5, <1>6, <1>7, <1>8, <1>9

(* The pauses add up from none.                                            *)
LEMMA PausesAddUp ==
    ASSUME TypeOK
    PROVE  /\ Pauses[0] = 0
           /\ \A k \in Nat : /\ Pauses[k] \in Nat
                             /\ Pauses[k + 1] = Pauses[k] + Pause(k + 1)
  <1> DEFINE step == [p \in Nat \X Nat |-> p[2] + Pause(p[1] + 1)]
             body(f) == [k \in Nat |-> IF k = 0 THEN 0 ELSE f[k - 1] + Pause(k)]
  <1>0. PICK f : Recursive(f, Nat, 0, step)
    <2>1. step \in [Nat \X Nat -> Nat]
      BY PausesDouble
    <2> HIDE DEF step
    <2> QED
      BY <2>1, PrimitiveRecursion
  <1>1. /\ f \in [Nat -> Nat] /\ f[0] = 0
        /\ \A k \in Nat : f[k + 1] = step[<<k, f[k]>>]
    BY <1>0 DEF Recursive
  <1>2. f = body(f)
    <2>1. ASSUME NEW k \in Nat PROVE f[k] = body(f)[k]
      <3>1. CASE k = 0
        BY <1>1, <3>1
      <3>2. CASE k # 0
        <4>1. k - 1 \in Nat /\ (k - 1) + 1 = k
          BY <3>2
        <4>2. f[k] = step[<<k - 1, f[k - 1]>>] /\ f[k - 1] \in Nat
          BY <1>1, <4>1
        <4>3. f[k] = f[k - 1] + Pause(k)
          BY <4>1, <4>2
        <4> QED
          BY <3>2, <4>3
      <3> QED
        BY <3>1, <3>2
    <2> QED
      BY <1>1, <2>1
  <1>3. Pauses = body(Pauses)
    BY <1>2 DEF Pauses
  <1> DEFINE S == {k \in Nat : Pauses[k] \in Nat}
  <1>4. Pauses[0] = 0
    BY <1>3
  <1>5. \A k \in Nat : Pauses[k + 1] = Pauses[k] + Pause(k + 1)
    <2> TAKE k \in Nat
    <2>1. k + 1 \in Nat /\ k + 1 # 0 /\ (k + 1) - 1 = k
      OBVIOUS
    <2> HIDE DEF Pauses
    <2>2. Pauses[k + 1] = body(Pauses)[k + 1]
      BY <1>3
    <2> QED
      BY <2>1, <2>2
  <1>6. \A k \in Nat : k \in S
    <2>1. 0 \in S
      BY <1>4
    <2>2. \A k \in Nat : k \in S => k + 1 \in S
      BY <1>5, PausesDouble
    <2> HIDE DEF S
    <2> QED
      BY <2>1, <2>2, InductionOnSet
  <1> QED
    BY <1>4, <1>5, <1>6

(* The next delay is long enough for the pauses that are counted, and a    *)
(* timer is set for the end of them.                                       *)
PaceInv ==
    /\ loop = "session" \/ attempt < MaxPolls => delay >= Pause(attempt + 1)
    /\ pc \in {"request", "switch"} \/ result = "notReady" =>
          clock >= Pauses[attempt]
    /\ pc = "sleep" => wakeAt >= Pauses[attempt]

(* A sleep in which the delay at least doubles, up to MaxDelay.            *)
LEMMA SleepIsPaced ==
    ASSUME TypeOK, TypeOK', AnswerInv, PaceInv, NEW d \in Nat, Sleep(d),
           \/ loop = "session" /\ attempt < MaxRetries /\ d = 2 * delay
           \/ loop = "invoice" /\ d = Min({2 * delay, MaxDelay})
    PROVE  PaceInv'
  <1>1. /\ attempt \in Nat /\ delay \in Nat /\ clock \in Nat
        /\ MaxPolls \in Nat /\ MaxDelay \in Nat /\ MaxRetries <= MaxPolls
        /\ loop = "session" => attempt <= MaxRetries
        /\ loop = "invoice" => attempt <= MaxPolls
    BY LoopConstants DEF TypeOK, Horizon, Budget
  <1>2. /\ pc = "switch" /\ pc' = "sleep" /\ wakeAt' = clock + delay
        /\ delay' = d /\ UNCHANGED <<loop, interval, result>>
        /\ attempt' = Min({attempt + 1, MaxPolls})
    BY DEF Sleep, input
  <1>3. \/ attempt' = attempt + 1 /\ attempt + 1 <= MaxPolls
        \/ attempt = MaxPolls /\ attempt' = attempt /\ loop = "invoice"
    <2>1. /\ attempt' \in {attempt + 1, MaxPolls}
          /\ attempt' <= attempt + 1 /\ attempt' <= MaxPolls
      BY <1>1, <1>2, Smaller
    <2> QED
      BY <1>1, <2>1, LoopConstants DEF TypeOK
  <1>4. UNCHANGED Pauses /\ \A k \in Nat : Pause(k)' = Pause(k)
    BY <1>2, PausesStay
  <1>5. /\ Pauses[attempt] \in Nat
        /\ Pauses[attempt + 1] = Pauses[attempt] + Pause(attempt + 1)
        /\ Pause(attempt + 1) \in Nat /\ Pause(attempt + 2) \in Nat
        /\ Pause(attempt + 2) <= 2 * Pause(attempt + 1)
        /\ loop = "invoice" => Pause(attempt + 2) <= MaxDelay
    <2>1. attempt + 1 \in Nat /\ (attempt + 1) + 1 = attempt + 2
      BY <1>1
    <2>2. Pause(attempt + 1) \in Nat /\ Pause((attempt + 1) + 1) \in Nat
      BY <1>1, <2>1, PausesDouble
    <2> QED
      BY <1>1, <2>1, <2>2, PausesAddUp, PausesDouble
  <1>6. clock >= Pauses[attempt] /\ result = "pending"
    BY <1>2 DEF PaceInv, AnswerInv
  <1>7. attempt < MaxPolls => delay >= Pause(attempt + 1)
    BY DEF PaceInv
  <1>8. wakeAt' >= Pauses[attempt']
    BY <1>1, <1>2, <1>3, <1>5, <1>6, <1>7
  <1>9. loop = "session" \/ attempt' < MaxPolls => delay' >= Pause(attempt' + 1)
    <2>1. CASE attempt' = attempt + 1
      <3>1. 2 * delay \in Nat /\ 2 * delay >= Pause(attempt + 2)
        BY <1>1, <1>3, <1>5, <1>7, <2>1
      <3>2. d >= Pause(attempt + 2)
        <4>1. Min({2 * delay, MaxDelay}) \in {2 * delay, MaxDelay}
          BY <1>1, <3>1, Smaller
        <4> QED
          BY <1>1, <1>5, <3>1, <4>1
      <3>3. attempt' + 1 = attempt + 2
        BY <1>1, <2>1
      <3> QED
        BY <1>2, <3>2, <3>3
    <2>2. CASE attempt' # attempt + 1
      BY <1>1, <1>3, <2>2
    <2> QED
      BY <2>1, <2>2
  <1>10. attempt' + 1 \in Nat
    BY <1>1, <1>3
  <1> QED
    BY <1>2, <1>4, <1>6, <1>8, <1>9, <1>10 DEF PaceInv

LEMMA StepPaced ==
    TypeOK /\ TypeOK' /\ AnswerInv /\ PaceInv /\ [Next]_vars => PaceInv'
  <1> SUFFICES ASSUME TypeOK, TypeOK', AnswerInv, PaceInv, [Next]_vars
               PROVE  PaceInv'
    OBVIOUS
  <1>1. CASE KeepWaiting
    BY <1>1, SleepIsPaced
    DEF KeepWaiting, NotActive, TypeOK, CodesOf, InvoiceCodes, SessionCodes,
        BadSessionCodes
  <1>2. CASE KeepPolling
    <2>1. 2 * delay \in Nat /\ MaxDelay \in Nat
      BY LoopConstants DEF TypeOK
    <2>2. Min({2 * delay, MaxDelay}) \in Nat
      BY <2>1, Smaller
    <2>3. loop = "invoice"
      BY <1>2 DEF KeepPolling, TypeOK, CodesOf, InvoiceCodes, SessionCodes
    <2> QED
      BY <1>2, <2>2, <2>3, SleepIsPaced DEF KeepPolling
  <1>3. CASE ~KeepWaiting /\ ~KeepPolling
    <2>1. UNCHANGED <<loop, interval, attempt, delay, wakeAt>>
      BY <1>3 DEF Next, Switch, StatusReturns, StatusFails, Active,
        InTerminalState, Processed, NotReady, TimerFires, SleepCancelled, Tick,
        Cancel, ServerStep, Elsewhere, Return, input, vars
    <2>2. /\ UNCHANGED Pauses /\ \A k \in Nat : Pause(k)' = Pause(k)
          /\ attempt \in Nat /\ attempt + 1 \in Nat
      BY <2>1, PausesStay, LoopConstants DEF TypeOK, Budget
    <2>3. clock' >= clock /\ clock \in Nat /\ clock' \in Nat
      BY <1>3, LoopConstants
      DEF Next, Switch, StatusReturns, StatusFails, Active, InTerminalState,
          Processed, NotReady, TimerFires, SleepCancelled, Tick, Cancel,
          ServerStep, Elsewhere, Return, world, vars, TypeOK, Horizon
    <2>4. Pauses[attempt] \in Nat
      BY <2>2, PausesAddUp
    <2>5. /\ pc' = "sleep" => pc = "sleep"
          /\ pc' \in {"request", "switch"} \/ result' = "notReady" =>
                \/ pc \in {"request", "switch"} \/ result = "notReady"
                \/ pc = "sleep" /\ clock >= wakeAt
      BY <1>3
      DEF Next, Switch, StatusReturns, StatusFails, Active, InTerminalState,
          Processed, NotReady, TimerFires, SleepCancelled, Tick, Cancel,
          ServerStep, Elsewhere, Return, vars, AnswerInv
    <2>6. wakeAt \in Nat
      BY DEF TypeOK
    <2> QED
      BY <2>1, <2>2, <2>3, <2>4, <2>5, <2>6 DEF PaceInv
  <1> QED
    BY <1>1, <1>2, <1>3

(* However late the answers are, no poll leaves before the whole series of *)
(* delays that precede it has passed, each the double of the one before,   *)
(* and a wait given up as not ready has had all of them                    *)
(* (online.go:154-179, status.go:43-65).                                   *)
THEOREM PollsArePacedThm == Spec => []PollsArePaced
  <1>1. Init => PaceInv
    <2> SUFFICES ASSUME Init PROVE PaceInv
      OBVIOUS
    <2>1. TypeOK
      BY InitTypes
    <2>2. Pauses[0] = 0 /\ Pause(1) = interval /\ interval \in Nat
      BY <2>1, PausesAddUp, PausesDouble, LoopConstants DEF TypeOK
    <2> QED
      BY <2>2 DEF Init, PaceInv
  <1>2. PaceInv => PollsArePaced
    BY DEF PaceInv, PollsArePaced
  <1> QED
    BY <1>1, <1>2, StepPaced, TypesAreKept, AnswersAreKnown, PTL DEF Spec

-----------------------------------------------------------------------------
(* Progress.                                                               *)

(* A step of the loop, as opposed to one of the clock, caller or server.   *)
LoopStep ==
    StatusReturns \/ StatusFails \/ Switch \/ TimerFires \/ SleepCancelled

(* An upper bound on the steps that WaitUntilActive still takes: three for *)
(* each repetition that is left, and those of the one under way.           *)
WaitStepsLeft ==
    CASE pc = "request" -> 3 * (MaxRetries - attempt) + 2
      [] pc = "switch"  -> 3 * (MaxRetries - attempt) + 1
      [] pc = "sleep"   -> 3 * (MaxRetries - attempt) + 3
      [] OTHER          -> 0

(* Waiting for a session takes at most 3 * MaxRetries + 2 steps of its     *)
(* own, so at most MaxRetries + 1 status requests, whatever the session's  *)
(* status does meanwhile and however late the answers are: each step       *)
(* lowers a measure that nothing else raises.  That the loop takes its     *)
(* steps is LoopReturns (online.go:154-179).                               *)
THEOREM WaitMakesProgress ==
    Spec => [][loop = "session" =>
                  /\ WaitStepsLeft \in Nat
                  /\ LoopStep => WaitStepsLeft' < WaitStepsLeft
                  /\ ~LoopStep => WaitStepsLeft' = WaitStepsLeft]_vars
  <1>1. TypeOK /\ [Next]_vars =>
          (loop = "session" =>
                  /\ WaitStepsLeft \in Nat
                  /\ LoopStep => WaitStepsLeft' < WaitStepsLeft
                  /\ ~LoopStep => WaitStepsLeft' = WaitStepsLeft)
    <2> SUFFICES ASSUME TypeOK, [Next]_vars, loop = "session"
                 PROVE  /\ WaitStepsLeft \in Nat
                        /\ LoopStep => WaitStepsLeft' < WaitStepsLeft
                        /\ ~LoopStep => WaitStepsLeft' = WaitStepsLeft
      OBVIOUS
    <2>1. /\ MaxRetries \in Nat /\ attempt \in 0..MaxRetries
          /\ WaitStepsLeft \in Nat
      BY LoopConstants DEF TypeOK, Budget, WaitStepsLeft
    <2>2. CASE StatusReturns
      <3>1. /\ pc = "request" /\ pc' = "switch" /\ attempt' = attempt
            /\ LoopStep
        BY <2>2 DEF StatusReturns, LoopStep
      <3> QED
        BY <2>1, <3>1 DEF WaitStepsLeft
    <2>3. CASE StatusFails \/ Active \/ InTerminalState \/ Processed
               \/ NotReady \/ SleepCancelled
      <3>1. pc \in {"request", "switch", "sleep"} /\ pc' = "returned" /\ LoopStep
        BY <2>3 DEF StatusFails, Active, InTerminalState, Processed, NotReady,
                    SleepCancelled, Return, LoopStep, Switch
      <3> QED
        BY <2>1, <3>1 DEF WaitStepsLeft
    <2>4. CASE KeepWaiting
      <3>1. /\ pc = "switch" /\ pc' = "sleep" /\ attempt < MaxRetries
            /\ attempt' = Min({attempt + 1, MaxPolls})
        BY <2>4 DEF KeepWaiting, Sleep
      <3>2. attempt + 1 \in Nat /\ MaxPolls \in Nat /\ attempt + 1 <= MaxPolls
        BY <2>1, <3>1, LoopConstants
      <3>3. attempt' = attempt + 1
        BY <3>1, <3>2, Smaller
      <3>4. LoopStep
        BY <2>4 DEF LoopStep, Switch
      <3> QED
        BY <2>1, <3>1, <3>3, <3>4 DEF WaitStepsLeft
    <2>5. CASE KeepPolling
      BY <2>5 DEF KeepPolling, InvoiceCodes, SessionCodes, TypeOK, CodesOf
    <2>6. CASE TimerFires
      <3>1. /\ pc = "sleep" /\ pc' = "request" /\ attempt' = attempt
            /\ LoopStep
        BY <2>6 DEF TimerFires, LoopStep
      <3> QED
        BY <2>1, <3>1 DEF WaitStepsLeft
    <2>7. CASE ~LoopStep
      <3>1. Tick \/ Cancel \/ ServerStep \/ UNCHANGED vars
        BY <2>7 DEF Next, LoopStep
      <3>2. UNCHANGED <<pc, attempt>>
        BY <3>1 DEF Tick, Cancel, ServerStep, Elsewhere, vars
      <3> QED
        BY <2>1, <2>7, <3>2 DEF WaitStepsLeft
    <2> QED
      BY <2>2, <2>3, <2>4, <2>5, <2>6, <2>7 DEF LoopStep, Switch
  <1> QED
    BY <1>1, TypesAreKept, PTL DEF Spec
=============================================================================
