----------------------- MODULE ExampleProgramsProofs -----------------------
(***************************************************************************)
(* Theorems about the two example programs, for every number of invoices.  *)
(*                                                                         *)
(* The invariants of ExamplePrograms are not inductive: that no poller     *)
(* sends on the closed channel rests on the WaitGroup's counter being the  *)
(* number of pollers under way, and that every result is counted on the    *)
(* counters and the channel holding together one entry per poller that has *)
(* sent.  IInv says so, and where the main goroutine stands meanwhile.     *)
(***************************************************************************)
EXTENDS ExamplePrograms, FiniteSetTheorems, SequenceTheorems, TLAPS

-----------------------------------------------------------------------------
(* The inductive invariant.                                                *)

Early   == {"setup", "authenticate", "open", "submit"}
Late    == {"terminate", "counters", "receipt", "deferred", "panicking",
            "exited", "crashed"}
Closing == {"counters", "receipt", "deferred", "panicking", "exited",
            "crashed"}

Live == {i \in Numbers : poller[i] \in {"request", "switch", "sleep", "send",
                                        "done"}}
Sent == {i \in Numbers : poller[i] \in {"done", "exited"}}

(* Invoices that the collector has counted as accepted. *)
Good == {i \in Sent : /\ status[i] = "accepted"
                      /\ \A k \in 1..Len(results) : results[k] # i}

TypeInv ==
    /\ program \in {"basic", "batch"}
    /\ main \in Steps \cup Ends
    /\ refs \subseteq Numbers
    /\ poller \in [Numbers -> {"none", "request", "switch", "sleep", "send",
                               "done", "exited"}]
    /\ status \in [Numbers -> {"none", "received", "accepted", "rejected",
                               "error"}]
    /\ results \in Seq(Numbers) /\ Len(results) <= Cardinality(refs)
    /\ closed \in BOOLEAN
    /\ wg \in Nat /\ accepted \in Nat /\ rejected \in Nat
    /\ closes \in 0..2
    /\ receipt \in BOOLEAN
    /\ session \in {"none", "abandoned", "open", "closed"}
    /\ invoice \in [Numbers -> {"none", "received", "accepted", "rejected"}]
    /\ ctxDone \in BOOLEAN

(* Where the main goroutine stands. *)
MainInv ==
    /\ program = "basic" => main \notin {"spawn", "collect"}
    /\ program = "batch" => main \notin {"poll", "download", "receipt"}
    /\ main \in Early =>
          \A i \in Numbers : poller[i] = "none" /\ status[i] = "none"
    /\ main \notin Early \cup {"fatal"} => refs = Planned
    /\ \A i \in Numbers : poller[i] # "none" => i \in refs
    /\ program = "batch" /\ main \in {"collect"} \cup Late =>
          \A i \in Numbers : poller[i] # "none"

(* The channel, the counters and the WaitGroup. *)
TallyInv ==
    /\ program = "basic" =>
          wg = 0 /\ ~closed /\ \A i \in Numbers : poller[i] \notin {"done", "exited"}
    /\ program = "batch" => wg = Cardinality(Live)
    /\ \A k \in 1..Len(results) : results[k] \in Sent
    /\ \A k, l \in 1..Len(results) : results[k] = results[l] => k = l
    /\ accepted + rejected + Len(results) = Cardinality(Sent)
    /\ accepted = Cardinality(Good)

ClosedInv ==
    /\ closed => /\ main \notin Early \cup {"spawn"}
                 /\ \A i \in Numbers : poller[i] = "exited"
    /\ program = "batch" /\ main \in Late => closed /\ results = <<>>

(* What a status, the session and the receipt rest on. *)
VerdictInv ==
    \A i \in Numbers :
        status[i] \in {"accepted", "rejected"} => invoice[i] = status[i]

EndInv ==
    /\ main \in Closing => session = "closed"
    /\ program = "basic" /\ main \in {"download"} \cup Late =>
          invoice[1] = "accepted"
    /\ receipt => main \in {"deferred", "exited"} /\ program = "basic"

IInv == TypeInv /\ MainInv /\ TallyInv /\ ClosedInv /\ VerdictInv /\ EndInv

-----------------------------------------------------------------------------
(* What follows each step. *)
LEMMA AfterSteps ==
    /\ program = "basic" =>
          /\ After("setup") = "authenticate" /\ After("authenticate") = "open"
          /\ After("open") = "submit" /\ After("submit") = "poll"
          /\ After("poll") = "download" /\ After("download") = "terminate"
          /\ After("terminate") = "counters" /\ After("counters") = "receipt"
          /\ After("receipt") = "deferred" /\ After("deferred") = "exited"
          /\ After("panicking") = "crashed"
    /\ program = "batch" =>
          /\ After("setup") = "authenticate" /\ After("authenticate") = "open"
          /\ After("open") = "submit" /\ After("submit") = "spawn"
          /\ After("spawn") = "collect" /\ After("collect") = "terminate"
          /\ After("terminate") = "counters" /\ After("counters") = "deferred"
          /\ After("deferred") = "exited" /\ After("panicking") = "crashed"
  BY DEF After, BasicProgram, BatchProgram

(* Sets of invoices. *)
LEMMA Sets ==
    ASSUME NEW S \in SUBSET Numbers
    PROVE  IsFiniteSet(S) /\ Cardinality(S) \in 0..N
  <1>1. N \in Nat \ {0}
    BY ExampleConstants
  <1>2. IsFiniteSet(Numbers) /\ Cardinality(Numbers) = N
    BY <1>1, FS_Interval DEF Numbers
  <1>3. IsFiniteSet(S) /\ Cardinality(S) <= N
    BY <1>2, FS_Subset
  <1>4. Cardinality(S) \in Nat
    BY <1>3, FS_CardinalityType
  <1> QED
    BY <1>1, <1>3, <1>4

LEMMA OneMoreOrLess ==
    ASSUME NEW S \in SUBSET Numbers, NEW x
    PROVE  /\ Cardinality(S \cup {x}) =
                 IF x \in S THEN Cardinality(S) ELSE Cardinality(S) + 1
           /\ Cardinality(S \ {x}) =
                 IF x \in S THEN Cardinality(S) - 1 ELSE Cardinality(S)
  <1>1. IsFiniteSet(S)
    BY Sets
  <1> QED
    BY <1>1, FS_AddElement, FS_RemoveElement

-----------------------------------------------------------------------------
(* Steps that leave the pollers, the channel and the counters alone. *)
LEMMA TallyFrame ==
    ASSUME TallyInv, UNCHANGED <<program, pollers, channel, collector>>
    PROVE  TallyInv'
  BY DEF TallyInv, Live, Sent, Good, pollers, channel, collector

(* The main goroutine goes on, or ends. *)
LEMMA MainStep ==
    ASSUME IInv,
           \/ Setup \/ Authenticate \/ Open \/ OpenFails \/ AllSubmitted \/ Fatal
           \/ PollReturns \/ Download \/ SaveReceipt \/ AllSpawned \/ Collected
           \/ TerminateReturns \/ TerminateFails \/ PrintCounters \/ EndDeferred
    PROVE  IInv'
  <1> USE DEF TypeInv, MainInv, ClosedInv, VerdictInv, EndInv, Early, Late,
              Closing, Steps, Ends, Planned, Goto, pollers, channel, collector,
              ending, world
  <1>1. TypeInv /\ MainInv /\ TallyInv /\ ClosedInv /\ VerdictInv /\ EndInv
    BY DEF IInv
  <1>2. TallyInv'
    <2>1. UNCHANGED <<program, pollers, channel, collector>>
      BY DEF Setup, Authenticate, Open, OpenFails, AllSubmitted, Fatal,
             PollReturns, PollEnds, Download, SaveReceipt, AllSpawned, Collected,
             StopCollecting, TerminateReturns, TerminateFails, FailTerminate,
             PrintCounters, EndDeferred
    <2> QED
      BY <1>1, <2>1, TallyFrame
  <1> DEFINE Rest == TypeInv /\ MainInv /\ ClosedInv /\ VerdictInv /\ EndInv
  <1> SUFFICES Rest'
    BY <1>2 DEF IInv
  <1>3. CASE Setup \/ Authenticate \/ Open \/ OpenFails
    BY <1>1, <1>3, AfterSteps DEF Setup, Authenticate, Open, OpenFails
  <1>4. CASE AllSubmitted
    BY <1>1, <1>4, AfterSteps DEF AllSubmitted
  <1>5. CASE Fatal
    BY <1>1, <1>5 DEF Fatal
  <1>6. CASE PollReturns
    <2>1. 1 \in Numbers
      BY ExampleConstants DEF Numbers
    <2>2. status[1] = "accepted" => invoice[1] = "accepted"
      BY <1>1, <2>1
    <2>3. program = "basic" /\ main = "poll"
      BY <1>1, <1>6 DEF PollReturns, PollEnds
    <2>4. CASE status[1] = "accepted"
      <3>1. main' = "download"
        BY <1>6, <2>3, <2>4, AfterSteps DEF PollReturns, PollEnds
      <3> QED
        BY <1>1, <1>6, <2>2, <2>3, <2>4, <3>1 DEF PollReturns, PollEnds
    <2>5. CASE status[1] # "accepted"
      <3>1. main' = "fatal"
        BY <1>6, <2>5 DEF PollReturns, PollEnds
      <3> QED
        BY <1>1, <1>6, <2>3, <3>1 DEF PollReturns, PollEnds
    <2> QED
      BY <2>4, <2>5
  <1>7. CASE Download \/ SaveReceipt
    <2>1. CASE Download
      BY <1>1, <2>1, AfterSteps DEF Download
    <2>2. CASE SaveReceipt
      <3>1. program = "basic" /\ main = "receipt" /\ main' = "deferred"
        BY <1>1, <2>2, AfterSteps DEF SaveReceipt
      <3> QED
        BY <1>1, <2>2, <3>1 DEF SaveReceipt
    <2> QED
      BY <1>7, <2>1, <2>2
  <1>8. CASE AllSpawned
    BY <1>1, <1>8, AfterSteps DEF AllSpawned
  <1>9. CASE Collected
    BY <1>1, <1>9, AfterSteps DEF Collected, StopCollecting
  <1>10. CASE TerminateReturns \/ TerminateFails
    BY <1>1, <1>10, AfterSteps
    DEF TerminateReturns, TerminateFails, FailTerminate
  <1>11. CASE PrintCounters
    BY <1>1, <1>11, AfterSteps DEF PrintCounters
  <1>12. CASE EndDeferred
    BY <1>1, <1>12, AfterSteps DEF EndDeferred
  <1> QED
    BY <1>3, <1>4, <1>5, <1>6, <1>7, <1>8, <1>9, <1>10, <1>11, <1>12

(* Submissions, the begin of a Terminate, the server and the deadline.     *)
LEMMA WorldStep ==
    ASSUME IInv, Submit \/ BeginTerminate \/ Deadline \/ ServerProcesses
    PROVE  IInv'
  <1> USE DEF TypeInv, MainInv, ClosedInv, VerdictInv, EndInv, Early, Late,
              Closing, Steps, Ends, Planned, pollers, channel, collector,
              ending, world
  <1>1. TypeInv /\ MainInv /\ TallyInv /\ ClosedInv /\ VerdictInv /\ EndInv
    BY DEF IInv
  <1>2. TallyInv'
    <2>1. UNCHANGED <<program, pollers, channel, collector>>
      BY DEF Submit, BeginTerminate, Deadline, ServerProcesses, Elsewhere
    <2> QED
      BY <1>1, <2>1, TallyFrame
  <1> DEFINE Rest == TypeInv /\ MainInv /\ ClosedInv /\ VerdictInv /\ EndInv
  <1> SUFFICES Rest'
    BY <1>2 DEF IInv
  <1>3. CASE Submit
    <2>1. PICK i \in Planned : /\ refs' = refs \cup {i}
                               /\ invoice' = [invoice EXCEPT ![i] = "received"]
      BY <1>3 DEF Submit
    <2>2. i \in Numbers
      BY <1>1, <2>1, ExampleConstants DEF Numbers
    <2>3. Cardinality(refs) <= Cardinality(refs')
      <3>1. refs \in SUBSET Numbers
        BY <1>1
      <3>2. /\ Cardinality(refs) \in 0..N
            /\ Cardinality(refs \cup {i}) =
                  IF i \in refs THEN Cardinality(refs) ELSE Cardinality(refs) + 1
        BY <3>1, Sets, OneMoreOrLess
      <3> QED
        BY <2>1, <3>2
    <2>4. Len(results) <= Cardinality(refs')
      <3>1. refs \in SUBSET Numbers /\ refs' \in SUBSET Numbers
        BY <1>1, <2>1, <2>2
      <3>2. Cardinality(refs) \in 0..N /\ Cardinality(refs') \in 0..N
        BY <3>1, Sets
      <3>3. Len(results) \in Nat
        BY <1>1
      <3> QED
        BY <1>1, <2>3, <3>2, <3>3
    <2>5. /\ main = "submit"
          /\ UNCHANGED <<program, main, pollers, channel, collector, ending,
                         session, ctxDone>>
      BY <1>3 DEF Submit
    <2> QED
      BY <1>1, <2>1, <2>2, <2>4, <2>5
  <1>4. CASE BeginTerminate
    BY <1>1, <1>4 DEF BeginTerminate
  <1>5. CASE Deadline
    BY <1>1, <1>5 DEF Deadline, Elsewhere
  <1>6. CASE ServerProcesses
    <2>1. PICK i \in Numbers, s \in {"accepted", "rejected"} :
              /\ invoice[i] = "received"
              /\ invoice' = [invoice EXCEPT ![i] = s]
      BY <1>6 DEF ServerProcesses
    <2>2. \A j \in Numbers : invoice[j] # "received" => invoice'[j] = invoice[j]
      BY <1>1, <2>1
    <2>3. invoice' \in [Numbers -> {"none", "received", "accepted", "rejected"}]
      BY <1>1, <2>1
    <2>4. 1 \in Numbers
      BY ExampleConstants DEF Numbers
    <2>5. UNCHANGED <<program, main, refs, pollers, channel, collector, ending,
                      session, ctxDone>>
      BY <1>6 DEF ServerProcesses, Elsewhere
    <2> QED
      BY <1>1, <2>2, <2>3, <2>4, <2>5
  <1> QED
    BY <1>3, <1>4, <1>5, <1>6

-----------------------------------------------------------------------------
(* The main goroutine starts pollers.                                      *)
LEMMA SpawnStep ==
    ASSUME IInv, StartPoll \/ Spawn
    PROVE  IInv'
  <1> USE DEF TypeInv, MainInv, ClosedInv, VerdictInv, EndInv, Early, Late,
              Closing, Steps, Ends, Planned, ending, world
  <1>1. TypeInv /\ MainInv /\ TallyInv /\ ClosedInv /\ VerdictInv /\ EndInv
    BY DEF IInv
  <1>2. PICK i \in Numbers :
            /\ i \in refs /\ poller[i] = "none"
            /\ poller' = [poller EXCEPT ![i] = "request"]
            /\ UNCHANGED <<program, main, refs, status, results, closed,
                           collector, ending, world>>
            /\ \/ program = "basic" /\ main = "poll" /\ UNCHANGED wg
               \/ program = "batch" /\ main = "spawn" /\ wg' = wg + 1
    <2>1. CASE StartPoll
      <3>1. 1 \in Numbers
        BY ExampleConstants DEF Numbers
      <3>2. program = "basic" /\ main = "poll" /\ refs = {1}
        BY <1>1, <2>1 DEF StartPoll
      <3> QED
        BY <2>1, <3>1, <3>2 DEF StartPoll, channel
    <2>2. CASE Spawn
      <3>1. program = "batch" /\ main = "spawn"
        BY <1>1, <2>2 DEF Spawn, SpawnPoller
      <3> QED
        BY <1>1, <2>2, <3>1 DEF Spawn, SpawnPoller
    <2> QED
      BY <2>1, <2>2
  <1>3. TypeInv' /\ MainInv' /\ ClosedInv' /\ VerdictInv' /\ EndInv'
    <2>1. poller' \in [Numbers -> {"none", "request", "switch", "sleep", "send",
                                   "done", "exited"}]
      BY <1>1, <1>2
    <2>2. \A j \in Numbers : poller'[j] # "none" => j \in refs
      BY <1>1, <1>2
    <2>3. ~closed
      BY <1>1, <1>2 DEF TallyInv
    <2> QED
      BY <1>1, <1>2, <2>1, <2>2, <2>3 DEF collector
  <1>4. Sent' = Sent /\ Good' = Good
    BY <1>1, <1>2 DEF Sent, Good
  <1>5. Live' = Live \cup {i} /\ i \notin Live /\ Live \in SUBSET Numbers
    BY <1>1, <1>2 DEF Live
  <1>6. Cardinality(Live') = Cardinality(Live) + 1
    BY <1>5, OneMoreOrLess
  <1>7. TallyInv'
    BY <1>1, <1>2, <1>4, <1>6 DEF TallyInv, collector
  <1> QED
    BY <1>3, <1>7 DEF IInv

-----------------------------------------------------------------------------
(* The collector takes a result, and the channel is closed. *)
LEMMA CollectStep ==
    ASSUME IInv, Collect \/ CloseResults
    PROVE  IInv'
  <1> USE DEF TypeInv, MainInv, ClosedInv, VerdictInv, EndInv, Early, Late,
              Closing, Steps, Ends, Planned, pollers, ending, world
  <1>1. TypeInv /\ MainInv /\ TallyInv /\ ClosedInv /\ VerdictInv /\ EndInv
    BY DEF IInv
  <1>2. CASE Collect
    <2> DEFINE h == Head(results)
    <2>1. /\ main = "collect" /\ results # <<>> /\ results' = Tail(results)
          /\ accepted' = accepted + IF status[h] \in {"accepted"} THEN 1 ELSE 0
          /\ rejected' = rejected + IF status[h] \in {"accepted"} THEN 0 ELSE 1
          /\ UNCHANGED <<program, main, refs, pollers, closed, wg, ending, world>>
      BY <1>2 DEF Collect, Count
    <2>2. /\ Len(results) \in Nat \ {0} /\ h = results[1] /\ h \in Numbers
          /\ results' \in Seq(Numbers) /\ Len(results') = Len(results) - 1
          /\ \A k \in 1..Len(results') : results'[k] = results[k + 1]
      BY <1>1, <2>1
    <2> HIDE DEF h
    <2>3. Cardinality(refs) \in Nat
      BY <1>1, Sets
    <2>4. TypeInv'
      BY <1>1, <2>1, <2>2, <2>3
    <2>5. MainInv' /\ VerdictInv' /\ EndInv'
      BY <1>1, <2>1
    <2>6. ClosedInv'
      BY <1>1, <2>1
    <2>7. Live' = Live /\ Sent' = Sent
      BY <2>1 DEF Live, Sent
    <2>8. /\ \A k \in 1..Len(results') : results'[k] \in Sent'
          /\ \A k, l \in 1..Len(results') : results'[k] = results'[l] => k = l
      <3>1. \A k \in 1..Len(results') : k + 1 \in 1..Len(results)
        BY <2>2
      <3>2. ASSUME NEW k \in 1..Len(results')
            PROVE  results'[k] \in Sent'
        BY <1>1, <2>2, <2>7, <3>1 DEF TallyInv
      <3>3. ASSUME NEW k \in 1..Len(results'), NEW l \in 1..Len(results'),
                   results'[k] = results'[l]
            PROVE  k = l
        <4>1. results[k + 1] = results[l + 1]
          BY <2>2, <3>3
        <4>2. k + 1 = l + 1
          BY <1>1, <3>1, <4>1 DEF TallyInv
        <4> QED
          BY <2>2, <4>2
      <3> QED
        BY <3>2, <3>3
    <2>9. accepted' + rejected' + Len(results') = Cardinality(Sent')
      BY <1>1, <2>1, <2>2, <2>7 DEF TallyInv
    <2>10. accepted' = Cardinality(Good')
      <3>1. h \in Sent /\ h \notin Good /\ Good \in SUBSET Numbers
        BY <1>1, <2>2 DEF TallyInv, Good, Sent
      <3>2. \A k \in 1..Len(results') : results'[k] # h
        BY <1>1, <2>2 DEF TallyInv
      <3>3. \A j \in Numbers : j # h =>
              ((\A k \in 1..Len(results) : results[k] # j)
                <=> (\A k \in 1..Len(results') : results'[k] # j))
        <4> TAKE j \in Numbers
        <4> HAVE j # h
        <4>1. ASSUME NEW k \in 1..Len(results), results[k] = j
              PROVE  k - 1 \in 1..Len(results') /\ results'[k - 1] = j
          BY <2>2, <4>1
        <4>2. ASSUME NEW k \in 1..Len(results'), results'[k] = j
              PROVE  k + 1 \in 1..Len(results) /\ results[k + 1] = j
          BY <2>2, <4>2
        <4> QED
          BY <4>1, <4>2
      <3>4. Good' = IF status[h] = "accepted" THEN Good \cup {h} ELSE Good
        BY <2>1, <2>7, <3>1, <3>2, <3>3 DEF Good, Sent
      <3>5. Cardinality(Good \cup {h}) = Cardinality(Good) + 1
        BY <3>1, OneMoreOrLess
      <3>6. accepted = Cardinality(Good)
        BY <1>1 DEF TallyInv
      <3> QED
        BY <1>1, <2>1, <3>4, <3>5, <3>6
    <2>11. TallyInv'
      BY <1>1, <2>1, <2>7, <2>8, <2>9, <2>10 DEF TallyInv
    <2> QED
      BY <2>4, <2>5, <2>6, <2>11 DEF IInv
  <1>3. CASE CloseResults
    <2>1. /\ program = "batch" /\ wg = 0 /\ closed' = TRUE
          /\ main \in {"collect", "terminate", "counters", "deferred", "panicking"}
          /\ UNCHANGED <<program, main, refs, pollers, results, wg, collector,
                         ending, world>>
      BY <1>3 DEF CloseResults
    <2>2. Live \in SUBSET Numbers
      BY DEF Live
    <2>3. Live = {}
      <3>1. Cardinality(Live) = 0
        BY <1>1, <2>1 DEF TallyInv
      <3>2. IsFiniteSet(Live)
        BY <2>2, Sets
      <3> QED
        BY <3>1, <3>2, FS_EmptySet
    <2>4. \A i \in Numbers : poller[i] = "exited"
      BY <1>1, <2>1, <2>3 DEF Live
    <2>5. TypeInv' /\ MainInv' /\ VerdictInv' /\ EndInv' /\ ClosedInv'
      BY <1>1, <2>1, <2>4 DEF collector
    <2>6. TallyInv'
      BY <1>1, <2>1 DEF TallyInv, Live, Sent, Good, collector
    <2> QED
      BY <2>5, <2>6 DEF IInv
  <1> QED
    BY <1>2, <1>3

-----------------------------------------------------------------------------
(* The steps of a poller. *)
LEMMA PollerKeepsRest ==
    ASSUME IInv, NEW i \in Numbers, NEW from, NEW to, PollerStep(i, from, to),
           from \in {"request", "switch", "sleep", "send", "done"},
           to \in {"request", "switch", "sleep", "send", "done", "exited"}
    PROVE  /\ MainInv /\ status' \in [Numbers -> {"none", "received", "accepted",
                                                  "rejected", "error"}]
                 => MainInv'
           /\ ~closed /\ ClosedInv' /\ EndInv'
           /\ poller' \in [Numbers -> {"none", "request", "switch", "sleep",
                                       "send", "done", "exited"}]
  <1> USE DEF TypeInv, MainInv, ClosedInv, EndInv, PollerStep, Early, Late,
              Closing, Planned, collector, ending, world
  <1>1. TypeInv /\ MainInv /\ ClosedInv /\ EndInv
    BY DEF IInv
  <1>2. poller[i] = from /\ from \notin {"none", "exited"}
    OBVIOUS
  <1>3. main \notin Early /\ ~closed
    BY <1>1, <1>2
  <1>4. \A j \in Numbers : poller'[j] # "none" => poller[j] # "none"
    BY <1>1, <1>2
  <1>5. \A j \in Numbers : poller[j] # "none" => poller'[j] # "none"
    BY <1>1, <1>2
  <1> QED
    BY <1>1, <1>3, <1>4, <1>5

LEMMA PollerStepInv ==
    ASSUME IInv, NEW i \in Numbers, Poller(i)
    PROVE  IInv'
  <1>1. TypeInv /\ MainInv /\ TallyInv /\ ClosedInv /\ VerdictInv /\ EndInv
    BY DEF IInv
  <1>2. CASE StatusReturns(i) \/ PollFails(i) \/ Processed(i) \/ NotYet(i)
             \/ TimerFires(i)
    <2>1. PICK from \in {"request", "switch", "sleep"},
               to \in {"request", "switch", "sleep", "send"} :
              /\ PollerStep(i, from, to)
              /\ UNCHANGED <<results, wg>>
              /\ \/ UNCHANGED status
                 \/ status' = [status EXCEPT ![i] = invoice[i]]
                 \/ status' = [status EXCEPT ![i] = "error"]
      BY <1>2 DEF StatusReturns, PollFails, Processed, NotYet, TimerFires
    <2>2. /\ poller[i] = from /\ poller' = [poller EXCEPT ![i] = to]
          /\ UNCHANGED <<program, main, refs, closed, collector, ending, world>>
      BY <2>1 DEF PollerStep
    <2>3. /\ status' \in [Numbers -> {"none", "received", "accepted",
                                      "rejected", "error"}]
          /\ \A j \in Numbers : j # i => status'[j] = status[j]
          /\ status'[i] \in {status[i], invoice[i], "error"}
      BY <1>1, <2>1 DEF TypeInv
    <2>4. MainInv' /\ ClosedInv' /\ EndInv' /\ TypeInv'
      BY <1>1, <2>1, <2>2, <2>3, PollerKeepsRest
      DEF TypeInv, collector, ending, world
    <2>5. VerdictInv'
      BY <1>1, <2>2, <2>3 DEF VerdictInv, world
    <2>6. Live' = Live /\ Sent' = Sent /\ i \notin Sent
      BY <1>1, <2>1, <2>2 DEF TypeInv, Live, Sent
    <2>7. Good' = Good
      BY <2>1, <2>3, <2>6 DEF Good, Sent
    <2>8. TallyInv'
      <3>1. UNCHANGED <<program, closed, wg, results, accepted, rejected>>
        BY <2>1, <2>2 DEF collector
      <3>2. \A j \in Numbers : poller[j] \notin {"done", "exited"}
                               => poller'[j] \notin {"done", "exited"}
        BY <2>6 DEF Sent
      <3> QED
        BY <1>1, <2>6, <2>7, <3>1, <3>2 DEF TallyInv
    <2> QED
      BY <2>4, <2>5, <2>8 DEF IInv
  <1>3. CASE SendResult(i)
    <2>1. /\ program = "batch" /\ Len(results) < Cardinality(refs)
          /\ PollerStep(i, "send", "done")
          /\ results' = Append(results, i)
          /\ UNCHANGED <<status, wg>>
      BY <1>3 DEF SendResult, Capacity
    <2>2. /\ poller[i] = "send" /\ poller' = [poller EXCEPT ![i] = "done"]
          /\ UNCHANGED <<program, main, refs, closed, collector, ending, world>>
      BY <2>1 DEF PollerStep
    <2>3. /\ Len(results) \in Nat /\ results' \in Seq(Numbers)
          /\ Len(results') = Len(results) + 1 /\ results'[Len(results) + 1] = i
          /\ \A k \in 1..Len(results) : results'[k] = results[k]
      BY <1>1, <2>1 DEF TypeInv
    <2>4. Cardinality(refs) \in Nat
      BY <1>1, Sets DEF TypeInv
    <2>5. MainInv' /\ ClosedInv' /\ EndInv' /\ TypeInv'
      BY <1>1, <2>1, <2>2, <2>3, <2>4, PollerKeepsRest
      DEF TypeInv, collector, ending, world
    <2>6. VerdictInv'
      BY <1>1, <2>1, <2>2 DEF VerdictInv, world
    <2>7. /\ Live' = Live /\ Sent' = Sent \cup {i} /\ i \notin Sent
          /\ Sent \in SUBSET Numbers
      BY <1>1, <2>1, <2>2 DEF TypeInv, Live, Sent
    <2>8. Cardinality(Sent') = Cardinality(Sent) + 1
      BY <2>7, OneMoreOrLess
    <2>9. \A k \in 1..Len(results) : results[k] # i
      BY <1>1, <2>7 DEF TallyInv
    <2>10. Good' = Good
      <3>1. \A j \in Numbers : j # i =>
              ((\A k \in 1..Len(results) : results[k] # j)
                <=> (\A k \in 1..Len(results') : results'[k] # j))
        BY <2>3
      <3>2. ~ \A k \in 1..Len(results') : results'[k] # i
        BY <2>3
      <3> QED
        BY <2>1, <2>7, <3>1, <3>2 DEF Good, Sent
    <2>11. \A k \in 1..Len(results') : results'[k] \in Sent'
      BY <1>1, <2>3, <2>7 DEF TallyInv
    <2>12. \A k, l \in 1..Len(results') : results'[k] = results'[l] => k = l
      BY <1>1, <2>3, <2>9 DEF TallyInv
    <2>13. accepted' + rejected' + Len(results') = Cardinality(Sent')
      <3>1. accepted + rejected + Len(results) = Cardinality(Sent)
        BY <1>1 DEF TallyInv
      <3>2. accepted \in Nat /\ rejected \in Nat
        BY <1>1 DEF TypeInv
      <3> QED
        BY <2>2, <2>3, <2>8, <3>1, <3>2 DEF collector
    <2>14. TallyInv'
      <3>1. UNCHANGED <<program, closed, wg, accepted, rejected>>
        BY <2>1, <2>2 DEF collector
      <3> QED
        BY <1>1, <2>1, <2>7, <2>10, <2>11, <2>12, <2>13, <3>1 DEF TallyInv
    <2> QED
      BY <2>5, <2>6, <2>14 DEF IInv
  <1>4. CASE WgDone(i)
    <2>1. PollerStep(i, "done", "exited") /\ wg' = wg - 1
          /\ UNCHANGED <<status, results>>
      BY <1>4 DEF WgDone
    <2>2. /\ poller[i] = "done" /\ poller' = [poller EXCEPT ![i] = "exited"]
          /\ UNCHANGED <<program, main, refs, closed, collector, ending, world>>
      BY <2>1 DEF PollerStep
    <2>3. program = "batch" /\ wg = Cardinality(Live)
      BY <1>1, <2>2 DEF TallyInv, TypeInv
    <2>4. /\ Live' = Live \ {i} /\ i \in Live /\ Live \in SUBSET Numbers
          /\ Live' \in SUBSET Numbers
      BY <1>1, <2>2 DEF TypeInv, Live
    <2>5. wg' = Cardinality(Live') /\ wg' \in Nat
      <3>1. Cardinality(Live') = Cardinality(Live) - 1
        BY <2>4, OneMoreOrLess
      <3>2. Cardinality(Live') \in Nat
        BY <2>4, Sets
      <3> QED
        BY <2>1, <2>3, <3>1, <3>2
    <2>6. MainInv' /\ ClosedInv' /\ EndInv' /\ TypeInv'
      BY <1>1, <2>1, <2>2, <2>5, PollerKeepsRest
      DEF TypeInv, collector, ending, world
    <2>7. VerdictInv'
      BY <1>1, <2>1, <2>2 DEF VerdictInv, world
    <2>8. Sent' = Sent
      BY <1>1, <2>2 DEF TypeInv, Sent
    <2>9. Good' = Good
      BY <2>1, <2>8 DEF Good
    <2>10. TallyInv'
      BY <1>1, <2>1, <2>2, <2>3, <2>5, <2>8, <2>9 DEF TallyInv, collector
    <2> QED
      BY <2>6, <2>7, <2>10 DEF IInv
  <1> QED
    BY <1>2, <1>3, <1>4 DEF Poller

-----------------------------------------------------------------------------
LEMMA InitIInv == Init => IInv
  <1> SUFFICES ASSUME Init PROVE IInv
    OBVIOUS
  <1>1. TypeInv
    <2>1. Cardinality(refs) = 0
      BY FS_EmptySet DEF Init
    <2>2. results \in Seq(Numbers) /\ Len(results) = 0
      BY DEF Init
    <2>3. /\ poller \in [Numbers -> {"none", "request", "switch", "sleep", "send",
                                     "done", "exited"}]
          /\ status \in [Numbers -> {"none", "received", "accepted", "rejected",
                                     "error"}]
          /\ invoice \in [Numbers -> {"none", "received", "accepted", "rejected"}]
      BY DEF Init
    <2>4. Len(results) <= Cardinality(refs)
      BY <2>1, <2>2
    <2>5. /\ program \in {"basic", "batch"} /\ main \in Steps \cup Ends
          /\ refs \subseteq Numbers
          /\ session \in {"none", "abandoned", "open", "closed"}
      BY DEF Init, Steps, Ends
    <2>6. wg \in Nat /\ accepted \in Nat /\ rejected \in Nat /\ closes \in 0..2
      BY DEF Init
    <2>7. closed \in BOOLEAN /\ receipt \in BOOLEAN /\ ctxDone \in BOOLEAN
      BY DEF Init
    <2> QED
      BY <2>2, <2>3, <2>4, <2>5, <2>6, <2>7 DEF TypeInv
  <1>2. Live = {} /\ Sent = {} /\ Good = {}
    BY DEF Init, Live, Sent, Good
  <1>3. TallyInv
    BY <1>2, FS_EmptySet DEF Init, TallyInv
  <1> QED
    BY <1>1, <1>3 DEF Init, IInv, MainInv, ClosedInv, VerdictInv, EndInv, Early,
                      Late, Closing

LEMMA NextIInv == IInv /\ [Next]_vars => IInv'
  <1> SUFFICES ASSUME IInv, [Next]_vars PROVE IInv'
    OBVIOUS
  <1>1. CASE Main
    BY <1>1, MainStep, WorldStep, SpawnStep, CollectStep DEF Main
  <1>2. CASE CloseResults \/ Deadline \/ ServerProcesses
    BY <1>2, WorldStep, CollectStep
  <1>3. CASE \E i \in Numbers : Poller(i)
    BY <1>3, PollerStepInv
  <1>4. CASE Finished \/ UNCHANGED vars
    <2>1. UNCHANGED vars
      BY <1>4 DEF Finished
    <2> QED
      BY <2>1 DEF vars, pollers, channel, collector, ending, world, IInv, TypeInv,
                  MainInv, TallyInv, ClosedInv, VerdictInv, EndInv, Live, Sent,
                  Good, Planned
  <1> QED
    BY <1>1, <1>2, <1>3, <1>4 DEF Next

THEOREM Inductive == Spec => []IInv
  BY InitIInv, NextIInv, PTL DEF Spec

-----------------------------------------------------------------------------
(* The invariants that the runs check on three invoices.                   *)

LEMMA Consequences ==
    ASSUME IInv
    PROVE  TypeOK /\ NoSendOnClosed /\ EveryResultCounted /\ CountsAreHonest
           /\ LeavesNoOpenSession /\ ReceiptIsForAccepted
  <1>1. TypeInv /\ MainInv /\ TallyInv /\ ClosedInv /\ VerdictInv /\ EndInv
    BY DEF IInv
  <1>2. /\ Live \in SUBSET Numbers /\ Sent \in SUBSET Numbers
        /\ Cardinality(Live) \in 0..N /\ Cardinality(Sent) \in 0..N
    BY Sets DEF Live, Sent
  <1>3. N \in Nat \ {0} /\ 1 \in Numbers
    BY ExampleConstants DEF Numbers
  <1>4. TypeOK
    <2>1. wg \in 0..N
      BY <1>1, <1>2, <1>3 DEF TypeInv, TallyInv
    <2>2. accepted \in 0..N /\ rejected \in 0..N
      <3>1. accepted + rejected + Len(results) \in 0..N
        BY <1>1, <1>2 DEF TallyInv
      <3>2. accepted \in Nat /\ rejected \in Nat /\ Len(results) \in Nat
        BY <1>1 DEF TypeInv
      <3> QED
        BY <1>3, <3>1, <3>2
    <2> QED
      BY <1>1, <2>1, <2>2 DEF TypeInv, TypeOK, Capacity
  <1>5. NoSendOnClosed
    BY <1>1 DEF TypeInv, ClosedInv, NoSendOnClosed
  <1>6. EveryResultCounted
    <2> SUFFICES ASSUME program = "batch",
                        main \in {"terminate", "counters", "deferred",
                                  "panicking", "exited", "crashed"}
                 PROVE  /\ accepted + rejected = N
                        /\ \A i \in Numbers : poller[i] \in {"done", "exited"}
      BY DEF EveryResultCounted
    <2>1. results = <<>> /\ \A i \in Numbers : poller[i] = "exited"
      BY <1>1 DEF ClosedInv, Late
    <2>2. Sent = Numbers /\ Cardinality(Numbers) = N
      BY <1>3, <2>1, FS_Interval DEF Sent, Numbers
    <2>3. accepted + rejected + Len(results) = N
      BY <1>1, <2>2 DEF TallyInv
    <2>4. accepted + rejected = N
      BY <1>1, <2>1, <2>3 DEF TypeInv
    <2> QED
      BY <2>1, <2>4
  <1>7. CountsAreHonest
    <2> DEFINE Accepted == {i \in Numbers : invoice[i] = "accepted"}
    <2>1. IsFiniteSet(Accepted)
      BY Sets
    <2>2. Good \in SUBSET Accepted
      BY <1>1 DEF VerdictInv, Good, Sent
    <2>3. Cardinality(Good) <= Cardinality(Accepted)
      BY <2>1, <2>2, FS_Subset
    <2> QED
      BY <1>1, <2>3 DEF TallyInv, VerdictInv, CountsAreHonest
  <1>8. LeavesNoOpenSession /\ ReceiptIsForAccepted
    BY <1>1 DEF EndInv, LeavesNoOpenSession, ReceiptIsForAccepted, Closing, Late
  <1> QED
    BY <1>4, <1>5, <1>6, <1>7, <1>8

(* Every state of the two programs is of the stated types.                 *)
THEOREM TypesAreKept == Spec => []TypeOK
  BY Inductive, Consequences, PTL

(* The channel is closed only after the last poller has sent its result:   *)
(* no send panics, however many invoices there are                         *)
(* (batch/main.go:213-229).                                                *)
THEOREM ChannelIsSafe == Spec => []NoSendOnClosed
  BY Inductive, Consequences, PTL

(* The collector leaves with one result per invoice                        *)
(* (batch/main.go:232-253).                                                *)
THEOREM CollectorIsExact == Spec => []EveryResultCounted
  BY Inductive, Consequences, PTL

(* What the collector counts as accepted was accepted, and no poller has   *)
(* reported a verdict that is not the server's (batch/main.go:234-250).    *)
THEOREM CountsAreHonestThm == Spec => []CountsAreHonest
  BY Inductive, Consequences, PTL

(* Neither program ends with its session open, but by log.Fatalf.          *)
THEOREM SessionsAreClosed == Spec => []LeavesNoOpenSession
  BY Inductive, Consequences, PTL

(* The receipt that the basic program saves is of an accepted invoice in a *)
(* closed session (basic/main.go:218-284).                                 *)
THEOREM ReceiptIsEarned == Spec => []ReceiptIsForAccepted
  BY Inductive, Consequences, PTL
=============================================================================
