--------------------------- MODULE ExamplePrograms --------------------------
(***************************************************************************)
(* The two example programs, from main to the end of the process.          *)
(*                                                                         *)
(* examples/basic/main.go authenticates, opens a session, submits one      *)
(* invoice, polls it in the main goroutine, downloads it, terminates the   *)
(* session and saves the receipt.  examples/batch/main.go submits its      *)
(* invoices one after the other, starts one poller per invoice and a       *)
(* goroutine that closes the result channel, collects the results and      *)
(* terminates the session.  Both print the session's counters and leave    *)
(* through a deferred Terminate.                                           *)
(*                                                                         *)
(* The pollers run PollUntilProcessed (pkg/ksef/invoice/status.go).  Calls *)
(* of the HTTP client return or fail at any time, and fail when the        *)
(* context is done; CallReturns of HttpClient is why they return (both     *)
(* programs set a Timeout).  log.Fatalf ends the process: no deferred call *)
(* runs and every goroutine stops.  A panic runs the deferred call first.  *)
(***************************************************************************)
EXTENDS Integers, Sequences, FiniteSets

CONSTANT N    \* number of invoices of the batch; the program has 3

ASSUME ExampleConstants == N \in Nat \ {0}

VARIABLES
    program,    \* "basic" or "batch"
    main,       \* where the main goroutine stands
    refs,       \* invoices whose submission was acknowledged
    poller,     \* where each poller stands
    status,     \* what each poller's last request reported
    results,    \* the buffered channel
    closed,     \* close(results) was called
    wg,         \* the WaitGroup's counter
    accepted,   \* counter of the collector
    rejected,   \* counter of the collector
    closes,     \* number of Terminate calls begun
    receipt,    \* the UPO was written to a file
    session,    \* server: state of the session
    invoice,    \* server: what became of each invoice
    ctxDone     \* the program's context is over

pollers   == <<poller, status>>
channel   == <<results, closed, wg>>
collector == <<accepted, rejected>>
ending    == <<closes, receipt>>
world     == <<session, invoice, ctxDone>>
vars      == <<program, main, refs, pollers, channel, collector, ending, world>>

-----------------------------------------------------------------------------
(* What follows each step of the two programs when the step succeeds.      *)
BasicProgram ==
    [setup |-> "authenticate", authenticate |-> "open", open |-> "submit",
     submit |-> "poll", poll |-> "download", download |-> "terminate",
     terminate |-> "counters", counters |-> "receipt", receipt |-> "deferred",
     deferred |-> "exited", panicking |-> "crashed"]

BatchProgram ==
    [setup |-> "authenticate", authenticate |-> "open", open |-> "submit",
     submit |-> "spawn", spawn |-> "collect", collect |-> "terminate",
     terminate |-> "counters", counters |-> "deferred",
     deferred |-> "exited", panicking |-> "crashed"]

After(step) ==
    IF program = "basic" THEN BasicProgram[step] ELSE BatchProgram[step]

Steps == {"setup", "authenticate", "open", "submit", "poll", "download",
          "spawn", "collect", "terminate", "counters", "receipt", "deferred",
          "panicking"}
Ends  == {"exited", "crashed", "fatal"}
Alive == main \notin Ends

Numbers == 1..N
Planned == IF program = "basic" THEN {1} ELSE Numbers

(* cap(results): make(chan pollResult, len(submitted)).                    *)
Capacity == Cardinality(refs)

TypeOK ==
    /\ program \in {"basic", "batch"}
    /\ main \in Steps \cup Ends
    /\ refs \subseteq Numbers
    /\ poller \in [Numbers -> {"none", "request", "switch", "sleep", "send",
                               "done", "exited"}]
    /\ status \in [Numbers -> {"none", "received", "accepted", "rejected",
                               "error"}]
    /\ results \in Seq(Numbers) /\ Len(results) <= Capacity
    /\ closed \in BOOLEAN
    /\ wg \in 0..N
    /\ accepted \in 0..N /\ rejected \in 0..N
    /\ closes \in 0..2
    /\ receipt \in BOOLEAN
    /\ session \in {"none", "abandoned", "open", "closed"}
    /\ invoice \in [Numbers -> {"none", "received", "accepted", "rejected"}]
    /\ ctxDone \in BOOLEAN

Init ==
    /\ program \in {"basic", "batch"}
    /\ main = "setup"
    /\ refs = {}
    /\ poller = [i \in Numbers |-> "none"]
    /\ status = [i \in Numbers |-> "none"]
    /\ results = <<>> /\ closed = FALSE /\ wg = 0
    /\ accepted = 0 /\ rejected = 0
    /\ closes = 0 /\ receipt = FALSE
    /\ session = "none"
    /\ invoice = [i \in Numbers |-> "none"]
    /\ ctxDone = FALSE

-----------------------------------------------------------------------------
(* The main goroutine, up to the submissions.                              *)

Goto(step) ==
    /\ main' = step
    /\ UNCHANGED <<program, refs, pollers, channel, collector>>

(* Environment variables and the public key.                               *)
Setup == main = "setup" /\ Goto(After("setup")) /\ UNCHANGED <<ending, world>>

(* Authenticate, and then the session's AES key, IV and wrapped key.       *)
Authenticate ==
    /\ main = "authenticate" /\ ~ctxDone
    /\ Goto(After("authenticate")) /\ UNCHANGED <<ending, world>>

Open ==
    /\ main = "open" /\ ~ctxDone
    /\ session' = "open"
    /\ Goto(After("open")) /\ UNCHANGED <<ending, invoice, ctxDone>>

(* OpenOnline fails, maybe after the server has created the session.       *)
OpenFails ==
    /\ main = "open"
    /\ session' \in {"none", "abandoned"}
    /\ Goto("fatal") /\ UNCHANGED <<ending, invoice, ctxDone>>

(* Build and submit the next invoice: the server has it once acknowledged. *)
Submit ==
    /\ main = "submit" /\ ~ctxDone
    /\ \E i \in Planned :
          /\ i = Cardinality(refs) + 1
          /\ refs' = refs \cup {i}
          /\ invoice' = [invoice EXCEPT ![i] = "received"]
    /\ UNCHANGED <<program, main, pollers, channel, collector, ending, session,
                   ctxDone>>

AllSubmitted ==
    /\ main = "submit" /\ refs = Planned
    /\ Goto(After("submit")) /\ UNCHANGED <<ending, world>>

(* log.Fatalf after any other failure but those of OpenOnline, the poll    *)
(* and Terminate.                                                          *)
Fatal ==
    /\ \/ main \in {"setup", "authenticate", "download", "receipt"}
       \/ main = "submit" /\ refs # Planned
    /\ Goto("fatal") /\ UNCHANGED <<ending, world>>

-----------------------------------------------------------------------------
(* The basic program's main goroutine polls and downloads.                 *)

StartPoll ==
    /\ main = "poll" /\ poller[1] = "none"
    /\ poller' = [poller EXCEPT ![1] = "request"]
    /\ UNCHANGED <<program, main, refs, status, channel, collector, ending,
                   world>>

PollEnds(good) ==
    /\ main = "poll" /\ poller[1] = "send"
    /\ Goto(IF status[1] \in good THEN After("poll") ELSE "fatal")
    /\ UNCHANGED <<ending, world>>

(* Mutant: the status that PollUntilProcessed returned is not looked at.   *)
PollReturns_AnyStatus == PollEnds({"accepted", "rejected"})

(* An error or a status other than accepted is fatal.                      *)
PollReturns == PollEnds({"accepted"})

(* DownloadInvoice of the KSeF number that the status carried.             *)
Download ==
    /\ main = "download" /\ ~ctxDone
    /\ Goto(After("download")) /\ UNCHANGED <<ending, world>>

(* DownloadUPO, and the receipt's file is written.                         *)
SaveReceipt ==
    /\ main = "receipt" /\ ~ctxDone
    /\ receipt' = TRUE
    /\ Goto(After("receipt")) /\ UNCHANGED <<closes, world>>

-----------------------------------------------------------------------------
(* The batch program's main goroutine starts pollers and collects.         *)

(* One turn of the loop that starts the pollers: wg.Add(1) and go.         *)
SpawnPoller(count) ==
    /\ main = "spawn"
    /\ \E i \in refs :
          /\ poller[i] = "none"
          /\ \A j \in refs : j < i => poller[j] # "none"
          /\ poller' = [poller EXCEPT ![i] = "request"]
    /\ wg' = count
    /\ UNCHANGED <<program, main, refs, status, results, closed, collector,
                   ending, world>>

(* Mutant: the poller itself would call wg.Add, too late.                  *)
Spawn_AddForgotten == SpawnPoller(IF wg = 0 THEN 1 ELSE wg)

Spawn == SpawnPoller(wg + 1)

AllSpawned ==
    /\ main = "spawn" /\ \A i \in refs : poller[i] # "none"
    /\ Goto(After("spawn")) /\ UNCHANGED <<ending, world>>

(* One result: only an accepted invoice counts as accepted, a failed poll  *)
(* as rejected.                                                            *)
Count(good) ==
    /\ main = "collect" /\ results # <<>>
    /\ results' = Tail(results)
    /\ accepted' = accepted + IF status[Head(results)] \in good THEN 1 ELSE 0
    /\ rejected' = rejected + IF status[Head(results)] \in good THEN 0 ELSE 1
    /\ UNCHANGED <<program, main, refs, pollers, closed, wg, ending, world>>

(* Mutant: a failed poll is taken for success.                             *)
Collect_ErrorIgnored == Count({"accepted", "error"})

Collect == Count({"accepted"})

(* range ends when the channel is closed and drained.                      *)
StopCollecting ==
    /\ main = "collect"
    /\ Goto(After("collect")) /\ UNCHANGED <<ending, world>>

(* Mutant: the collector leaves when it finds the channel empty.           *)
Collected_Early == results = <<>> /\ StopCollecting

Collected == closed /\ results = <<>> /\ StopCollecting

-----------------------------------------------------------------------------
(* The end of both programs.                                               *)

(* sess.Terminate(ctx), or the deferred Terminate with its own context.    *)
BeginTerminate ==
    /\ \/ main = "terminate" /\ closes = 0
       \/ main \in {"deferred", "panicking"} /\ closes = 1
    /\ closes' = closes + 1
    /\ UNCHANGED <<program, main, refs, pollers, channel, collector, receipt,
                   world>>

(* The explicit Terminate returned the status: the session is closed.      *)
TerminateReturns ==
    /\ main = "terminate" /\ closes = 1 /\ ~ctxDone
    /\ session' = "closed"
    /\ Goto(After("terminate")) /\ UNCHANGED <<ending, invoice, ctxDone>>

(* The close request was lost or answered too late, or it took effect and  *)
(* only reading the status failed.                                         *)
FailTerminate(step) ==
    /\ main = "terminate" /\ closes = 1
    /\ session' \in {session, "closed"}
    /\ Goto(step) /\ UNCHANGED <<ending, invoice, ctxDone>>

(* Mutant: the error is logged, and the program goes on.                   *)
TerminateFails_Logged == FailTerminate(After("terminate"))

TerminateFails == FailTerminate("fatal")

(* If the status has an InvoiceCount, all three counters are dereferenced: *)
(* an answer with only some of them is a panic.                            *)
PrintCounters ==
    /\ main = "counters"
    /\ \E step \in {After("counters"), "panicking"} : Goto(step)
    /\ UNCHANGED <<ending, world>>

(* The deferred Terminate ends, with or without an error that is printed.  *)
EndDeferred ==
    /\ main \in {"deferred", "panicking"} /\ closes = 2
    /\ session' \in {session, "closed"}
    /\ Goto(After(main)) /\ UNCHANGED <<ending, invoice, ctxDone>>

-----------------------------------------------------------------------------
(* PollUntilProcessed of invoice i: in its goroutine, or in main.          *)

PollerStep(i, from, to) ==
    /\ Alive
    /\ poller[i] = from
    /\ poller' = [poller EXCEPT ![i] = to]
    /\ UNCHANGED <<program, main, refs, closed, collector, ending, world>>

StatusReturns(i) ==
    /\ ~ctxDone
    /\ PollerStep(i, "request", "switch")
    /\ status' = [status EXCEPT ![i] = invoice[i]]
    /\ UNCHANGED <<results, wg>>

(* Mutant: a failed request is repeated and the sleep ignores the context. *)
PollFails_Retried(i) ==
    /\ PollerStep(i, "request", "sleep")
    /\ status' = [status EXCEPT ![i] = "error"]
    /\ UNCHANGED <<results, wg>>

(* No verdict: the request failed, the context ended the sleep, or the     *)
(* answer had no status in it, which decodes to code 0 and is terminal     *)
(* (PollingLoops).  Neither program tells these from a rejection.          *)
PollFails(i) ==
    /\ \/ PollerStep(i, "request", "send")
       \/ ctxDone /\ PollerStep(i, "sleep", "send")
    /\ status' = [status EXCEPT ![i] = "error"]
    /\ UNCHANGED <<results, wg>>

Processed(i) ==
    /\ status[i] # "received"
    /\ PollerStep(i, "switch", "send")
    /\ UNCHANGED <<status, results, wg>>

NotYet(i) ==
    /\ status[i] = "received"
    /\ PollerStep(i, "switch", "sleep")
    /\ UNCHANGED <<status, results, wg>>

(* The delays are those of PollingLoops; here only their end shows.        *)
TimerFires(i) ==
    /\ PollerStep(i, "sleep", "request")
    /\ UNCHANGED <<status, results, wg>>

(* results <- pollResult blocks while the buffer is full.                  *)
SendResult(i) ==
    /\ program = "batch" /\ Len(results) < Capacity
    /\ PollerStep(i, "send", "done")
    /\ results' = Append(results, i)
    /\ UNCHANGED <<status, wg>>

(* Mutant: a failed poll calls wg.Done besides the deferred call.          *)
WgDone_Twice(i) ==
    /\ PollerStep(i, "done", "exited")
    /\ wg' = IF status[i] = "error" THEN wg - 2 ELSE wg - 1
    /\ UNCHANGED <<status, results>>

WgDone(i) ==
    /\ PollerStep(i, "done", "exited")
    /\ wg' = wg - 1
    /\ UNCHANGED <<status, results>>

Poller(i) ==
    \/ StatusReturns(i) \/ PollFails(i) \/ Processed(i) \/ NotYet(i)
    \/ TimerFires(i) \/ SendResult(i) \/ WgDone(i)

(* The goroutine started after the loop: wg.Wait(), close(results).        *)
CloseResults ==
    /\ program = "batch" /\ Alive
    /\ main \in {"collect", "terminate", "counters", "deferred", "panicking"}
    /\ ~closed /\ wg = 0
    /\ closed' = TRUE
    /\ UNCHANGED <<program, main, refs, pollers, results, wg, collector,
                   ending, world>>

-----------------------------------------------------------------------------
(* The program's timeout, and the server.                                  *)

Elsewhere ==
    /\ Alive
    /\ UNCHANGED <<program, main, refs, pollers, channel, collector, ending,
                   session>>

Deadline == Elsewhere /\ ~ctxDone /\ ctxDone' = TRUE /\ UNCHANGED invoice

ServerProcesses ==
    /\ Elsewhere
    /\ \E i \in Numbers, s \in {"accepted", "rejected"} :
          invoice[i] = "received" /\ invoice' = [invoice EXCEPT ![i] = s]
    /\ UNCHANGED ctxDone

Main ==
    \/ Setup \/ Authenticate \/ Open \/ OpenFails
    \/ Submit \/ AllSubmitted \/ Fatal
    \/ StartPoll \/ PollReturns \/ Download \/ SaveReceipt
    \/ Spawn \/ AllSpawned \/ Collect \/ Collected
    \/ BeginTerminate \/ TerminateReturns \/ TerminateFails
    \/ PrintCounters \/ EndDeferred

Finished == ~Alive /\ UNCHANGED vars

Next ==
    \/ Main \/ CloseResults \/ Deadline \/ ServerProcesses \/ Finished
    \/ \E i \in Numbers : Poller(i)

(* Goroutines run, calls return, and the program's context ends.  Nothing  *)
(* is assumed of the server.                                               *)
Spec ==
    /\ Init /\ [][Next]_vars
    /\ WF_vars(Main) /\ WF_vars(CloseResults) /\ WF_vars(Deadline)
    /\ \A i \in Numbers : WF_vars(Poller(i))

-----------------------------------------------------------------------------
(* Properties.                                                             *)

(* No poller sends on the closed channel (a panic in Go), and the channel  *)
(* is closed only when the counter has seen every poller                   *)
(* (batch/main.go:213-229).                                                *)
NoSendOnClosed ==
    closed => \A i \in refs : poller[i] \in {"done", "exited"}

(* When the collector stops, every submitted invoice has been counted once *)
(* (batch/main.go:232-253).                                                *)
EveryResultCounted ==
    /\ program = "batch"
    /\ main \in {"terminate", "counters", "deferred", "panicking", "exited",
                 "crashed"}
    => /\ accepted + rejected = N
       /\ \A i \in Numbers : poller[i] \in {"done", "exited"}

(* Every invoice counted as accepted is accepted, and every invoice whose  *)
(* poller reported a rejection is not; a poll without a verdict says       *)
(* nothing, yet is counted as rejected (batch/main.go:234-250).            *)
CountsAreHonest ==
    /\ accepted <= Cardinality({i \in Numbers : invoice[i] = "accepted"})
    /\ \A i \in Numbers : status[i] \in {"accepted", "rejected"} =>
          invoice[i] = status[i]

(* A program that ends otherwise than by log.Fatalf, by a panic over the   *)
(* session's counters included, leaves no open session on the server, even *)
(* if its deferred Terminate fails (basic/main.go:253-265,                 *)
(* batch/main.go:260-272).                                                 *)
LeavesNoOpenSession == main \in {"exited", "crashed"} => session = "closed"

(* The basic program saves a receipt only of an invoice that was accepted, *)
(* in a session that it has closed (basic/main.go:218-284).                *)
ReceiptIsForAccepted ==
    receipt => invoice[1] = "accepted" /\ session = "closed"

(* Both programs end, whatever the server does: no goroutine waits for     *)
(* ever on the channel, the WaitGroup or the server (batch/main.go:82,     *)
(* 213-251, basic/main.go:66, 218).                                        *)
ProgramEnds == <>~Alive

(* "Guarantee the session is always terminated" (batch/main.go:135) and    *)
(* "Always terminate the session, even if subsequent steps fail"           *)
(* (basic/main.go:140): a process that was given a session does not end    *)
(* before a Terminate has begun.                                           *)
AlwaysTerminated == ~Alive /\ session \in {"open", "closed"} => closes > 0
=============================================================================
