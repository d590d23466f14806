--------------------------- MODULE OnlineSession ----------------------------
(***************************************************************************)
(* One caller, one KSeF server: the life of interactive sessions and of    *)
(* the invoices submitted in them (pkg/ksef/session/online.go,             *)
(* pkg/ksef/invoice/submit.go, status.go).                                 *)
(*                                                                         *)
(* Each POST is a call of internal/httpclient and behaves as HttpCall      *)
(* says: up to MaxCopies copies of the request leave one after the other,  *)
(* each may reach the server at any later time or never, the call succeeds *)
(* only if the last copy was acted on, and it may fail whatever became of  *)
(* the copies.  A GET has no effect; what it returns is what some copy saw.*)
(*                                                                         *)
(* The caller follows the documentation of OnlineSession: one operation at *)
(* a time.  It may submit again what failed, and terminate more than once  *)
(* (an explicit call and a deferred one).                                  *)
(*                                                                         *)
(* Sessions and invoices get as reference number the number of the copy    *)
(* that created them.  A 2xx body need not hold what the caller looks for: *)
(* encoding/json leaves a reference number empty then, and a code at 0.    *)
(***************************************************************************)
EXTENDS Integers

CONSTANTS
    Invoices,      \* documents to submit
    MaxCopies,     \* retry budget of one call: MaxRetries + 1
    MaxRequests    \* bound: copies of POST requests in a behaviour

ASSUME MaxCopiesIsPositive == MaxCopies \in Nat \ {0}
ASSUME MaxRequestsIsNatural == MaxRequests \in Nat

VARIABLES
    n,           \* number of POST copies sent so far
    reqs,        \* the copies: what they ask for and what became of them
    sessions,    \* server: state of the session created by each copy
    invoices,    \* server: state of the invoice created by each copy
    pc,          \* the operation the caller is in
    first,       \* first copy of the current call
    cur,         \* invoice the current operation is about
    pend,        \* session that OpenOnline waits for
    sess,        \* session that OpenOnline returned
    seen,        \* last status a GET of this operation reported
    ref,         \* reference number SubmitInvoice returned
    verdict,     \* what PollUntilProcessed returned
    terminated,  \* a Terminate returned without an error
    failedOpens  \* history: copies of the opens that returned an error

server == <<reqs, sessions, invoices>>
told   == <<sess, ref, verdict, terminated, failedOpens>>
vars   == <<n, server, pc, first, cur, pend, seen, told>>

-----------------------------------------------------------------------------
Ids == 1..MaxRequests
Nil == 0
NoNumber == -1   \* the empty reference number
NoInvoice == "noInvoice"
NoStatus == "noStatus"

ASSUME NoInvoiceIsNoInvoice == NoInvoice \notin Invoices

NoRequest == [op |-> "none", sess |-> Nil, inv |-> NoInvoice, fate |-> "unsent"]

Requests == [op : {"none", "open", "submit", "close"}, sess : Ids \cup {Nil},
             inv : Invoices \cup {NoInvoice},
             fate : {"unsent", "wire", "applied"}]

(* StatusOpened 100, StatusClosed 170, StatusProcessedOK 200, ...          *)
(* "preparing" is any code that WaitUntilActive does not know, 0 too.      *)
SessionStates == {"none", "preparing", "opened", "closed", "processed",
                  "undecryptable", "cancelled", "invalid"}

(* StatusReceived and StatusProcessing, StatusAccepted, StatusDuplicate,   *)
(* and every other code of the API.                                        *)
InvoiceStates == {"none", "received", "accepted", "duplicate", "rejected"}

(* Every code but 100 and 150, and so also 0, "noCode".                    *)
IsTerminal(s) == s # "received"

Operations == {"idle", "open", "wait", "submit", "poll", "close", "status"}

TypeOK ==
    /\ n \in 0..MaxRequests
    /\ reqs \in [Ids -> Requests]
    /\ sessions \in [Ids -> SessionStates]
    /\ invoices \in [Ids -> InvoiceStates]
    /\ pc \in Operations
    /\ first \in 1..MaxRequests + 1
    /\ cur \in Invoices \cup {NoInvoice}
    /\ pend \in Ids \cup {Nil, NoNumber}
    /\ sess \in Ids \cup {Nil}
    /\ seen \in SessionStates \cup InvoiceStates \cup {NoStatus, "noCode"}
    /\ ref \in [Invoices -> Ids \cup {Nil, NoNumber}]
    /\ verdict \in [Invoices -> {"none", "accepted", "duplicate", "rejected",
                               "noCode"}]
    /\ terminated \in BOOLEAN
    /\ failedOpens \subseteq Ids

Init ==
    /\ n = 0
    /\ reqs = [i \in Ids |-> NoRequest]
    /\ sessions = [i \in Ids |-> "none"]
    /\ invoices = [i \in Ids |-> "none"]
    /\ pc = "idle"
    /\ first = 1
    /\ cur = NoInvoice
    /\ pend = Nil
    /\ sess = Nil
    /\ seen = NoStatus
    /\ ref = [v \in Invoices |-> Nil]
    /\ verdict = [v \in Invoices |-> "none"]
    /\ terminated = FALSE
    /\ failedOpens = {}

-----------------------------------------------------------------------------
(* HTTP calls.                                                             *)

(* A copy of the current call's POST leaves the client.                    *)
SendCopy(op, v) ==
    /\ n < MaxRequests
    /\ n + 1 < first + MaxCopies
    /\ n' = n + 1
    /\ reqs' = [reqs EXCEPT ![n + 1] =
                   [op |-> op, sess |-> sess, inv |-> v, fate |-> "wire"]]
    /\ UNCHANGED <<sessions, invoices, pc, first, cur, pend, seen, told>>

SendOpen   == pc = "open"   /\ SendCopy("open", NoInvoice)
SendSubmit == pc = "submit" /\ SendCopy("submit", cur)
SendClose  == pc = "close"  /\ SendCopy("close", NoInvoice)

(* The last copy of the call was acted on, and its 2xx can be returned.    *)
CallDone == n >= first /\ reqs[n].fate = "applied"

(* The reference number in the body of that 2xx, if there is one.          *)
NumberInBody == {n, NoNumber}

(* What a GET may report of the object with reference number r: its state, *)
(* or code 0, which is all that a path without a number can lead to.       *)
Answers(states, r, zero) == {zero} \cup {states[i] : i \in {r} \ {NoNumber}}

(* An operation begins, and ends with its locals gone.                     *)
Begin(op, v) ==
    /\ pc = "idle"
    /\ pc' = op
    /\ first' = n + 1
    /\ cur' = v
    /\ seen' = NoStatus
    /\ UNCHANGED <<n, server, pend, told>>

Finish(op) ==
    /\ pc = op
    /\ pc' = "idle"
    /\ first' = 1 /\ cur' = NoInvoice /\ seen' = NoStatus
    /\ UNCHANGED <<n, server>>

-----------------------------------------------------------------------------
(* OpenOnline and WaitUntilActive.                                         *)

OpenOnline == sess = Nil /\ Begin("open", NoInvoice)

(* POST /sessions/online returned: poll the session it created.            *)
OpenReturns ==
    /\ pc = "open" /\ CallDone
    /\ pend' \in NumberInBody
    /\ pc' = "wait"
    /\ seen' = NoStatus
    /\ UNCHANGED <<n, server, first, cur, told>>

WaitAsks ==
    /\ pc = "wait"
    /\ seen' \in Answers(sessions, pend, "preparing")
    /\ UNCHANGED <<n, server, pc, first, cur, pend, told>>

Activated ==
    /\ Finish("wait")
    /\ sess' = pend
    /\ pend' = Nil
    /\ UNCHANGED <<ref, verdict, terminated, failedOpens>>

(* Mutant: any code that is not a known error counts as active.            *)
WaitReady_NoError ==
    seen \in {"preparing", "opened", "closed", "processed"} /\ Activated

(* Status 100 was reported: OpenOnline returns the session.                *)
WaitReady == seen = "opened" /\ Activated

(* Mutant: the failure is returned without an error.                       *)
OpenFails_NilError ==
    /\ Finish("open") \/ Finish("wait")
    /\ pend' = Nil
    /\ UNCHANGED told

(* OpenOnline returns an error: the POST failed or could not be decoded,   *)
(* or WaitUntilActive saw an error state, lost a status call, ran into the *)
(* context or used up its polls.  The reference number is dropped.         *)
OpenFails ==
    /\ Finish("open") \/ Finish("wait")
    /\ pend' = Nil
    /\ failedOpens' = failedOpens \cup first..n
    /\ UNCHANGED <<sess, ref, verdict, terminated>>

-----------------------------------------------------------------------------
(* SubmitInvoice and PollUntilProcessed.                                   *)

SubmitInvoice(v) == sess # Nil /\ ref[v] = Nil /\ Begin("submit", v)

Acknowledge ==
    /\ Finish("submit")
    /\ \E r \in NumberInBody : ref' = [ref EXCEPT ![cur] = r]
    /\ UNCHANGED <<pend, sess, verdict, terminated, failedOpens>>

(* Mutant: the error of the request is ignored.                            *)
SubmitReturns_ErrorIgnored == n >= first /\ Acknowledge

(* The reference number is the one that the answered copy was given, or    *)
(* empty.                                                                  *)
SubmitReturns == CallDone /\ Acknowledge

SubmitFails == Finish("submit") /\ UNCHANGED <<pend, told>>

PollUntilProcessed(v) ==
    ref[v] # Nil /\ verdict[v] = "none" /\ Begin("poll", v)

AskInvoice(r) ==
    /\ pc = "poll"
    /\ seen' \in Answers(invoices, r, "noCode")
    /\ UNCHANGED <<n, server, pc, first, cur, pend, told>>

(* Mutant: the poller uses a reference number shared by all invoices.      *)
PollAsks_SharedRef ==
    \E v \in Invoices : ref[v] # Nil /\ AskInvoice(ref[v])

PollAsks == AskInvoice(ref[cur])

Report(s) ==
    /\ Finish("poll")
    /\ verdict' = [verdict EXCEPT ![cur] = s]
    /\ UNCHANGED <<pend, sess, ref, terminated, failedOpens>>

(* Mutant: any status ends the loop.                                       *)
PollReturns_AnyStatus == seen # NoStatus /\ Report(seen)

PollReturns == seen # NoStatus /\ IsTerminal(seen) /\ Report(seen)

PollFails == Finish("poll") /\ UNCHANGED <<pend, told>>

-----------------------------------------------------------------------------
(* Terminate.                                                              *)

Terminate == sess # Nil /\ Begin("close", NoInvoice)

CloseTo ==
    /\ pc = "close"
    /\ pc' = "status"
    /\ UNCHANGED <<n, server, first, cur, pend, seen, told>>

(* Mutant: the error of the close request is ignored.                      *)
CloseReturns_ErrorIgnored == CloseTo

CloseReturns == CallDone /\ CloseTo

(* The status is read and handed on, whatever it says.                     *)
TerminateReturns ==
    /\ Finish("status")
    /\ terminated' = TRUE
    /\ UNCHANGED <<pend, sess, ref, verdict, failedOpens>>

(* The close request failed, or it succeeded and the status call failed.   *)
TerminateFails ==
    (Finish("close") \/ Finish("status")) /\ UNCHANGED <<pend, told>>

-----------------------------------------------------------------------------
(* The server, as the code in src/ relies on it.  A copy that is lost or   *)
(* refused (a rate limit, a rejected token, a session that is not open) is *)
(* never acted on, and the call does not depend on which it was.           *)

Take(i) ==
    reqs[i].fate = "wire" /\ reqs' = [reqs EXCEPT ![i].fate = "applied"]

(* Every copy of an open request creates a session of its own.             *)
ServeOpen(i) ==
    /\ reqs[i].op = "open"
    /\ Take(i)
    /\ sessions' = [sessions EXCEPT ![i] = "preparing"]
    /\ UNCHANGED invoices

(* Every copy of a submission to an open session is an invoice of its own. *)
ServeSubmit(i) ==
    /\ reqs[i].op = "submit" /\ sessions[reqs[i].sess] = "opened"
    /\ Take(i)
    /\ invoices' = [invoices EXCEPT ![i] = "received"]
    /\ UNCHANGED sessions

ServeClose(i) ==
    /\ reqs[i].op = "close" /\ sessions[reqs[i].sess] = "opened"
    /\ Take(i)
    /\ sessions' = [sessions EXCEPT ![reqs[i].sess] = "closed"]
    /\ UNCHANGED invoices

(* Sessions become active or fail; at ValidUntil the server cancels one    *)
(* without invoices and closes any other; a closed one is processed with   *)
(* the last of its invoices, and invalid if none of them was accepted.     *)
InvoicesOf(i) ==
    {j \in Ids : reqs[j].op = "submit" /\ reqs[j].sess = i
                 /\ invoices[j] # "none"}

NextSessionStates(i) ==
    CASE sessions[i] = "preparing" -> {"opened", "undecryptable"}
      [] sessions[i] = "opened" ->
            {IF InvoicesOf(i) = {} THEN "cancelled" ELSE "closed"}
      [] sessions[i] = "closed"
         /\ \A j \in InvoicesOf(i) : invoices[j] # "received" ->
            {IF \E j \in InvoicesOf(i) : invoices[j] = "accepted"
             THEN "processed" ELSE "invalid"}
      [] OTHER -> {}

SessionProgress(i) ==
    /\ \E s \in NextSessionStates(i) :
          sessions' = [sessions EXCEPT ![i] = s]
    /\ UNCHANGED <<reqs, invoices>>

Accepted(v) == \E i \in Ids : reqs[i].inv = v /\ invoices[i] = "accepted"

(* A document is accepted once; further copies of it are duplicates.       *)
InvoiceProgress(i) ==
    /\ invoices[i] = "received"
    /\ \E s \in {"rejected",
                 IF Accepted(reqs[i].inv) THEN "duplicate" ELSE "accepted"} :
          invoices' = [invoices EXCEPT ![i] = s]
    /\ UNCHANGED <<reqs, sessions>>

Server ==
    /\ \E i \in 1..n :
          \/ ServeOpen(i) \/ ServeSubmit(i) \/ ServeClose(i)
          \/ SessionProgress(i) \/ InvoiceProgress(i)
    /\ UNCHANGED <<n, pc, first, cur, pend, seen, told>>

-----------------------------------------------------------------------------
Next ==
    \/ OpenOnline \/ SendOpen \/ OpenReturns
    \/ WaitAsks \/ WaitReady \/ OpenFails
    \/ \E v \in Invoices : SubmitInvoice(v) \/ PollUntilProcessed(v)
    \/ SendSubmit \/ SubmitReturns \/ SubmitFails
    \/ PollAsks \/ PollReturns \/ PollFails
    \/ Terminate \/ SendClose \/ CloseReturns
    \/ TerminateReturns \/ TerminateFails
    \/ Server

Spec == Init /\ [][Next]_vars

-----------------------------------------------------------------------------
(* Properties.                                                             *)

(* A session that OpenOnline returns has been open on the server, and with *)
(* it every session an invoice is sent to: a submission is never refused   *)
(* for coming too early (online.go:110, 155-177).                          *)
SessionWasOpened ==
    /\ sess # Nil =>
          /\ sess \in Ids
          /\ sessions[sess] \in {"opened", "closed", "processed", "cancelled",
                                "invalid"}
    /\ \A i \in 1..n : reqs[i].op \in {"submit", "close"} => reqs[i].sess # Nil

HeldAs(i, v) ==
    /\ reqs[i].op = "submit" /\ reqs[i].inv = v /\ reqs[i].sess = sess
    /\ invoices[i] # "none"

(* When SubmitInvoice has returned without an error, the server holds an   *)
(* invoice of this document in this session, and a reference number that   *)
(* is not empty names it, whatever copies of other requests are still      *)
(* under way (submit.go:73-83).                                            *)
AcknowledgedIsHeld ==
    \A v \in Invoices : ref[v] # Nil =>
        \E i \in Ids : ref[v] \in {i, NoNumber} /\ HeldAs(i, v)

(* A verdict of PollUntilProcessed that has a code is that of this very    *)
(* invoice on the server, and final; a duplicate means that another copy   *)
(* of the same document was accepted, so a submission repeated by the HTTP *)
(* client is never lost (status.go:47-54, types.go:34-37).  A verdict      *)
(* without a code says nothing: see ProcessedIsFinal of PollingLoops.      *)
VerdictIsTrue ==
    \A v \in Invoices :
        /\ verdict[v] \notin {"none", "noCode"} =>
              ref[v] \in Ids /\ invoices[ref[v]] = verdict[v]
        /\ verdict[v] = "duplicate" => Accepted(v)

(* Once a Terminate has succeeded the session accepts no invoice, although *)
(* its status is read only after the close (online.go:126-134).            *)
TerminatedIsClosed == terminated => sessions[sess] # "opened"

Live(s) == sessions[s] \in {"preparing", "opened"}

(* Between operations the server keeps no session open for nobody: one     *)
(* that the caller has no handle on was asked for by an OpenOnline that    *)
(* reported an error, or by an earlier copy of the request than the one    *)
(* that was answered (online.go:91-112).                                   *)
AbandonedOnlyAfterTrouble ==
    pc \notin {"open", "wait"} =>
        \A s \in Ids : Live(s) => s <= sess \/ s \in failedOpens
=============================================================================
