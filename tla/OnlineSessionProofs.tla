------------------------ MODULE OnlineSessionProofs ------------------------
(***************************************************************************)
(* Theorems about sessions and the invoices submitted in them, for every   *)
(* retry budget, set of documents and number of requests, and about the    *)
(* encryption of the invoices, for every block size that fits a byte.      *)
(*                                                                         *)
(* What the caller was told is right because what the server has created   *)
(* agrees with the fate of the copies, because the copies of the call that *)
(* is under way are about what the caller asks for, and because what the   *)
(* caller has seen cannot be undone.  IInv says so.                        *)
(***************************************************************************)
EXTENDS EncryptedSession, NaturalLemmas

-----------------------------------------------------------------------------
(* The inductive invariant.                                                *)

WasOpen == {"opened", "closed", "processed", "cancelled", "invalid"}
IsShut  == {"closed", "processed", "invalid"}
Final   == {"accepted", "duplicate", "rejected"}

(* Where the caller stands. *)
PcInv ==
    /\ first <= n + 1
    /\ first >= 1
    /\ pc = "wait" => pend \in {n, NoNumber} /\ n >= first
    /\ pc # "wait" => pend = Nil
    /\ pc \in {"open", "wait"} => sess = Nil
    /\ pc \in {"submit", "poll", "close", "status"} => sess # Nil
    /\ pc \in {"submit", "poll"} => cur \in Invoices
    /\ pc \in {"open", "close"} => cur = NoInvoice
    /\ pc = "poll" => ref[cur] # Nil
    /\ pc = "submit" => ref[cur] = Nil

(* The copies that were sent. *)
ReqInv ==
    /\ \A i \in Ids : i > n <=> reqs[i].fate = "unsent"
    /\ \A i \in Ids : i > n <=> reqs[i].op = "none"
    /\ \A i \in Ids : i <= n /\ i >= first /\ pc \in {"open", "submit", "close"} =>
          reqs[i].op = pc /\ reqs[i].inv = cur
    /\ \A i \in Ids : reqs[i].op \in {"submit", "close"} =>
          reqs[i].sess = sess /\ sess # Nil

(* The server and the copies agree. *)
ServerInv ==
    /\ \A i \in Ids : sessions[i] # "none" <=>
          reqs[i].op = "open" /\ reqs[i].fate = "applied"
    /\ \A i \in Ids : invoices[i] # "none" <=>
          reqs[i].op = "submit" /\ reqs[i].fate = "applied"
    /\ \A i \in Ids : reqs[i].op = "close" /\ reqs[i].fate = "applied" =>
          sessions[reqs[i].sess] \in IsShut
    /\ \A i \in Ids : invoices[i] = "duplicate" => Accepted(reqs[i].inv)

(* What the caller has seen, and been told, holds for good. *)
ToldInv ==
    /\ pc = "wait" /\ seen = "opened" =>
          pend \in Ids /\ sessions[pend] \in WasOpen
    /\ pc = "poll" /\ seen \in Final =>
          ref[cur] \in Ids /\ invoices[ref[cur]] = seen
    /\ pc = "poll" => seen \in Final \cup {NoStatus, "received", "noCode"}
    /\ pc = "status" => sessions[sess] \in IsShut
    /\ terminated => sess # Nil /\ sessions[sess] \in IsShut
    /\ sess # Nil => sessions[sess] \in WasOpen
    /\ \A v \in Invoices : ref[v] # Nil =>
          \E i \in Ids : /\ ref[v] \in {i, NoNumber}
                         /\ reqs[i].inv = v /\ invoices[i] # "none"
    /\ \A v \in Invoices : verdict[v] # "none" => ref[v] # Nil
    /\ \A v \in Invoices : verdict[v] \in Final =>
          ref[v] \in Ids /\ invoices[ref[v]] = verdict[v]

(* Whoever asked for a session. *)
HandleInv ==
    \A s \in Ids : reqs[s].op = "open" =>
        \/ s \in failedOpens \/ s <= sess
        \/ pc \in {"open", "wait"} /\ s >= first

IInv == TypeOK /\ PcInv /\ ReqInv /\ ServerInv /\ ToldInv /\ HandleInv

-----------------------------------------------------------------------------
LEMMA InitIInv == Init => IInv
  <1> SUFFICES ASSUME Init PROVE IInv
    OBVIOUS
  <1> USE MaxRequestsIsNatural DEF Init
  <1>1. TypeOK
    <2>1. reqs \in [Ids -> Requests]
      BY DEF NoRequest, Requests, Nil, NoInvoice
    <2>2. terminated \in BOOLEAN /\ failedOpens \subseteq Ids
      OBVIOUS
    <2>3. /\ sessions \in [Ids -> SessionStates]
          /\ invoices \in [Ids -> InvoiceStates]
          /\ ref \in [Invoices -> Ids \cup {Nil, NoNumber}]
          /\ verdict \in [Invoices -> {"none", "accepted", "duplicate", "rejected",
                                       "noCode"}]
      BY DEF SessionStates, InvoiceStates
    <2>4. n \in 0..MaxRequests /\ first \in 1..MaxRequests + 1
      OBVIOUS
    <2>5. pc \in Operations /\ cur \in Invoices \cup {NoInvoice}
          /\ pend \in Ids \cup {Nil, NoNumber} /\ sess \in Ids \cup {Nil}
          /\ seen \in SessionStates \cup InvoiceStates \cup {NoStatus, "noCode"}
      BY DEF Operations
    <2> QED
      BY <2>1, <2>2, <2>3, <2>4, <2>5 DEF TypeOK
  <1>2. PcInv /\ ReqInv
    BY DEF PcInv, ReqInv, NoRequest, Ids
  <1>3. ServerInv /\ ToldInv /\ HandleInv
    BY DEF ServerInv, ToldInv, HandleInv, NoRequest, Nil, Final
  <1> QED
    BY <1>1, <1>2, <1>3 DEF IInv

(* An operation begins. *)
LEMMA BeginStep ==
    ASSUME IInv,
           \/ OpenOnline \/ Terminate
           \/ \E v \in Invoices : SubmitInvoice(v) \/ PollUntilProcessed(v)
    PROVE  IInv'
  <1>1. TypeOK /\ PcInv /\ ReqInv /\ ServerInv /\ ToldInv /\ HandleInv
    BY DEF IInv
  <1>2. PICK op \in {"open", "submit", "poll", "close"},
             v \in Invoices \cup {NoInvoice} :
            /\ Begin(op, v)
            /\ op = "open" => sess = Nil
            /\ op \in {"submit", "close"} => sess # Nil
            /\ op \in {"submit", "poll"} => v \in Invoices
            /\ op \in {"open", "close"} => v = NoInvoice
            /\ op = "poll" => ref[v] # Nil
            /\ op = "submit" => ref[v] = Nil
    BY DEF OpenOnline, Terminate, SubmitInvoice, PollUntilProcessed
  <1>3. /\ pc = "idle" /\ pc' = op /\ first' = n + 1 /\ cur' = v /\ seen' = NoStatus
        /\ UNCHANGED <<n, reqs, sessions, invoices, pend, sess, ref, verdict,
                       terminated, failedOpens>>
    BY <1>2 DEF Begin, server, told
  <1>4. n \in Nat /\ MaxRequests \in Nat /\ n <= MaxRequests
    BY <1>1, MaxRequestsIsNatural DEF TypeOK
  <1>5. TypeOK'
    BY <1>1, <1>3, <1>4 DEF TypeOK, Operations
  <1>6. op = "poll" => sess # Nil
    BY <1>1, <1>2, <1>4 DEF TypeOK, ToldInv, ServerInv, ReqInv
  <1>7. PcInv'
    BY <1>1, <1>2, <1>3, <1>4, <1>6 DEF PcInv
  <1>8. ReqInv'
    BY <1>1, <1>3, <1>4 DEF ReqInv, Ids
  <1>9. ServerInv'
    BY <1>1, <1>3 DEF ServerInv, Accepted
  <1>10. ToldInv'
    BY <1>1, <1>3 DEF ToldInv, Final, NoStatus
  <1>11. HandleInv'
    BY <1>1, <1>3 DEF HandleInv
  <1> QED
    BY <1>5, <1>7, <1>8, <1>9, <1>10, <1>11 DEF IInv

(* A copy leaves. *)
LEMMA SendStep ==
    ASSUME IInv, SendOpen \/ SendSubmit \/ SendClose
    PROVE  IInv'
  <1>1. TypeOK /\ PcInv /\ ReqInv /\ ServerInv /\ ToldInv /\ HandleInv
    BY DEF IInv
  <1>2. pc \in {"open", "submit", "close"} /\ SendCopy(pc, cur)
    BY <1>1 DEF SendOpen, SendSubmit, SendClose, PcInv
  <1> DEFINE copy == [op |-> pc, sess |-> sess, inv |-> cur, fate |-> "wire"]
  <1>3. /\ n < MaxRequests /\ n' = n + 1
        /\ reqs' = [reqs EXCEPT ![n + 1] = copy]
        /\ UNCHANGED <<sessions, invoices, pc, first, cur, pend, seen, sess, ref,
                       verdict, terminated, failedOpens>>
    BY <1>2 DEF SendCopy, told
  <1>4. n \in Nat /\ MaxRequests \in Nat /\ n + 1 \in Ids /\ first \in Nat
    BY <1>1, <1>3, MaxRequestsIsNatural DEF TypeOK, Ids
  <1>5. copy \in Requests
    BY <1>1, <1>2 DEF TypeOK, Requests
  <1>6. /\ reqs' \in [Ids -> Requests] /\ reqs'[n + 1] = copy
        /\ \A i \in Ids : i # n + 1 => reqs'[i] = reqs[i]
    BY <1>1, <1>3, <1>4, <1>5 DEF TypeOK
  <1>7. reqs[n + 1].op = "none"
    BY <1>1, <1>4 DEF ReqInv
  <1>8. TypeOK'
    BY <1>1, <1>3, <1>4, <1>6 DEF TypeOK
  <1>9. PcInv'
    BY <1>1, <1>2, <1>3, <1>4 DEF PcInv
  <1>10. ReqInv'
    BY <1>1, <1>2, <1>3, <1>4, <1>6 DEF ReqInv, PcInv, Ids
  <1>11. invoices[n + 1] = "none" /\ sessions[n + 1] = "none"
    BY <1>1, <1>4, <1>7 DEF ServerInv
  <1>12. ServerInv'
    <2>1. \A v \in Invoices \cup {NoInvoice} : Accepted(v) => Accepted(v)'
      BY <1>3, <1>6, <1>11 DEF Accepted
    <2>2. \A i \in Ids : reqs[i].inv \in Invoices \cup {NoInvoice}
      BY <1>1 DEF TypeOK, Requests
    <2> QED
      BY <1>1, <1>3, <1>4, <1>6, <1>11, <2>1, <2>2 DEF ServerInv
  <1>13. ToldInv'
    <2>1. \A i \in Ids : reqs'[i].inv = reqs[i].inv \/ invoices[i] = "none"
      BY <1>6, <1>11
    <2>2. \A v \in Invoices : ref[v] # Nil =>
              \E i \in Ids : /\ ref[v] \in {i, NoNumber}
                             /\ reqs'[i].inv = v /\ invoices[i] # "none"
      BY <1>1, <2>1 DEF ToldInv
    <2> QED
      BY <1>1, <1>3, <2>2 DEF ToldInv
  <1>14. HandleInv'
    <2>1. n + 1 >= first
      BY <1>1, <1>4 DEF PcInv
    <2>2. ASSUME NEW s \in Ids, reqs'[s].op = "open"
          PROVE  s \in failedOpens \/ s <= sess
                 \/ (pc \in {"open", "wait"} /\ s >= first)
      <3>1. CASE s = n + 1
        BY <1>2, <1>6, <2>1, <2>2, <3>1
      <3>2. CASE s # n + 1
        BY <1>1, <1>6, <2>2, <3>2 DEF HandleInv
      <3> QED
        BY <3>1, <3>2
    <2> QED
      BY <1>3, <2>2 DEF HandleInv
  <1> QED
    BY <1>8, <1>9, <1>10, <1>12, <1>13, <1>14 DEF IInv

(* A call goes on to its next request, or a status is read. *)
LEMMA AskStep ==
    ASSUME IInv,
           OpenReturns \/ CloseReturns \/ WaitAsks \/ PollAsks
    PROVE  IInv'
  <1>1. TypeOK /\ PcInv /\ ReqInv /\ ServerInv /\ ToldInv /\ HandleInv
    BY DEF IInv
  <1>2. /\ UNCHANGED <<n, reqs, sessions, invoices, first, cur, sess, ref, verdict,
                       terminated, failedOpens>>
        /\ n \in Nat /\ first \in Nat
    BY <1>1 DEF OpenReturns, CloseReturns, CloseTo, WaitAsks, PollAsks, AskInvoice,
                TypeOK, server, told
  <1>3. ServerInv'
    BY <1>1, <1>2 DEF ServerInv, Accepted
  <1>4. CASE OpenReturns
    <2>1. /\ pc = "open" /\ n >= first /\ reqs[n].fate = "applied"
          /\ pend' \in {n, NoNumber} /\ pc' = "wait" /\ seen' = NoStatus
      BY <1>4 DEF OpenReturns, CallDone, NumberInBody
    <2>2. n \in Ids
      BY <1>1, <1>2, <2>1 DEF TypeOK, PcInv, Ids
    <2>3. TypeOK'
      BY <1>1, <1>2, <2>1, <2>2 DEF TypeOK, Operations
    <2>4. PcInv' /\ ReqInv'
      BY <1>1, <1>2, <2>1, <2>2 DEF PcInv, ReqInv
    <2>5. ToldInv' /\ HandleInv'
      BY <1>1, <1>2, <2>1 DEF ToldInv, HandleInv, NoStatus
    <2> QED
      BY <1>3, <2>3, <2>4, <2>5 DEF IInv
  <1>5. CASE CloseReturns
    <2>1. /\ pc = "close" /\ n >= first /\ reqs[n].fate = "applied"
          /\ pc' = "status" /\ UNCHANGED <<pend, seen>>
      BY <1>5 DEF CloseReturns, CallDone, CloseTo
    <2>2. n \in Ids /\ reqs[n].op = "close" /\ reqs[n].sess = sess
      BY <1>1, <1>2, <2>1 DEF TypeOK, ReqInv, Ids
    <2>3. sessions[sess] \in IsShut
      BY <1>1, <2>1, <2>2 DEF ServerInv
    <2>4. TypeOK' /\ PcInv' /\ ReqInv'
      BY <1>1, <1>2, <2>1 DEF TypeOK, PcInv, ReqInv, Operations
    <2>5. ToldInv' /\ HandleInv'
      BY <1>1, <1>2, <2>1, <2>3 DEF ToldInv, HandleInv
    <2> QED
      BY <1>3, <2>4, <2>5 DEF IInv
  <1>6. CASE WaitAsks \/ PollAsks
    <2>1. /\ UNCHANGED <<pc, pend>>
          /\ \/ /\ pc = "wait"
                /\ \/ seen' = "preparing"
                   \/ pend \in Ids /\ seen' = sessions[pend]
             \/ /\ pc = "poll"
                /\ \/ seen' = "noCode"
                   \/ ref[cur] \in Ids /\ seen' = invoices[ref[cur]]
      <3>1. /\ pc = "wait" => pend \in Ids \cup {NoNumber}
            /\ pc = "poll" => ref[cur] \in Ids \cup {NoNumber}
        <4>1. pc = "wait" => pend # Nil
          BY <1>1, <1>2 DEF PcInv, Nil, NoNumber
        <4> QED
          BY <1>1, <4>1 DEF TypeOK, PcInv
      <3>2. UNCHANGED <<pc, pend>>
        BY <1>6 DEF WaitAsks, PollAsks, AskInvoice, told
      <3>3. CASE WaitAsks
        BY <3>1, <3>2, <3>3 DEF WaitAsks, Answers
      <3>4. CASE PollAsks
        BY <3>1, <3>2, <3>4 DEF PollAsks, AskInvoice, Answers
      <3> QED
        BY <1>6, <3>3, <3>4
    <2>2. TypeOK'
      BY <1>1, <1>2, <2>1 DEF TypeOK, SessionStates
    <2>3. PcInv' /\ ReqInv' /\ HandleInv'
      BY <1>1, <1>2, <2>1 DEF PcInv, ReqInv, HandleInv
    <2>4. pc = "poll" /\ ref[cur] \in Ids => invoices[ref[cur]] \in Final \cup {"received"}
      BY <1>1 DEF ToldInv, PcInv, TypeOK, InvoiceStates, Final, NoNumber, Ids
    <2>5. ToldInv'
      BY <1>1, <1>2, <2>1, <2>4 DEF ToldInv, WasOpen, Final
    <2> QED
      BY <1>3, <2>2, <2>3, <2>5 DEF IInv
  <1> QED
    BY <1>4, <1>5, <1>6

(* An operation ends. *)
LEMMA FinishStep ==
    ASSUME IInv,
           \/ WaitReady \/ OpenFails \/ SubmitReturns \/ SubmitFails
           \/ PollReturns \/ PollFails \/ TerminateReturns \/ TerminateFails
    PROVE  IInv'
  <1>1. TypeOK /\ PcInv /\ ReqInv /\ ServerInv /\ ToldInv /\ HandleInv
    BY DEF IInv
  <1>2. PICK op \in {"open", "wait", "submit", "poll", "close", "status"} : Finish(op)
    BY DEF WaitReady, Activated, OpenFails, SubmitReturns, Acknowledge, SubmitFails,
           PollReturns, Report, PollFails, TerminateReturns, TerminateFails
  <1>3. /\ pc = op /\ pc' = "idle"
        /\ first' = 1 /\ cur' = NoInvoice /\ seen' = NoStatus
        /\ UNCHANGED <<n, reqs, sessions, invoices>>
    BY <1>2 DEF Finish, server
  <1>4. ServerInv'
    BY <1>1, <1>3 DEF ServerInv, Accepted
  <1>5. n \in Nat /\ first \in Nat /\ MaxRequests \in Nat
    BY <1>1, MaxRequestsIsNatural DEF TypeOK
  <1> USE DEF Finish
  <1>6. pend' = Nil
    BY <1>1, <1>3 DEF PcInv, WaitReady, Activated, OpenFails, SubmitReturns,
       Acknowledge, SubmitFails, PollReturns, Report, PollFails, TerminateReturns,
       TerminateFails
  <1>7. CASE WaitReady
    <2>1. /\ op = "wait" /\ seen = "opened" /\ sess' = pend
          /\ UNCHANGED <<ref, verdict, terminated, failedOpens>>
      BY <1>3, <1>7 DEF WaitReady, Activated
    <2>2. /\ sess = Nil /\ pend \in Ids /\ sessions[pend] \in WasOpen
          /\ pend = n
      BY <1>1, <1>3, <2>1 DEF TypeOK, PcInv, ToldInv, NoNumber, Ids
    <2>3. TypeOK'
      BY <1>1, <1>3, <1>5, <1>6, <2>1, <2>2 DEF TypeOK, Operations
    <2>4. PcInv' /\ ReqInv'
      BY <1>1, <1>3, <1>5, <1>6, <2>1, <2>2 DEF PcInv, ReqInv
    <2>5. ToldInv'
      BY <1>1, <1>3, <1>6, <2>1, <2>2 DEF ToldInv
    <2>6. \A s \in Ids : reqs[s].op = "open" => s <= n
      BY <1>1, <1>5 DEF ReqInv, Ids
    <2>7. HandleInv'
      BY <1>3, <2>1, <2>2, <2>6 DEF HandleInv
    <2> QED
      BY <1>4, <2>3, <2>4, <2>5, <2>7 DEF IInv
  <1>8. CASE OpenFails
    <2>1. /\ pc \in {"open", "wait"} /\ failedOpens' = failedOpens \cup first..n
          /\ UNCHANGED <<sess, ref, verdict, terminated>>
      BY <1>8 DEF OpenFails
    <2>2. first..n \subseteq Ids
      BY <1>1, <1>5 DEF TypeOK, PcInv, Ids
    <2>3. TypeOK'
      BY <1>1, <1>3, <1>5, <1>6, <2>1, <2>2 DEF TypeOK, Operations
    <2>4. PcInv' /\ ReqInv' /\ ToldInv'
      BY <1>1, <1>3, <1>5, <1>6, <2>1 DEF PcInv, ReqInv, ToldInv
    <2>5. \A s \in Ids : reqs[s].op = "open" /\ s >= first => s \in first..n
      BY <1>1, <1>5 DEF ReqInv, Ids
    <2>6. HandleInv'
      BY <1>1, <1>3, <2>1, <2>5 DEF HandleInv
    <2> QED
      BY <1>4, <2>3, <2>4, <2>6 DEF IInv
  <1>9. CASE SubmitReturns
    <2>1. /\ op = "submit" /\ n >= first /\ reqs[n].fate = "applied"
          /\ UNCHANGED <<sess, verdict, terminated, failedOpens>>
      BY <1>3, <1>9 DEF SubmitReturns, CallDone, Acknowledge
    <2> PICK r \in {n, NoNumber} : ref' = [ref EXCEPT ![cur] = r]
      BY <1>9 DEF SubmitReturns, Acknowledge, NumberInBody
    <2>2. /\ n \in Ids /\ reqs[n].op = "submit" /\ reqs[n].inv = cur
          /\ cur \in Invoices
      BY <1>1, <1>3, <1>5, <2>1 DEF TypeOK, ReqInv, PcInv, Ids
    <2>3. invoices[n] # "none"
      BY <1>1, <2>1, <2>2 DEF ServerInv
    <2>4. TypeOK'
      BY <1>1, <1>3, <1>5, <1>6, <2>1, <2>2 DEF TypeOK, Operations
    <2>5. PcInv' /\ ReqInv' /\ HandleInv'
      BY <1>1, <1>3, <1>5, <1>6, <2>1 DEF PcInv, ReqInv, HandleInv
    <2>6. verdict[cur] = "none" /\ r # Nil
      BY <1>1, <1>3, <2>1, <2>2 DEF PcInv, ToldInv, Ids, Nil, NoNumber
    <2>7. \A v \in Invoices : ref'[v] = IF v = cur THEN r ELSE ref[v]
      BY <1>1 DEF TypeOK
    <2>8. ASSUME NEW v \in Invoices, ref'[v] # Nil
          PROVE  \E i \in Ids : /\ ref'[v] \in {i, NoNumber}
                                /\ reqs[i].inv = v /\ invoices[i] # "none"
      <3>1. CASE v = cur
        BY <2>2, <2>3, <2>7, <3>1
      <3>2. CASE v # cur
        BY <1>1, <2>7, <2>8, <3>2 DEF ToldInv
      <3> QED
        BY <3>1, <3>2
    <2>9. ToldInv'
      BY <1>1, <1>3, <1>6, <2>1, <2>6, <2>7, <2>8 DEF ToldInv, Final
    <2> QED
      BY <1>4, <2>4, <2>5, <2>9 DEF IInv
  <1>10. CASE PollReturns
    <2>1. /\ op = "poll" /\ seen \notin {NoStatus, "received"}
          /\ verdict' = [verdict EXCEPT ![cur] = seen]
          /\ UNCHANGED <<sess, ref, terminated, failedOpens>>
      BY <1>3, <1>10 DEF PollReturns, Report, IsTerminal
    <2>2. /\ cur \in Invoices /\ ref[cur] # Nil
          /\ seen \in Final \cup {"noCode"}
          /\ seen \in Final => ref[cur] \in Ids /\ invoices[ref[cur]] = seen
      BY <1>1, <1>3, <2>1 DEF PcInv, ToldInv
    <2>3. TypeOK'
      BY <1>1, <1>3, <1>5, <1>6, <2>1, <2>2 DEF TypeOK, Operations, Final
    <2>4. PcInv' /\ ReqInv' /\ HandleInv'
      BY <1>1, <1>3, <1>5, <1>6, <2>1 DEF PcInv, ReqInv, HandleInv
    <2>5. ToldInv'
      BY <1>1, <1>3, <1>6, <2>1, <2>2 DEF ToldInv, TypeOK
    <2> QED
      BY <1>4, <2>3, <2>4, <2>5 DEF IInv
  <1>11. CASE TerminateReturns
    <2>1. /\ op = "status" /\ terminated' = TRUE
          /\ UNCHANGED <<sess, ref, verdict, failedOpens>>
      BY <1>3, <1>11 DEF TerminateReturns
    <2>2. TypeOK'
      BY <1>1, <1>3, <1>5, <1>6, <2>1 DEF TypeOK, Operations
    <2>3. PcInv' /\ ReqInv' /\ ToldInv' /\ HandleInv'
      BY <1>1, <1>3, <1>5, <1>6, <2>1 DEF PcInv, ReqInv, ToldInv, HandleInv
    <2> QED
      BY <1>4, <2>2, <2>3 DEF IInv
  <1>12. CASE SubmitFails \/ PollFails \/ TerminateFails
    <2>1. op \in {"submit", "poll", "close", "status"} /\ UNCHANGED told
      BY <1>3, <1>12 DEF SubmitFails, PollFails, TerminateFails
    <2>2. TypeOK'
      BY <1>1, <1>3, <1>5, <1>6, <2>1 DEF TypeOK, Operations, told
    <2>3. PcInv' /\ ReqInv' /\ ToldInv' /\ HandleInv'
      BY <1>1, <1>3, <1>5, <1>6, <2>1 DEF PcInv, ReqInv, ToldInv, HandleInv, told
    <2> QED
      BY <1>4, <2>2, <2>3 DEF IInv
  <1> QED
    BY <1>7, <1>8, <1>9, <1>10, <1>11, <1>12

-----------------------------------------------------------------------------
(* The server. *)

(* What a step of the server leaves as it was: what the copies ask for,    *)
(* and what the caller may have seen.                                      *)
Keeps ==
    /\ UNCHANGED <<n, pc, first, cur, pend, seen, told>>
    /\ reqs' \in [Ids -> Requests]
    /\ sessions' \in [Ids -> SessionStates]
    /\ invoices' \in [Ids -> InvoiceStates]
    /\ \A j \in Ids : /\ reqs'[j].op = reqs[j].op
                      /\ reqs'[j].inv = reqs[j].inv
                      /\ reqs'[j].sess = reqs[j].sess
                      /\ reqs'[j].fate = "unsent" <=> reqs[j].fate = "unsent"
    /\ \A j \in Ids : /\ sessions[j] \in WasOpen => sessions'[j] \in WasOpen
                      /\ sessions[j] \in IsShut => sessions'[j] \in IsShut
                      /\ invoices[j] # "none" => invoices'[j] # "none"
                      /\ invoices[j] \in Final => invoices'[j] = invoices[j]

LEMMA KeepsIsEnough ==
    ASSUME IInv, Keeps, ServerInv'
    PROVE  IInv'
  <1>1. TypeOK /\ PcInv /\ ReqInv /\ ServerInv /\ ToldInv /\ HandleInv
    BY DEF IInv
  <1>2. /\ UNCHANGED <<n, pc, first, cur, pend, seen, sess, ref, verdict,
                       terminated, failedOpens>>
    BY DEF Keeps, told
  <1>3. TypeOK'
    BY <1>1, <1>2 DEF TypeOK, Keeps
  <1>4. PcInv' /\ ReqInv'
    BY <1>1, <1>2 DEF PcInv, ReqInv, Keeps
  <1>5. HandleInv'
    BY <1>1, <1>2 DEF HandleInv, Keeps
  <1>6. ToldInv'
    <2>1. sess # Nil => sess \in Ids
      BY <1>1 DEF TypeOK
    <2>2. pc = "status" => sess \in Ids
      BY <1>1, <2>1 DEF PcInv
    <2>3. \A v \in Invoices : ref[v] # Nil =>
              \E i \in Ids : /\ ref[v] \in {i, NoNumber}
                             /\ reqs'[i].inv = v /\ invoices'[i] # "none"
      BY <1>1 DEF ToldInv, Keeps
    <2> QED
      BY <1>1, <1>2, <2>1, <2>2, <2>3 DEF ToldInv, Keeps
  <1> QED
    BY <1>3, <1>4, <1>5, <1>6 DEF IInv

(* A copy under way is acted on. *)
LEMMA TakeStep ==
    ASSUME TypeOK, NEW i \in Ids, Take(i)
    PROVE  /\ reqs' \in [Ids -> Requests]
           /\ reqs[i].fate = "wire" /\ reqs'[i].fate = "applied"
           /\ \A j \in Ids : /\ reqs'[j].op = reqs[j].op
                             /\ reqs'[j].inv = reqs[j].inv
                             /\ reqs'[j].sess = reqs[j].sess
                             /\ j # i => reqs'[j].fate = reqs[j].fate
  BY DEF TypeOK, Take, Requests

LEMMA ServerStep ==
    ASSUME IInv, Server
    PROVE  IInv'
  <1>1. TypeOK /\ PcInv /\ ReqInv /\ ServerInv /\ ToldInv /\ HandleInv
    BY DEF IInv
  <1>2. UNCHANGED <<n, pc, first, cur, pend, seen, told>>
    BY DEF Server
  <1>3. PICK i \in 1..n :
            \/ ServeOpen(i) \/ ServeSubmit(i) \/ ServeClose(i)
            \/ SessionProgress(i) \/ InvoiceProgress(i)
    BY DEF Server
  <1>4. i \in Ids
    BY <1>1, MaxRequestsIsNatural DEF TypeOK, Ids
  <1>5. /\ sessions \in [Ids -> SessionStates] /\ invoices \in [Ids -> InvoiceStates]
        /\ \A j \in Ids : reqs[j].inv \in Invoices \cup {NoInvoice}
    BY <1>1 DEF TypeOK, Requests
  <1> USE DEF WasOpen, IsShut, Final
  <1>6. CASE ServeOpen(i)
    <2>1. /\ reqs[i].op = "open" /\ Take(i)
          /\ sessions' = [sessions EXCEPT ![i] = "preparing"] /\ UNCHANGED invoices
      BY <1>6 DEF ServeOpen
    <2>2. sessions[i] = "none"
      BY <1>1, <1>4, <2>1, TakeStep DEF ServerInv
    <2>3. Keeps
      BY <1>1, <1>2, <1>4, <1>5, <2>1, <2>2, TakeStep DEF Keeps, SessionStates
    <2>4. ServerInv'
      <3>1. \A v : Accepted(v) => Accepted(v)'
        BY <1>1, <1>4, <2>1, TakeStep DEF Accepted
      <3>2. /\ reqs'[i].fate = "applied" /\ reqs[i].fate # "applied"
            /\ \A j \in Ids : /\ reqs'[j].op = reqs[j].op
                              /\ reqs'[j].inv = reqs[j].inv
                              /\ reqs'[j].sess = reqs[j].sess
                              /\ j # i => reqs'[j].fate = reqs[j].fate
        BY <1>1, <1>4, <2>1, TakeStep
      <3>3. /\ sessions'[i] = "preparing"
            /\ \A j \in Ids : j # i => sessions'[j] = sessions[j]
        BY <1>4, <1>5, <2>1
      <3>4. \A j \in Ids : sessions[j] \in IsShut => sessions'[j] \in IsShut
        BY <2>2, <3>3
      <3>5. \A j \in Ids : reqs'[j].op = "close" /\ reqs'[j].fate = "applied" =>
                sessions'[reqs'[j].sess] \in IsShut
        <4>1. \A j \in Ids : reqs[j].op = "close" => reqs[j].sess \in Ids
          BY <1>1 DEF ReqInv, TypeOK
        <4> QED
          BY <1>1, <1>4, <2>1, <3>2, <3>4, <4>1 DEF ServerInv
      <3>6. \A j \in Ids : sessions'[j] # "none" <=>
                reqs'[j].op = "open" /\ reqs'[j].fate = "applied"
        BY <1>1, <2>1, <3>2, <3>3 DEF ServerInv
      <3>7. \A j \in Ids : invoices'[j] # "none" <=>
                reqs'[j].op = "submit" /\ reqs'[j].fate = "applied"
        BY <1>1, <2>1, <3>2 DEF ServerInv
      <3>8. ASSUME NEW j \in Ids, invoices'[j] = "duplicate"
            PROVE  Accepted(reqs[j].inv)'
        <4>1. Accepted(reqs[j].inv)
          BY <1>1, <2>1, <3>8 DEF ServerInv
        <4> QED
          BY <3>1, <3>2, <4>1 DEF Accepted
      <3> QED
        BY <3>5, <3>6, <3>7, <3>8 DEF ServerInv
    <2> QED
      BY <2>3, <2>4, KeepsIsEnough
  <1>7. CASE ServeSubmit(i)
    <2>1. /\ reqs[i].op = "submit" /\ Take(i)
          /\ invoices' = [invoices EXCEPT ![i] = "received"] /\ UNCHANGED sessions
      BY <1>7 DEF ServeSubmit
    <2>2. invoices[i] = "none"
      BY <1>1, <1>4, <2>1, TakeStep DEF ServerInv
    <2>3. Keeps
      BY <1>1, <1>2, <1>4, <1>5, <2>1, <2>2, TakeStep DEF Keeps, InvoiceStates
    <2>4. ServerInv'
      <3>1. \A v : Accepted(v) => Accepted(v)'
        BY <1>1, <1>4, <1>5, <2>1, <2>2, TakeStep DEF Accepted
      <3>2. ASSUME NEW j \in Ids, invoices'[j] = "duplicate"
            PROVE  Accepted(reqs[j].inv)'
        <4>1. invoices[j] = "duplicate" /\ reqs'[j].inv = reqs[j].inv
          BY <1>1, <1>4, <1>5, <2>1, <3>2, TakeStep
        <4>2. Accepted(reqs[j].inv)
          BY <1>1, <4>1 DEF ServerInv
        <4> QED
          BY <3>1, <4>1, <4>2 DEF Accepted
      <3>3. \A j \in Ids : invoices'[j] # "none" <=>
                reqs'[j].op = "submit" /\ reqs'[j].fate = "applied"
        BY <1>1, <1>4, <1>5, <2>1, TakeStep DEF ServerInv
      <3>4. \A j \in Ids : sessions'[j] # "none" <=>
                reqs'[j].op = "open" /\ reqs'[j].fate = "applied"
        <4>1. \A j \in Ids : /\ reqs'[j].op = reqs[j].op
                             /\ j # i => reqs'[j].fate = reqs[j].fate
          BY <1>1, <1>4, <2>1, TakeStep
        <4> QED
          BY <1>1, <2>1, <4>1 DEF ServerInv
      <3>5. \A j \in Ids : reqs'[j].op = "close" /\ reqs'[j].fate = "applied" =>
                sessions'[reqs'[j].sess] \in IsShut
        BY <1>1, <1>4, <2>1, TakeStep DEF ServerInv
      <3> QED
        BY <3>2, <3>3, <3>4, <3>5 DEF ServerInv
    <2> QED
      BY <2>3, <2>4, KeepsIsEnough
  <1>8. CASE ServeClose(i)
    <2> DEFINE s == reqs[i].sess
    <2>1. /\ reqs[i].op = "close" /\ sessions[s] = "opened" /\ Take(i)
          /\ sessions' = [sessions EXCEPT ![s] = "closed"] /\ UNCHANGED invoices
      BY <1>8 DEF ServeClose
    <2>2. s \in Ids
      BY <1>1, <1>4, <2>1 DEF ReqInv, TypeOK
    <2>3. Keeps
      BY <1>1, <1>2, <1>4, <1>5, <2>1, <2>2, TakeStep DEF Keeps, SessionStates
    <2>4. ServerInv'
      <3>1. \A v : Accepted(v) => Accepted(v)'
        BY <1>1, <1>4, <2>1, TakeStep DEF Accepted
      <3>2. \A j \in Ids : sessions'[j] # "none" <=> sessions[j] # "none"
        BY <1>5, <2>1, <2>2
      <3>3. sessions'[s] = "closed"
        BY <1>5, <2>1, <2>2
      <3>4. \A j \in Ids : reqs[j].op = "close" => reqs[j].sess \in Ids
        BY <1>1 DEF ReqInv, TypeOK
      <3>5. \A j \in Ids : sessions[j] \in IsShut => sessions'[j] \in IsShut
        BY <1>5, <2>1, <2>2
      <3>6. \A j \in Ids : reqs'[j].op = "close" /\ reqs'[j].fate = "applied" =>
                sessions'[reqs'[j].sess] \in IsShut
        BY <1>1, <1>4, <2>1, <3>3, <3>4, <3>5, TakeStep DEF ServerInv
      <3> QED
        BY <1>1, <1>4, <1>5, <2>1, <3>1, <3>2, <3>6, TakeStep DEF ServerInv
    <2> QED
      BY <2>3, <2>4, KeepsIsEnough
  <1>9. CASE SessionProgress(i)
    <2>1. PICK t \in NextSessionStates(i) :
              sessions' = [sessions EXCEPT ![i] = t] /\ UNCHANGED <<reqs, invoices>>
      BY <1>9 DEF SessionProgress
    <2>2. \/ sessions[i] = "preparing" /\ t \in {"opened", "undecryptable"}
          \/ sessions[i] = "opened" /\ t \in {"cancelled", "closed"}
          \/ sessions[i] = "closed" /\ t \in {"processed", "invalid"}
      BY <2>1 DEF NextSessionStates
    <2>3. Keeps
      BY <1>1, <1>2, <1>4, <1>5, <2>1, <2>2 DEF Keeps, SessionStates, TypeOK
    <2>4. ServerInv'
      <3>1. \A j \in Ids : reqs[j].op = "close" => reqs[j].sess \in Ids
        BY <1>1 DEF ReqInv, TypeOK
      <3>2. \A j \in Ids : /\ sessions'[j] # "none" <=> sessions[j] # "none"
                           /\ sessions[j] \in IsShut => sessions'[j] \in IsShut
        BY <1>4, <1>5, <2>1, <2>2
      <3> QED
        BY <1>1, <2>1, <3>1, <3>2 DEF ServerInv, Accepted
    <2> QED
      BY <2>3, <2>4, KeepsIsEnough
  <1>10. CASE InvoiceProgress(i)
    <2>1. PICK t \in {"rejected", IF Accepted(reqs[i].inv) THEN "duplicate"
                                  ELSE "accepted"} :
              /\ invoices[i] = "received"
              /\ invoices' = [invoices EXCEPT ![i] = t] /\ UNCHANGED <<reqs, sessions>>
      BY <1>10 DEF InvoiceProgress
    <2>2. t \in {"rejected", "duplicate", "accepted"}
          /\ (t = "duplicate" => Accepted(reqs[i].inv))
      BY <2>1
    <2>3. Keeps
      BY <1>1, <1>2, <1>4, <1>5, <2>1, <2>2 DEF Keeps, InvoiceStates, TypeOK
    <2>4. ServerInv'
      <3>1. \A v : Accepted(v) => Accepted(v)'
        BY <1>4, <1>5, <2>1 DEF Accepted
      <3>2. ASSUME NEW j \in Ids, invoices'[j] = "duplicate"
            PROVE  Accepted(reqs[j].inv)'
        <4>1. Accepted(reqs[j].inv)
          BY <1>1, <1>4, <1>5, <2>1, <2>2, <3>2 DEF ServerInv
        <4> QED
          BY <2>1, <3>1, <4>1 DEF Accepted
      <3>3. \A j \in Ids : invoices'[j] # "none" <=> invoices[j] # "none"
        BY <1>4, <1>5, <2>1, <2>2
      <3> QED
        BY <1>1, <2>1, <3>2, <3>3 DEF ServerInv
    <2> QED
      BY <2>3, <2>4, KeepsIsEnough
  <1> QED
    BY <1>3, <1>6, <1>7, <1>8, <1>9, <1>10

LEMMA NextIInv == IInv /\ [Next]_vars => IInv'
  <1> SUFFICES ASSUME IInv, [Next]_vars PROVE IInv'
    OBVIOUS
  <1>1. CASE UNCHANGED vars
    BY <1>1 DEF vars, server, told, IInv, TypeOK, PcInv, ReqInv, ServerInv, Accepted,
                ToldInv, HandleInv
  <1> QED
    BY <1>1, BeginStep, SendStep, AskStep, FinishStep, ServerStep DEF Next

LEMMA AlwaysIInv == Spec => []IInv
  BY InitIInv, NextIInv, PTL DEF Spec

-----------------------------------------------------------------------------
(* The theorems. *)

(* The state of the caller and the server is of the stated types.          *)
THEOREM TypesAreKept == Spec => []TypeOK
  <1>1. IInv => TypeOK
    BY DEF IInv
  <1> QED
    BY <1>1, AlwaysIInv, PTL

(* A session that OpenOnline returns has been open on the server, and      *)
(* invoices and closes are sent to such a session only (online.go:110,     *)
(* 155-177).                                                               *)
THEOREM SessionWasOpenedThm == Spec => []SessionWasOpened
  <1>1. IInv => SessionWasOpened
    BY MaxRequestsIsNatural
    DEF IInv, TypeOK, ToldInv, ReqInv, SessionWasOpened, WasOpen, Ids
  <1> QED
    BY <1>1, AlwaysIInv, PTL

(* However many copies of however many submissions are under way, what was *)
(* acknowledged is held, and a reference number that is not empty names an *)
(* invoice of the document that was submitted (submit.go:73-83).           *)
THEOREM AcknowledgedIsHeldThm == Spec => []AcknowledgedIsHeld
  <1>1. IInv => AcknowledgedIsHeld
    <2> SUFFICES ASSUME IInv, NEW v \in Invoices, ref[v] # Nil
                 PROVE  \E i \in Ids : ref[v] \in {i, NoNumber} /\ HeldAs(i, v)
      BY DEF AcknowledgedIsHeld
    <2>1. PICK i \in Ids : /\ ref[v] \in {i, NoNumber}
                           /\ reqs[i].inv = v /\ invoices[i] # "none"
      BY DEF IInv, ToldInv
    <2>2. HeldAs(i, v)
      BY <2>1 DEF IInv, ServerInv, ReqInv, HeldAs
    <2> QED
      BY <2>1, <2>2
  <1> QED
    BY <1>1, AlwaysIInv, PTL

(* A verdict with a code is that of the invoice on the server and final,   *)
(* and a duplicate means that another copy of the document was accepted,   *)
(* also when answers lack a status or a reference number (status.go:47-54, *)
(* types.go:34-37).                                                        *)
THEOREM VerdictIsTrueThm == Spec => []VerdictIsTrue
  <1>1. IInv => VerdictIsTrue
    <2> SUFFICES ASSUME IInv, NEW v \in Invoices, verdict[v] \in Final
                 PROVE  /\ ref[v] \in Ids /\ invoices[ref[v]] = verdict[v]
                        /\ verdict[v] = "duplicate" => Accepted(v)
      BY DEF IInv, TypeOK, VerdictIsTrue, Final
    <2>1. ref[v] \in Ids /\ invoices[ref[v]] = verdict[v]
      BY DEF IInv, ToldInv
    <2>2. reqs[ref[v]].inv = v
      BY <2>1 DEF IInv, ToldInv, Ids, Nil, NoNumber
    <2> QED
      BY <2>1, <2>2 DEF IInv, ServerInv
  <1> QED
    BY <1>1, AlwaysIInv, PTL

(* A session that was terminated without an error takes no invoice         *)
(* (online.go:126-134).                                                    *)
THEOREM TerminatedIsClosedThm == Spec => []TerminatedIsClosed
  <1>1. IInv => TerminatedIsClosed
    BY DEF IInv, ToldInv, TerminatedIsClosed, IsShut
  <1> QED
    BY <1>1, AlwaysIInv, PTL

(* Between operations, a live session without a handle goes back to an     *)
(* OpenOnline that reported an error or to an earlier copy of the request  *)
(* that was answered (online.go:91-112).                                   *)
THEOREM AbandonedOnlyAfterTroubleThm == Spec => []AbandonedOnlyAfterTrouble
  <1>1. IInv => AbandonedOnlyAfterTrouble
    BY DEF IInv, ServerInv, HandleInv, AbandonedOnlyAfterTrouble, Live
  <1> QED
    BY <1>1, AlwaysIInv, PTL

-----------------------------------------------------------------------------
(* Padding.                                                                *)

LEMMA FitsAByte ==
    ASSUME NEW p \in 1..255
    PROVE  p % 256 = p /\ p \in AES!Byte
  BY DEF AES!Byte

(* The bytes of padded data: the data, and a tail that repeats its length. *)
LEMMA PaddedBytes ==
    ASSUME NEW b \in 1..255, NEW data \in Seq(AES!Byte)
    PROVE  LET p == b - (Len(data) % b)
               s == AES!pkcs7Pad(data, b)
           IN  /\ p \in 1..b
               /\ s \in Seq(AES!Byte)
               /\ Len(s) = Len(data) + p
               /\ Len(s) % b = 0
               /\ \A i \in 1..Len(data) : s[i] = data[i]
               /\ \A i \in Len(data) + 1 .. Len(s) : s[i] = p
  <1> DEFINE p == b - (Len(data) % b)
             tail == [i \in 1..p |-> p % 256]
             s == AES!pkcs7Pad(data, b)
  <1>0. b \in Nat \ {0} /\ Len(data) \in Nat
    OBVIOUS
  <1>1. p \in 1..b /\ (Len(data) + p) % b = 0
    BY <1>0, Boundary
  <1>2. p % 256 = p /\ p \in AES!Byte
    <2> HIDE DEF p, tail, s
    <2>1. p \in 1..255
      BY <1>1
    <2> QED
      BY <2>1, FitsAByte
  <1>3. s = data \o tail
    BY DEF AES!pkcs7Pad
  <1> HIDE DEF s, p
  <1>4. tail \in Seq(AES!Byte) /\ Len(tail) = p
    BY <1>1, <1>2
  <1>5. s \in Seq(AES!Byte) /\ Len(s) = Len(data) + p
    <2> HIDE DEF tail
    <2>1. data \o tail \in Seq(AES!Byte)
      BY <1>4
    <2>2. Len(data \o tail) = Len(data) + Len(tail)
      BY <1>4
    <2> QED
      BY <1>3, <1>4, <2>1, <2>2
  <1>6. \A i \in 1..Len(data) : s[i] = data[i]
    BY <1>3, <1>4
  <1>7. \A i \in Len(data) + 1 .. Len(s) : s[i] = p
    BY <1>1, <1>2, <1>3, <1>4, <1>5
  <1> QED
    BY <1>1, <1>5, <1>6, <1>7 DEF s, p

(* pkcs7Unpad takes off what pkcs7Pad put on, whatever the data: none, one *)
(* block exactly, or bytes that look like padding (aes.go:98-131).         *)
LEMMA UnpadInvertsPad ==
    ASSUME NEW data \in Seq(AES!Byte)
    PROVE  AES!pkcs7Unpad(AES!pkcs7Pad(data, BlockSize)) = AES!Ok(data)
  <1> USE BlockSizeFitsAByte
  <1> DEFINE p == BlockSize - (Len(data) % BlockSize)
             s == AES!pkcs7Pad(data, BlockSize)
  <1>1. /\ p \in 1..BlockSize
        /\ s \in Seq(AES!Byte) /\ Len(s) = Len(data) + p
        /\ \A i \in 1..Len(data) : s[i] = data[i]
        /\ \A i \in Len(data) + 1 .. Len(s) : s[i] = p
    BY PaddedBytes
  <1> HIDE DEF s, p
  <1>2. Len(data) \in Nat /\ Len(s) \in Nat
    BY <1>1
  <1>3. s[Len(s)] = p
    BY <1>1, <1>2
  <1>4. AES!WellPadded(s)
    <2>1. Len(s) > 0 /\ s[Len(s)] \in 1..BlockSize /\ s[Len(s)] <= Len(s)
      BY <1>1, <1>2, <1>3
    <2>2. Len(s) - s[Len(s)] + 1 = Len(data) + 1
      BY <1>1, <1>2, <1>3
    <2>3. \A i \in Len(s) - s[Len(s)] + 1 .. Len(s) : s[i] = s[Len(s)]
      BY <1>1, <1>3, <2>2
    <2> QED
      BY <2>1, <2>3 DEF AES!WellPadded
  <1>5. SubSeq(s, 1, Len(s) - s[Len(s)]) = data
    BY <1>1, <1>2, <1>3
  <1> QED
    BY <1>4, <1>5 DEF AES!pkcs7Unpad, s

(* Nothing else is accepted: of whole blocks, pkcs7Unpad returns data only *)
(* if they are that data padded, so no two messages are decrypted to the   *)
(* same text (aes.go:112-131).                                             *)
LEMMA UnpadAcceptsOnlyPadded ==
    ASSUME NEW s \in Seq(AES!Byte), NEW data,
           Len(s) % BlockSize = 0, AES!pkcs7Unpad(s) = AES!Ok(data)
    PROVE  data \in Seq(AES!Byte) /\ s = AES!pkcs7Pad(data, BlockSize)
  <1> USE BlockSizeFitsAByte
  <1> DEFINE len == Len(s)
             p == s[len]
             padded == AES!pkcs7Pad(data, BlockSize)
  <1>1. AES!WellPadded(s) /\ data = SubSeq(s, 1, len - p)
    BY DEF AES!pkcs7Unpad, AES!Ok, AES!Err
  <1>2. /\ len \in Nat \ {0} /\ p \in 1..BlockSize /\ p <= len
        /\ \A i \in len - p + 1 .. len : s[i] = p
    BY <1>1 DEF AES!WellPadded
  <1>3. data \in Seq(AES!Byte) /\ Len(data) = len - p
    <2>1. len - p \in 0..Len(s)
      BY <1>2
    <2> HIDE DEF p
    <2>2. SubSeq(s, 1, len - p) \in Seq(AES!Byte)
      BY <2>1
    <2>3. Len(SubSeq(s, 1, len - p)) = len - p
      BY <2>1
    <2> QED
      BY <1>1, <2>2, <2>3
  <1>4. \A i \in 1..Len(data) : data[i] = s[i]
    BY <1>1, <1>2, <1>3
  <1>5. BlockSize - (Len(data) % BlockSize) = p
    <2>1. len = Len(data) + p /\ Len(data) \in Nat /\ p \in 1..BlockSize
      BY <1>2, <1>3
    <2>2. BlockSize \in Nat \ {0} /\ len % BlockSize = 0
      OBVIOUS
    <2> HIDE DEF len, p
    <2>3. (Len(data) + p) % BlockSize = 0
      BY <2>1, <2>2
    <2> QED
      BY <2>1, <2>2, <2>3, BoundaryIsUnique
  <1>6. /\ padded \in Seq(AES!Byte) /\ Len(padded) = len
        /\ \A i \in 1..Len(data) : padded[i] = data[i]
        /\ \A i \in Len(data) + 1 .. len : padded[i] = p
    <2>1. len = Len(data) + p
      BY <1>2, <1>3
    <2> HIDE DEF len, p
    <2>2. Len(padded) = len
      BY <1>3, <1>5, <2>1, PaddedBytes
    <2>3. padded \in Seq(AES!Byte) /\ \A i \in 1..Len(data) : padded[i] = data[i]
      BY <1>3, PaddedBytes
    <2>4. \A i \in Len(data) + 1 .. Len(padded) : padded[i] = p
      BY <1>3, <1>5, PaddedBytes
    <2> HIDE DEF padded
    <2> QED
      BY <2>2, <2>3, <2>4
  <1> HIDE DEF padded
  <1>7. \A i \in 1..len : padded[i] = s[i]
    BY <1>2, <1>3, <1>4, <1>6
  <1>8. padded = s
    BY <1>6, <1>7
  <1> QED
    BY <1>3, <1>8 DEF padded

-----------------------------------------------------------------------------
(* The envelope and the submission.                                        *)

(* The holder of pair reads the invoice, the holder of another reads none. *)
OnlyHolderReads(xml, pair, other, aesKey, iv) ==
    LET out == AES!EncryptInvoice(xml, pair, aesKey, iv)
    IN  /\ out.invoice.err = "nil"
        /\ AES!DecryptInvoice(out.invoice.value, out.key, pair) = AES!Ok(xml)
        /\ other # pair =>
              AES!DecryptInvoice(out.invoice.value, out.key, other).err # "nil"

(* What EncryptInvoice returns gives the invoice back to the holder of the *)
(* private key, and an error to the holder of any other (rsa.go:12-52).    *)
LEMMA EnvelopeInverts ==
    ASSUME NEW xml \in Seq(AES!Byte), NEW pair, NEW other,
           NEW aesKey \in Seq(AES!Byte), Len(aesKey) = KeySize,
           NEW iv \in Seq(AES!Byte), Len(iv) = BlockSize
    PROVE  OnlyHolderReads(xml, pair, other, aesKey, iv)
  <1> USE BlockSizeFitsAByte
  <1> DEFINE s == AES!pkcs7Pad(xml, BlockSize)
             message == [iv |-> iv, body |-> AES!CBCEncrypt(s, aesKey, iv)]
             out == AES!EncryptInvoice(xml, pair, aesKey, iv)
  <1>1. Len(s) % BlockSize = 0
    BY PaddedBytes
  <1>2. out = [invoice |-> AES!Ok(message), key |-> AES!EncryptOAEP(aesKey, pair)]
    BY DEF AES!EncryptInvoice, AES!EncryptAESCBC
  <1>3. AES!pkcs7Unpad(s) = AES!Ok(xml)
    BY UnpadInvertsPad
  <1> HIDE DEF s
  <1>4. AES!DecryptAESCBC(message, aesKey) = AES!Ok(xml)
    BY <1>1, <1>3 DEF AES!DecryptAESCBC, AES!CBCEncrypt, AES!CBCDecrypt, AES!Size
  <1> HIDE DEF message, out
  <1>5. AES!DecryptInvoice(out.invoice.value, out.key, pair) = AES!Ok(xml)
    BY <1>2, <1>4 DEF AES!DecryptInvoice, AES!decryptAESKey, AES!EncryptOAEP, AES!Ok
  <1>6. other # pair =>
            AES!DecryptInvoice(out.invoice.value, out.key, other).err # "nil"
    BY <1>2 DEF AES!DecryptInvoice, AES!decryptAESKey, AES!EncryptOAEP, AES!Ok, AES!Err
  <1>7. out.invoice.err = "nil"
    BY <1>2 DEF AES!Ok
  <1> QED
    BY <1>5, <1>6, <1>7 DEF OnlyHolderReads, out

(* SubmitInvoice builds a request exactly if the session has a key and an  *)
(* IV of the right lengths.  The server, which has only the key and the IV *)
(* of the session's opening, then reads the invoice from it, and the       *)
(* hashes and sizes are those of what it reads (submit.go:39-71).          *)
LEMMA SubmissionIsReadable ==
    ASSUME NEW key \in Seq(AES!Byte), NEW iv \in Seq(AES!Byte), NEW xml \in Seq(AES!Byte)
    PROVE  LET out == AES!SubmitInvoice(key, iv, xml)
           IN  /\ out.err = "nil" <=> Len(key) = KeySize /\ Len(iv) = BlockSize
               /\ out.err = "nil" => /\ AES!Read(out.value, key, iv) = AES!Ok(xml)
                                     /\ AES!Consistent(out.value, xml)
  <1> USE BlockSizeFitsAByte, KeysAreNotEmpty
  <1> DEFINE out == AES!SubmitInvoice(key, iv, xml)
             s == AES!pkcs7Pad(xml, BlockSize)
             cipher == AES!CBCEncrypt(s, key, iv)
  <1>1. CASE Len(key) = KeySize /\ Len(iv) = BlockSize
    <2>1. AES!EncryptAESCBCWithIV(xml, key, iv) = AES!Ok(cipher)
      BY <1>1 DEF AES!EncryptAESCBCWithIV
    <2>2. AES!pkcs7Unpad(s) = AES!Ok(xml)
      BY UnpadInvertsPad
    <2> HIDE DEF cipher, s
    <2>3. out = AES!Ok([InvoiceHash             |-> AES!SHA256(xml),
                    InvoiceSize             |-> Len(xml),
                    EncryptedInvoiceHash    |-> AES!SHA256(cipher),
                    EncryptedInvoiceSize    |-> AES!Size(cipher),
                    EncryptedInvoiceContent |-> cipher])
      <3>1. Len(key) # 0 /\ Len(iv) # 0
        BY <1>1
      <3> HIDE DEF cipher
      <3> QED
        BY <2>1, <3>1 DEF AES!SubmitInvoice, AES!Ok
    <2> HIDE DEF out
    <2>4. out.err = "nil" /\ AES!Consistent(out.value, xml)
      BY <2>3 DEF AES!Ok, AES!Consistent
    <2>5. AES!Read(out.value, key, iv) = AES!Ok(xml)
      BY <2>2, <2>3 DEF AES!Ok, AES!Read, AES!CBCEncrypt, AES!CBCDecrypt, cipher
    <2> QED
      BY <1>1, <2>4, <2>5 DEF out
  <1>2. CASE ~(Len(key) = KeySize /\ Len(iv) = BlockSize)
    <2>1. AES!EncryptAESCBCWithIV(xml, key, iv).err = "badLength"
      BY <1>2 DEF AES!EncryptAESCBCWithIV, AES!Err
    <2>2. out.err \in {"missing", "badLength"}
      BY <2>1 DEF AES!SubmitInvoice, AES!Err
    <2> QED
      BY <1>2, <2>2
  <1> QED
    BY <1>1, <1>2

(* What is padded is unpadded, and nothing else, whichever byte strings    *)
(* they are (aes.go:98-131).                                               *)
THEOREM PaddingIsInvertedThm == Spec => []PaddingIsInverted
  <1>1. Texts \subseteq Seq(AES!Byte) /\ Blocks \subseteq Seq(AES!Byte)
    BY InputsAreBytes
  <1>2. \A d \in Texts :
           AES!pkcs7Unpad(AES!pkcs7Pad(d, BlockSize)) = AES!Ok(d)
    BY <1>1, UnpadInvertsPad
  <1>3. ASSUME NEW s \in Blocks, Len(s) % BlockSize = 0,
               AES!pkcs7Unpad(s).err = "nil"
        PROVE  AES!pkcs7Pad(AES!pkcs7Unpad(s).value, BlockSize) = s
    <2>1. AES!pkcs7Unpad(s) = AES!Ok(SubSeq(s, 1, Len(s) - s[Len(s)]))
      BY <1>3 DEF AES!pkcs7Unpad, AES!Err
    <2>2. AES!pkcs7Unpad(s) = AES!Ok(AES!pkcs7Unpad(s).value)
      BY <2>1 DEF AES!Ok
    <2> QED
      BY <1>1, <1>3, <2>2, UnpadAcceptsOnlyPadded
  <1>4. PaddingIsInverted
    BY <1>2, <1>3 DEF PaddingIsInverted, Unpads
  <1> QED
    BY <1>4, PTL

(* Every envelope is read by the holder of the private key only, and every *)
(* submission by the server, whichever byte strings invoices, keys and IVs *)
(* are (rsa.go:12-52, submit.go:39-71).                                    *)
THEOREM MessagesAreReadableThm == Spec => []MessagesAreReadable
  <1>1. Texts \subseteq Seq(AES!Byte) /\ Secrets \subseteq Seq(AES!Byte)
    BY InputsAreBytes
  <1>2. Envelopes
    <2> SUFFICES ASSUME NEW xml \in Texts, NEW aesKey \in Secrets,
                        NEW iv \in Secrets, NEW pair \in KeyPairs,
                        NEW other \in KeyPairs,
                        Len(aesKey) = KeySize, Len(iv) = BlockSize
                 PROVE  LET out  == AES!EncryptInvoice(xml, pair, aesKey, iv)
                            read == AES!DecryptInvoice(out.invoice.value,
                                                       out.key, other)
                        IN  IF other = pair THEN read = AES!Ok(xml)
                            ELSE read.err # "nil"
      BY DEF Envelopes
    <2>1. /\ xml \in Seq(AES!Byte) /\ aesKey \in Seq(AES!Byte)
          /\ iv \in Seq(AES!Byte)
      BY <1>1
    <2> DEFINE out == AES!EncryptInvoice(xml, pair, aesKey, iv)
               read(holder) == AES!DecryptInvoice(out.invoice.value, out.key, holder)
    <2>2. /\ read(pair) = AES!Ok(xml)
          /\ other # pair => read(other).err # "nil"
      <3>1. OnlyHolderReads(xml, pair, other, aesKey, iv)
        BY <2>1, EnvelopeInverts
      <3> QED
        BY <3>1 DEF OnlyHolderReads
    <2> HIDE DEF read
    <2>3. IF other = pair THEN read(other) = AES!Ok(xml)
          ELSE read(other).err # "nil"
      BY <2>2
    <2> QED
      BY <2>3 DEF read
  <1>3. Submissions
    BY <1>1, SubmissionIsReadable DEF Submissions
  <1>4. MessagesAreReadable
    BY <1>2, <1>3 DEF MessagesAreReadable
  <1> QED
    BY <1>4, PTL
=============================================================================
