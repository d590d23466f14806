------------------------------ MODULE HttpCall ------------------------------
(***************************************************************************)
(* What one call of the SDK's HTTP client (Get, Post, PostRaw, ... of      *)
(* internal/httpclient) promises to the package that makes it, whatever    *)
(* the retry loop inside does.  This is the abstract specification that    *)
(* HttpClient implements, and the contract the session and authentication  *)
(* modules are built on:                                                   *)
(*                                                                         *)
(*   - up to Limit copies of the request leave the client, one after the   *)
(*     other, and none leaves after the call has returned;                 *)
(*   - a copy that left may be acted on by the server at ANY later time,   *)
(*     also after the call has returned, or never;                         *)
(*   - "done" is returned only if the server acted on the last copy,       *)
(*     "refused" only if it rejected the last copy without acting on it;   *)
(*     "unknown" says nothing about any copy.                              *)
(***************************************************************************)
EXTENDS Integers

CONSTANT MaxRetries

VARIABLES
    fate,      \* what became of each copy of the request
    outcome    \* what the caller has been told

vars == <<fate, outcome>>

(* Copies are numbered by the attempt that sends them. *)
Attempts == 0..MaxRetries

Fates    == {"unsent", "wire", "applied", "rejected"}
Outcomes == {"pending", "done", "refused", "unknown"}

TypeOK ==
    /\ fate \in [Attempts -> Fates]
    /\ outcome \in Outcomes

(* i is the last copy that left the client. *)
IsLast(i) ==
    /\ i \in Attempts
    /\ fate[i] # "unsent"
    /\ \A j \in Attempts : j > i => fate[j] = "unsent"

Init ==
    /\ fate = [i \in Attempts |-> "unsent"]
    /\ outcome = "pending"

(* One more copy leaves the client, after all the earlier ones. *)
Issue ==
    /\ outcome = "pending"
    /\ \E i \in Attempts :
          /\ \A j \in Attempts : j >= i => fate[j] = "unsent"
          /\ fate' = [fate EXCEPT ![i] = "wire"]
    /\ UNCHANGED outcome

(* The server takes a copy off the wire and acts on it, or refuses it. *)
Serve ==
    /\ \E i \in Attempts, f \in {"applied", "rejected"} :
          /\ fate[i] = "wire"
          /\ fate' = [fate EXCEPT ![i] = f]
    /\ UNCHANGED outcome

ReturnDone ==
    /\ outcome = "pending"
    /\ \E i \in Attempts : IsLast(i) /\ fate[i] = "applied"
    /\ outcome' = "done"
    /\ UNCHANGED fate

ReturnRefused ==
    /\ outcome = "pending"
    /\ \E i \in Attempts : IsLast(i) /\ fate[i] = "rejected"
    /\ outcome' = "refused"
    /\ UNCHANGED fate

ReturnUnknown ==
    /\ outcome = "pending"
    /\ outcome' = "unknown"
    /\ UNCHANGED fate

Next == Issue \/ Serve \/ ReturnDone \/ ReturnRefused \/ ReturnUnknown

Spec == Init /\ [][Next]_vars
=============================================================================
