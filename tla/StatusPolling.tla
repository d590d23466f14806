---------------------------- MODULE StatusPolling ---------------------------
(***************************************************************************)
(* What a polling loop of the SDK promises, whatever its timing: it asks   *)
(* for a status until it has seen one that settles the matter, never asks  *)
(* again after that, and succeeds exactly on the statuses it waits for.    *)
(* WaitUntilActive (session), PollUntilProcessed (invoice) and             *)
(* pollUntilDone (auth) implement it.                                      *)
(***************************************************************************)

CONSTANTS
    Codes,      \* status codes of the polled object
    Success,    \* codes the loop waits for
    Failure     \* codes that end the loop with an error

VARIABLES
    seen,       \* last status a request reported
    outcome     \* what the caller has been told

vars == <<seen, outcome>>

NoCode == "none"

TypeOK ==
    /\ seen \in Codes \cup {NoCode}
    /\ outcome \in {"polling", "ok", "error"}

Init == seen = NoCode /\ outcome = "polling"

Ask ==
    /\ outcome = "polling"
    /\ seen \notin Success \cup Failure
    /\ seen' \in Codes
    /\ UNCHANGED outcome

Succeed ==
    /\ outcome = "polling"
    /\ seen \in Success
    /\ outcome' = "ok"
    /\ UNCHANGED seen

(* A bad status, a failed request, a cancelled context or a spent budget.  *)
Fail ==
    /\ outcome = "polling"
    /\ seen \notin Success
    /\ outcome' = "error"
    /\ UNCHANGED seen

Next == Ask \/ Succeed \/ Fail

Spec == Init /\ [][Next]_vars
=============================================================================
