---------------------------- MODULE MCHttpClient ----------------------------
(***************************************************************************)
(* Instances of HttpClient for TLC.                                        *)
(***************************************************************************)
EXTENDS HttpClient

(* One status per branch of execute and parseError.                        *)
MCStatuses == {202, 400, 401, 429, 503}

(* A Retry-After longer than any back-off of the instance, one too long    *)
(* for a duration, one that is not positive, and none.                     *)
MCRetryAfters == {-1, 0, 5, 9}

(* retry.MaxRetries of a client configured with a negative value.          *)
MCNegative == -1
=============================================================================
