--------------------------- MODULE MCRequestLease ---------------------------
(* One request on each of two processes. *)
EXTENDS RequestLease

CONSTANTS HomeProcess, OtherProcess, RequestC

Homes == [r \in Request |-> IF r = RequestC THEN OtherProcess ELSE HomeProcess]
=============================================================================
