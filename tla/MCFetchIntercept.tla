--------------------------- MODULE MCFetchIntercept ---------------------------
(* Constants of FetchIntercept for TLC. *)
EXTENDS FetchIntercept

CONSTANTS r1, r2

MCRequests == {r1, r2}
=============================================================================
