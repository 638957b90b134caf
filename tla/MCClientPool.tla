---------------------------- MODULE MCClientPool ----------------------------
(* An instance of ClientPool for TLC: one request's threads and one place.  *)
EXTENDS ClientPool

CONSTANTS t1, t2, t3, h1, c1, c2, c3
=============================================================================
