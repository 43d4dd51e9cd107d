-------------------------- MODULE MCConnectionPool --------------------------
(* An instance of ConnectionPool for TLC. *)
EXTENDS ConnectionPool

CONSTANTS h1, h2, h3

MCHandlers == {h1, h2, h3}
(* No handler, one, and as many as there are connections use the pool. *)
MCSharingSets == {{}, {h1}, {h1, h2}}
=============================================================================
