-------------------------- MODULE MCOfficeServer --------------------------
(* OfficeServer on a small instance; see MCOfficeServer.cfg. *)
EXTENDS OfficeServer, TLC

Symmetric == Permutations(Session) \cup Permutations(Worker)
=============================================================================
