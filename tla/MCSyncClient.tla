--------------------------- MODULE MCSyncClient ---------------------------
(* SyncClient on a small instance; see MCSyncClient.cfg. *)
EXTENDS SyncClient, TLC

Symmetric == Permutations(Session)
=============================================================================
