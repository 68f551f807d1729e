----------------------------- MODULE MCShutdown -----------------------------
(* Instances of Shutdown for TLC. *)
EXTENDS Shutdown

OneService == {1}
NoService == {}
Unnamed == {None}
=============================================================================
