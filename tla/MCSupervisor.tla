---------------------------- MODULE MCSupervisor ----------------------------
(* Instances of Supervisor for TLC: DEFAULT_SERVICES has two services, both *)
(* notifying and both respawning; the other shapes come from its unit tests. *)
EXTENDS Supervisor

BothServices == {1, 2}
FirstService == {1}
SecondService == {2}
NoService == {}
FirstOrNone == {1, None}
FirstAlone == {1}
=============================================================================
