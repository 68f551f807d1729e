---------------------------------- MODULE MCNet ----------------------------------
(***************************************************************************)
(* Net for TLC: two wireless networks, the second of them also with an      *)
(* address set by hand, and one address that is refused.                    *)
(***************************************************************************)
EXTENDS Net

CONSTANTS home, office, none, unnamed
Both == {home, office}
Text(ssid, address) == [ssid |-> ssid, iface |-> unnamed, address |-> address]
Home == Text(home, "dhcp")
Office == Text(office, "dhcp")
OfficeStatic == Text(office, "whole")
Bare == Text(none, "bare")
FourTexts == {Home, Office, OfficeStatic, Bare}
HomeOrNone == {Home, NoFile}
NothingBaked == {NoFile}
=============================================================================
