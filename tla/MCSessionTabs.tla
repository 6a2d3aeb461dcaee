---------------------------- MODULE MCSessionTabs -----------------------------
(* One SSH session, one server of another kind, which can be opened again  *)
(* under its id any number of times, and two tools.                        *)
EXTENDS SessionTabs

CONSTANTS s1, d1

MCSshIds == {s1}
MCDbIds == {d1}
MCTools == {"devtools", "wiki"}
=============================================================================
