----------------------------- MODULE MCDashboard -----------------------------
(* Two nodes of one group or of two, two lists and a command in flight. *)
EXTENDS Dashboard

CONSTANTS n1, n2, g1, g2
=============================================================================
