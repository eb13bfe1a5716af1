------------------------- MODULE MCDashboardHistory -------------------------
(* Two nodes of one group or of two. *)
EXTENDS DashboardHistory

CONSTANTS n1, n2, g1, g2
=============================================================================
