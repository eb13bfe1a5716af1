--------------------------- MODULE DashboardHistory ---------------------------
(* Dashboard with the history of the operator's choice among the boxes. *)
EXTENDS Dashboard

VARIABLE unchecked  \* the boxes the operator cleared, in the target group that is still set

HInit == Init /\ unchecked = {}

HNext ==
  /\ Next
  /\ unchecked' =
       IF targetGroup' # targetGroup THEN {}
       ELSE IF \E n \in Node : ToggleBox(n)
       THEN (unchecked \cup selectedNodeTargets) \ selectedNodeTargets'
       ELSE unchecked

HSpec == HInit /\ [][HNext]_<<vars, unchecked>>

(* App.tsx:139 has the boxes initialized "when group changes": as long as the
   target group stays, a box the operator cleared stays cleared, and the node is
   spared the command. *)
UncheckedStay == unchecked \cap selectedNodeTargets = {}
=============================================================================
