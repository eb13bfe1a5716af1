--------------------------- MODULE DashboardProofs ---------------------------
(* Proofs about the manager's web page, for any nodes and groups and any number
   of lists and commands in flight. *)
EXTENDS Dashboard, TLAPS

(* The boxes that are checked belong to the target group at every moment, also
   between a list and its effects. *)
BoxesInGroup == \A n \in selectedNodeTargets : group[n] = targetGroup

(* So do, in a command to nodes that were checked, those nodes. *)
CommandsInGroup ==
  \A p \in posts : p.kind = "add" /\ p.node_ids # All =>
    \A n \in p.node_ids : group[n] = p.group

FormInv == TypeOK /\ BoxesInGroup /\ CommandsInGroup /\ FormStands

-----------------------------------------------------------------------------
LEMMA PageTypesInit == Init => TypeOK
BY GroupAssumption DEF Init, TypeOK, Fetch

(* A list that is answered is made of nodes. *)
LEMMA AnswersAreLists ==
  ASSUME TypeOK, NEW f \in Fetch, Answered(f)
  PROVE  fetches' \in [Fetch -> (SUBSET Node) \cup {None}]
BY DEF TypeOK, Answered

LEMMA PageTypesStep == TypeOK /\ [Next]_vars => TypeOK'
<1> SUFFICES ASSUME TypeOK, [Next]_vars PROVE TypeOK'
  OBVIOUS
<1>1. CASE \E n \in Node : Join(n) \/ Leave(n)
  BY <1>1 DEF TypeOK, Join, Leave, form, panel
<1>2. CASE Poll
  BY <1>2, AnswersAreLists DEF TypeOK, Poll, form, panel
<1>3. CASE \E f \in Fetch : Land(f) \/ Miss(f)
  <2> PICK f \in Fetch : Land(f) \/ Miss(f)
    BY <1>3
  <2>1. fetches' \in [Fetch -> (SUBSET Node) \cup {None}]
    BY DEF TypeOK, Land, Miss
  <2>2. nodes' \subseteq Node /\ effectsDue' \in BOOLEAN
    BY DEF TypeOK, Land, Miss
  <2> QED
    BY <2>1, <2>2 DEF TypeOK, Land, Miss, form, panel
<1>4. CASE RunEffects
  <2>1. targetGroup' \in Group /\ selectedNodeId' \in Node \cup {None}
    BY <1>4 DEF TypeOK, RunEffects, DefaultTarget
  <2>2. selectedNodeTargets' \subseteq Node
    BY <1>4 DEF TypeOK, RunEffects, Boxes, nodesInTargetGroup, InGroup
  <2> QED
    BY <1>4, <2>1, <2>2 DEF TypeOK, RunEffects, panel
<1>5. CASE \E n \in Node : SelectNode(n) \/ ToggleBox(n) \/ EndQuery(n)
  <2>1. CASE \E n \in Node : SelectNode(n)
    BY <2>1 DEF TypeOK, SelectNode, form, panel
  <2>2. CASE \E n \in Node : ToggleBox(n)
    <3> PICK n \in Node : ToggleBox(n)
      BY <2>2
    <3>1. selectedNodeTargets' \subseteq Node
      BY DEF TypeOK, ToggleBox, handleTargetNodeCheckboxChange
    <3> QED
      BY <3>1 DEF TypeOK, ToggleBox, panel
  <2>3. CASE \E n \in Node : EndQuery(n)
    BY <2>3 DEF TypeOK, EndQuery, form
  <2> QED
    BY <1>5, <2>1, <2>2, <2>3
<1>6. CASE \E g \in Group : SelectGroup(g)
  <2> PICK g \in Group : SelectGroup(g)
    BY <1>6
  <2>1. selectedNodeTargets' \subseteq Node /\ targetGroup' \in Group
    BY DEF TypeOK, SelectGroup, InGroup
  <2> QED
    BY <2>1 DEF TypeOK, SelectGroup, panel
<1>7. CASE handleAddRule
  BY <1>7 DEF TypeOK, handleAddRule, Scopes, Post, form, panel
<1>8. CASE handleDeleteRule
  BY <1>8 DEF TypeOK, handleDeleteRule, selectedNode, Post, form, panel
<1>9. CASE \E p \in posts : Respond(p)
  <2> PICK p \in posts : Respond(p)
    BY <1>9
  <2>1. fetches' \in [Fetch -> (SUBSET Node) \cup {None}]
    BY AnswersAreLists DEF TypeOK, Respond
  <2> QED
    BY <2>1 DEF TypeOK, Respond, form, panel
<1>10. CASE handleQuerySessions
  BY <1>10 DEF TypeOK, handleQuerySessions, form
<1>11. CASE UNCHANGED vars
  BY <1>11 DEF TypeOK, vars
<1> QED
  BY <1>1, <1>2, <1>3, <1>4, <1>5, <1>6, <1>7, <1>8, <1>9, <1>10, <1>11 DEF Next

(* The list, the form, the commands and the session panel keep their types. *)
THEOREM PageTypes == Spec => []TypeOK
<1>1. Init => TypeOK
  BY PageTypesInit
<1> QED
  BY <1>1, PageTypesStep, PTL DEF Spec

-----------------------------------------------------------------------------
LEMMA FormInit == Init => FormInv
BY PageTypesInit DEF Init, FormInv, BoxesInGroup, CommandsInGroup, FormStands

LEMMA BoxesStep == FormInv /\ [Next]_vars => BoxesInGroup'
<1> SUFFICES ASSUME FormInv, [Next]_vars, group' = group PROVE BoxesInGroup'
  BY DEF Next, vars, Join, Leave, Poll, Land, Miss, RunEffects, SelectNode, SelectGroup,
         ToggleBox, handleAddRule, handleDeleteRule, Respond, handleQuerySessions, EndQuery
<1>1. CASE RunEffects
  <2>1. \A n \in Boxes : group[n] = targetGroup /\ targetGroup \in groups
    BY DEF Boxes, nodesInTargetGroup, InGroup, groups
  <2>2. targetGroup \in groups => targetGroup' = targetGroup
    BY <1>1 DEF RunEffects, DefaultTarget
  <2> QED
    BY <1>1, <2>1, <2>2 DEF RunEffects, BoxesInGroup
<1>2. CASE \E n \in Node : ToggleBox(n)
  BY <1>2
  DEF FormInv, BoxesInGroup, ToggleBox, handleTargetNodeCheckboxChange, nodesInTargetGroup, InGroup
<1>3. CASE \E g \in Group : SelectGroup(g)
  BY <1>3 DEF BoxesInGroup, SelectGroup, InGroup
<1>4. CASE form' = form
  BY <1>4 DEF FormInv, BoxesInGroup, form
<1> QED
  BY <1>1, <1>2, <1>3, <1>4
  DEF Next, vars, form, Join, Leave, Poll, Land, Miss, SelectNode, handleAddRule,
      handleDeleteRule, Respond, handleQuerySessions, EndQuery

LEMMA CommandsStep == FormInv /\ [Next]_vars => CommandsInGroup'
<1> SUFFICES ASSUME FormInv, [Next]_vars, group' = group PROVE CommandsInGroup'
  BY DEF Next, vars, Join, Leave, Poll, Land, Miss, RunEffects, SelectNode, SelectGroup,
         ToggleBox, handleAddRule, handleDeleteRule, Respond, handleQuerySessions, EndQuery
<1>1. CASE handleAddRule
  BY <1>1 DEF FormInv, BoxesInGroup, CommandsInGroup, handleAddRule, Scopes, Post
<1>2. CASE handleDeleteRule
  BY <1>2 DEF FormInv, CommandsInGroup, handleDeleteRule, selectedNode, Post
<1>3. CASE posts' \subseteq posts
  BY <1>3 DEF FormInv, CommandsInGroup
<1> QED
  BY <1>1, <1>2, <1>3
  DEF Next, vars, Join, Leave, Poll, Land, Miss, RunEffects, SelectNode, SelectGroup,
      ToggleBox, Respond, handleQuerySessions, EndQuery

LEMMA FormStandsStep == FormInv /\ [Next]_vars => FormStands'
<1> SUFFICES ASSUME FormInv, [Next]_vars, group' = group, ~effectsDue' PROVE FormStands'
  BY DEF Next, vars, FormStands, Join, Leave, Poll, Land, Miss, RunEffects, SelectNode,
         SelectGroup, ToggleBox, handleAddRule, handleDeleteRule, Respond,
         handleQuerySessions, EndQuery
<1> USE DEF groups, nodesInTargetGroup, InGroup
<1>1. CASE RunEffects
  <2>1. targetGroup' = targetGroup /\ nodes' = nodes /\ selectedNodeTargets' = nodesInTargetGroup
    BY <1>1 DEF RunEffects, Boxes
  <2>2. ASSUME nodes # {} PROVE targetGroup \in groups /\ selectedNodeId' # None
    <3> PICK first \in nodes :
          /\ targetGroup' = DefaultTarget(first)
          /\ selectedNodeId' = IF selectedNodeId = None THEN first ELSE selectedNodeId
      BY <1>1, <2>2 DEF RunEffects
    <3> QED
      BY <2>1, NoneAssumption DEF DefaultTarget, FormInv, TypeOK
  <2> QED
    BY <2>1, <2>2 DEF FormStands
<1>2. CASE \E n \in Node : SelectNode(n)
  BY <1>2, NoneAssumption DEF FormInv, FormStands, SelectNode, form
<1>3. CASE \E n \in Node : ToggleBox(n)
  BY <1>3 DEF FormInv, FormStands, ToggleBox, handleTargetNodeCheckboxChange
<1>4. CASE \E g \in Group : SelectGroup(g)
  BY <1>4 DEF FormInv, FormStands, SelectGroup
<1>5. CASE UNCHANGED <<nodes, effectsDue, form, selectedNodeId>>
  BY <1>5 DEF FormInv, FormStands, form
<1> QED
  BY <1>1, <1>2, <1>3, <1>4, <1>5
  DEF Next, vars, form, Join, Leave, Poll, Land, Miss, handleAddRule, handleDeleteRule,
      Respond, handleQuerySessions, EndQuery

LEMMA FormInvariant == Spec => []FormInv
<1>1. FormInv /\ [Next]_vars => FormInv'
  BY PageTypesStep, BoxesStep, CommandsStep, FormStandsStep DEF FormInv
<1> QED
  BY <1>1, FormInit, PTL DEF Spec

(* Once the effects of a list have run, the form stands on what is listed. *)
THEOREM FormsStand == Spec => []FormStands
<1>1. FormInv => FormStands
  BY DEF FormInv
<1> QED
  BY <1>1, FormInvariant, PTL

(* The manager sends a command to all nodes that were checked for it and are
   connected, and to no others. *)
THEOREM CheckedNodesAreReached == Spec => []CheckedAreReached
<1>1. FormInv => CheckedAreReached
  <2> SUFFICES ASSUME FormInv, NEW p \in posts, p.kind = "add", p.node_ids # All
               PROVE  Reached(p) = p.node_ids \cap registry
    BY DEF CheckedAreReached
  <2>1. \A n \in p.node_ids : group[n] = p.group
    BY DEF FormInv, CommandsInGroup
  <2> QED
    BY <2>1 DEF Reached, InGroup
<1> QED
  BY <1>1, FormInvariant, PTL

-----------------------------------------------------------------------------
(* The session panel shows the answer to the last query, and at most one is in
   flight: no answer of an earlier query can land in between. *)
THEOREM PanelsFollow == Spec => []PanelFollows
<1>1. Init => PanelFollows
  BY DEF Init, PanelFollows
<1>2. PanelFollows /\ [Next]_vars => PanelFollows'
  <2> SUFFICES ASSUME PanelFollows, [Next]_vars PROVE PanelFollows'
    OBVIOUS
  <2>1. CASE handleQuerySessions
    BY <2>1 DEF PanelFollows, handleQuerySessions, SearchEnabled
  <2>2. CASE \E n \in Node : EndQuery(n)
    BY <2>2 DEF PanelFollows, EndQuery
  <2>3. CASE UNCHANGED panel
    BY <2>3 DEF PanelFollows, panel
  <2> QED
    BY <2>1, <2>2, <2>3
    DEF Next, vars, panel, Join, Leave, Poll, Land, Miss, RunEffects, SelectNode, SelectGroup,
        ToggleBox, handleAddRule, handleDeleteRule, Respond
<1> QED
  BY <1>1, <1>2, PTL DEF Spec
=============================================================================
